-------------------------------- MODULE Logger --------------------------------
(***************************************************************************)
(* CLogger (common/Logging.h): the thread that owns a logger pushes what   *)
(* it logs, element by element, into a lock free queue; a second thread    *)
(* writes the elements to a file; and the destructor waits for the queue   *)
(* to become empty before it stops that thread and closes the file.        *)
(*                                                                         *)
(* The destructor runs on the thread that logs.  In the exchange this is    *)
(* the handler of SIGINT (ExchangeMain.cpp), which may interrupt the thread *)
(* anywhere, and from which it never returns to what it was logging.        *)
(*                                                                         *)
(* An element is a character or a number; what it looks like in the file    *)
(* is left out.  The queue is the one of LockFreeQueue, step for step, read *)
(* the way FlushQueue reads it, which releases a slot last: Flush has no    *)
(* step that reads a slot again, and Logger.cfg has ReleaseEarly = FALSE.  *)
(***************************************************************************)
EXTENDS LockFreeQueue

CONSTANTS Messages,     \* what Log makes of its arguments
          MaxMessages   \* bound on the calls of Log

ASSUME MessagesAssumption == Messages \subseteq Seq(Values)
ASSUME CallsAssumption    == MaxMessages \in Nat

VARIABLES calls,     \* how often Log was called
          left,      \* what the call of Log has still to push
          running,   \* m_isRrunning
          flusher,   \* where m_pLoggerThread is in FlushQueue
          closing,   \* how far the destructor has come
          file,      \* m_file
          logged     \* every element pushed, in order: not in the code

ownerVars   == <<calls, left, closing, logged>>
flusherVars == <<flusher, file>>
loggerVars  == <<vars, ownerVars, flusherVars, running>>

LoggerInit ==
    /\ Init
    /\ calls = 0
    /\ left = <<>>
    /\ running = TRUE
    /\ flusher = "testing"
    /\ closing = "no"
    /\ file = <<>>
    /\ logged = <<>>

-----------------------------------------------------------------------------
(* The thread that owns the logger.                                        *)

\* Log is called, and goes through the format string.
Log(message) ==
    /\ closing = "no"
    /\ wpc = "idle" /\ left = <<>>
    /\ calls < MaxMessages
    /\ calls' = calls + 1
    /\ left' = message
    /\ UNCHANGED <<vars, closing, logged, flusherVars, running>>

\* Its next PushValue begins: *(m_queue.GetNextToWriteTo()) = logElement ...
PushValue ==
    /\ closing = "no"
    /\ left # <<>>
    /\ GetNextToWriteTo(Head(left))
    /\ left' = Tail(left)
    /\ UNCHANGED <<calls, closing, logged, flusherVars, running>>

\* ... and goes on to the end of UpdateWriteIndex, unless the handler intervenes.
FinishPush ==
    /\ closing = "no"
    /\ \/ (FillSlot \/ AdvanceWriteIndex) /\ UNCHANGED logged
       \/ CountElement /\ logged' = Append(logged, wval)
    /\ UNCHANGED <<calls, left, closing, flusherVars, running>>

-----------------------------------------------------------------------------
(* ~CLogger                                                                *)

\* Mutant: the thread is told to stop first.
CloseStopped ==
    /\ closing = "no"
    /\ closing' = "draining"
    /\ running' = FALSE
    /\ UNCHANGED <<vars, calls, left, logged, flusherVars>>

\* The destructor is called, wherever the owner is.
Close ==
    /\ closing = "no"
    /\ closing' = "draining"
    /\ UNCHANGED <<vars, calls, left, logged, flusherVars, running>>

\* Mutant: it does not wait for the queue.
AwaitNothing ==
    /\ closing = "draining"
    /\ running' = FALSE
    /\ closing' = "joining"
    /\ UNCHANGED <<vars, calls, left, logged, flusherVars>>

\* while (m_queue.size()) sleep, and the flag is cleared.
AwaitEmptyQueue ==
    /\ closing = "draining"
    /\ numElements = 0
    /\ running' = FALSE
    /\ closing' = "joining"
    /\ UNCHANGED <<vars, calls, left, logged, flusherVars>>

\* join() returns and the file is closed.
Join ==
    /\ closing = "joining"
    /\ flusher = "exited"
    /\ closing' = "done"
    /\ UNCHANGED <<vars, calls, left, logged, flusherVars, running>>

Destructor == AwaitEmptyQueue \/ Join

Owner == \/ \E message \in Messages : Log(message)
         \/ PushValue
         \/ FinishPush
         \/ Close
         \/ Destructor

-----------------------------------------------------------------------------
(* FlushQueue, on the logger's own thread.                                 *)

\* while (m_isRrunning)
TestRunning ==
    /\ flusher = "testing"
    /\ flusher' = IF running THEN "flushing" ELSE "exited"
    /\ UNCHANGED <<vars, ownerVars, file, running>>

\* The for loop gets an element and writes it to the file ...
Flush ==
    /\ flusher = "flushing"
    /\ \/ GetNextToRead /\ UNCHANGED file
       \/ ReadElement /\ file' = Append(file, got')
       \/ (AdvanceReadIndex \/ ReleaseElement) /\ UNCHANGED file
    /\ UNCHANGED <<ownerVars, flusher, running>>

\* ... until there is none; the thread sleeps and looks at the flag again.
Sleep ==
    /\ flusher = "flushing"
    /\ rpc = "idle" /\ numElements = 0
    /\ flusher' = "testing"
    /\ UNCHANGED <<vars, ownerVars, file, running>>

FlushQueue == TestRunning \/ Flush \/ Sleep

-----------------------------------------------------------------------------

LoggerNext == Owner \/ FlushQueue

LoggerSpec == LoggerInit /\ [][LoggerNext]_loggerVars

\* The logger's thread loops for ever, and a destructor that was called runs on.
FairLoggerSpec == /\ LoggerSpec
                  /\ WF_loggerVars(FlushQueue)
                  /\ WF_loggerVars(Destructor)

-----------------------------------------------------------------------------
(* What makes a logger correct.                                            *)

\* The file has what was logged, in order, with nothing lost or doubled at the end
\* of the ring; and once it is closed it has all of it, although the size that the
\* destructor waits for is changed by both threads and the flag by a third party.
FileIsLog ==
    /\ Len(file) <= Len(logged)
    /\ file = SubSeq(logged, 1, Len(file))
    /\ closing = "done" => file = logged

\* The destructor comes to its end, whatever the interrupted thread was doing and
\* wherever the logger's thread was in its loop.
CloseEnds == closing = "draining" ~> closing = "done"
=============================================================================
