-------------------------- MODULE MarketDataConsumer --------------------------
(***************************************************************************)
(* CMarketDataConsumer (trading/market_data/MarketDataConsumer.cpp): how a *)
(* client follows the incremental stream over a network that loses         *)
(* datagrams, and how it gets back in step by means of the snapshot        *)
(* stream.                                                                 *)
(*                                                                         *)
(* An update adds an order or takes one away; its sequence number is its   *)
(* place in the stream, and orders are named by the number of the update   *)
(* that added them.  Updates that change an order or report a trade go the *)
(* same way through this component.                                        *)
(*                                                                         *)
(* The snapshot stream is one cycle after the other, each of which the     *)
(* synthesizer cuts into datagrams (SnapshotSynthesizer.cpp:81-124): START,*)
(* CLEAR and the first order share one, each further order has its own and *)
(* the last one holds END.                                                 *)
(***************************************************************************)
EXTENDS Integers, Sequences, FiniteSets

CONSTANTS MaxUpdates,          \* bound on the incremental stream
          MaxStreamLosses,     \* bound on the incremental messages lost
          MaxSnapshotLosses,   \* bound on the snapshot datagrams lost
          Reordering           \* incremental datagrams may overtake each other

ASSUME BoundsAssumption == /\ MaxUpdates \in Nat
                           /\ MaxStreamLosses \in Nat
                           /\ MaxSnapshotLosses \in Nat
ASSUME ReorderingAssumption == Reordering \in BOOLEAN

VARIABLES stream,             \* the updates sent so far
          inFlight,           \* numbers of those still on their way
          cycle,              \* the snapshot cycle being sent, and how far
          streamLosses,       \* how many updates were lost on the way
          snapshotLosses,     \* and how many snapshot datagrams
          nextExpIncSeqNum,   \* m_nextExpIncSeqNum
          isInRecovery,       \* m_isInRecovery, and subscribed to snapshots
          snapshotQueued,     \* m_snapshotQueuedMsgs
          incrementalQueued,  \* the numbers in m_incrementalQueuedMsgs
          book                \* the orders a reader of the output queue has

networkVars  == <<stream, inFlight, cycle, streamLosses, snapshotLosses>>
consumerVars == <<nextExpIncSeqNum, isInRecovery, snapshotQueued,
                  incrementalQueued, book>>
vars == <<networkVars, consumerVars>>

Numbers == 1 .. MaxUpdates

Update == [type : {"ADD", "CANCEL"}, order : Numbers]

\* A snapshot message; order is the last number applied for START and END.
Message == [type : {"SNAPSHOT_START", "CLEAR", "ADD", "SNAPSHOT_END"},
            order : 0 .. MaxUpdates]

TypeOK ==
    /\ stream \in Seq(Update) /\ Len(stream) <= MaxUpdates
    /\ inFlight \subseteq DOMAIN stream
    /\ cycle \in [last : 0 .. MaxUpdates, sent : 0 .. MaxUpdates + 3]
    /\ streamLosses \in 0 .. MaxStreamLosses
    /\ snapshotLosses \in 0 .. MaxSnapshotLosses
    /\ nextExpIncSeqNum \in 1 .. MaxUpdates + 1
    /\ isInRecovery \in BOOLEAN
    /\ DOMAIN snapshotQueued \subseteq 0 .. MaxUpdates + 2
    /\ \A k \in DOMAIN snapshotQueued : snapshotQueued[k] \in Message
    /\ incrementalQueued \subseteq DOMAIN stream
    /\ book \subseteq Numbers

-----------------------------------------------------------------------------
(* The exchange and the network.                                           *)

\* The orders a book holds after the first n updates.
BookAt(n) ==
    {m \in 1 .. n : /\ stream[m].type = "ADD"
                    /\ \A k \in 1 .. n : stream[k] # [type |-> "CANCEL", order |-> m]}

\* The messages of a cycle that shows book B as of number n.
Orders(B)  == 2 .. Cardinality(B) + 1
EndSeq(B)  == Cardinality(B) + 2
Size(B)    == Cardinality(B) + 3
KthOrder(B, k) == CHOOSE m \in B : Cardinality({x \in B : x <= m}) = k

\* Mutant: SNAPSHOT_START carries the number of the next update.
SnapshotMessageAhead(n, B, k) ==
    CASE k = 0         -> [type |-> "SNAPSHOT_START", order |-> n + 1]
      [] k = 1         -> [type |-> "CLEAR", order |-> 0]
      [] k \in Orders(B) -> [type |-> "ADD", order |-> KthOrder(B, k - 1)]
      [] k = EndSeq(B) -> [type |-> "SNAPSHOT_END", order |-> n]

SnapshotMessage(n, B, k) ==
    CASE k = 0         -> [type |-> "SNAPSHOT_START", order |-> n]
      [] k = 1         -> [type |-> "CLEAR", order |-> 0]
      [] k \in Orders(B) -> [type |-> "ADD", order |-> KthOrder(B, k - 1)]
      [] k = EndSeq(B) -> [type |-> "SNAPSHOT_END", order |-> n]

\* The message after the datagram that begins with message k.
NextDatagram(k) == IF k = 0 THEN 3 ELSE k + 1

\* No datagram is half read.
AtBoundary == cycle.sent \notin {1, 2}

Init ==
    /\ stream = <<>>
    /\ inFlight = {}
    /\ cycle = [last |-> 0, sent |-> Size({})]
    /\ streamLosses = 0
    /\ snapshotLosses = 0
    /\ nextExpIncSeqNum = 1
    /\ isInRecovery = FALSE
    /\ snapshotQueued = <<>>
    /\ incrementalQueued = {}
    /\ book = {}

Publish(u) ==
    /\ Len(stream) < MaxUpdates
    /\ stream' = Append(stream, u)
    /\ inFlight' = inFlight \cup {Len(stream) + 1}
    /\ UNCHANGED <<cycle, streamLosses, snapshotLosses, consumerVars>>

Exchange ==
    \/ Publish([type |-> "ADD", order |-> Len(stream) + 1])
    \/ \E m \in BookAt(Len(stream)) : Publish([type |-> "CANCEL", order |-> m])

\* A new cycle, after the last one; the synthesizer has applied n updates.
StartCycle(n) ==
    /\ cycle.sent = Size(BookAt(cycle.last))
    /\ n \in cycle.last .. Len(stream)
    /\ cycle' = [last |-> n, sent |-> 0]
    /\ UNCHANGED <<stream, inFlight, streamLosses, snapshotLosses, consumerVars>>

Sending == cycle.sent < Size(BookAt(cycle.last))

LoseIncremental(n) ==
    /\ n \in inFlight
    /\ streamLosses < MaxStreamLosses
    /\ inFlight' = inFlight \ {n}
    /\ streamLosses' = streamLosses + 1
    /\ UNCHANGED <<stream, cycle, snapshotLosses, consumerVars>>

LoseSnapshot ==
    /\ Sending /\ AtBoundary /\ isInRecovery
    /\ snapshotLosses < MaxSnapshotLosses
    /\ snapshotLosses' = snapshotLosses + 1
    /\ cycle' = [cycle EXCEPT !.sent = NextDatagram(@)]
    /\ UNCHANGED <<stream, inFlight, streamLosses, consumerVars>>

\* The consumer has not joined the snapshot group.
PassSnapshot ==
    /\ Sending /\ AtBoundary /\ ~isInRecovery
    /\ cycle' = [cycle EXCEPT !.sent = NextDatagram(@)]
    /\ UNCHANGED <<stream, inFlight, streamLosses, snapshotLosses, consumerVars>>

-----------------------------------------------------------------------------
(* checkSnapshotSync, given the two maps of queued messages.               *)

KeepWaiting(snapshots, incrementals, next) ==
    /\ isInRecovery' = TRUE
    /\ snapshotQueued' = snapshots
    /\ incrementalQueued' = incrementals
    /\ nextExpIncSeqNum' = next
    /\ UNCHANGED book

\* The numbers from 0 on are all there, so the first message is SNAPSHOT_START.
Gapless(snapshots) ==
    DOMAIN snapshots = 0 .. Cardinality(DOMAIN snapshots) - 1

LastOf(snapshots) == snapshots[Cardinality(DOMAIN snapshots) - 1]

\* The queued updates that the snapshot does not cover yet.
Newer(snapshots, incrementals) ==
    {n \in incrementals : n > LastOf(snapshots).order}

\* The first number after those that follow each other from the snapshot on.
NextAfter(snapshots, incrementals) ==
    CHOOSE n \in 1 .. MaxUpdates + 1 :
        /\ n > LastOf(snapshots).order
        /\ n \notin incrementals
        /\ \A k \in LastOf(snapshots).order + 1 .. n - 1 : k \in incrementals

\* Mutant: queued updates are taken whether or not they follow the snapshot.
JoinsUpAlways(snapshots, incrementals) == TRUE

\* Mutant: queued updates the snapshot covers are not skipped.
JoinsUpUnskipped(snapshots, incrementals) ==
    \A n \in incrementals :
        LastOf(snapshots).order < n /\ n < NextAfter(snapshots, incrementals)

\* No update is missing between the snapshot and the last queued one.
JoinsUp(snapshots, incrementals) ==
    \A n \in Newer(snapshots, incrementals) : n < NextAfter(snapshots, incrementals)

\* The reader's book after CLEAR, the snapshot's orders and the newer updates.
BookAfter(snapshots, incrementals) ==
    LET run   == {stream[n] : n \in Newer(snapshots, incrementals)}
        adds  == {m \in Numbers : [type |-> "ADD", order |-> m] \in run}
        takes == {m \in Numbers : [type |-> "CANCEL", order |-> m] \in run}
        shown == {snapshots[k].order : k \in {j \in DOMAIN snapshots :
                                                snapshots[j].type = "ADD"}}
    IN  (shown \cup adds) \ takes

\* Everything is written to the queue, and the snapshot group is left.
Recovered(snapshots, incrementals) ==
    /\ isInRecovery' = FALSE
    /\ snapshotQueued' = <<>>
    /\ incrementalQueued' = {}
    /\ nextExpIncSeqNum' = NextAfter(snapshots, incrementals)
    /\ book' = BookAfter(snapshots, incrementals)

CheckSnapshotSync(snapshots, incrementals) ==
    IF snapshots = <<>> \/ ~Gapless(snapshots)
    THEN KeepWaiting(<<>>, incrementals, nextExpIncSeqNum)
    ELSE IF LastOf(snapshots).type # "SNAPSHOT_END"
    THEN KeepWaiting(snapshots, incrementals, nextExpIncSeqNum)
    ELSE IF ~JoinsUp(snapshots, incrementals)
    THEN KeepWaiting(<<>>, incrementals, NextAfter(snapshots, incrementals))
    ELSE Recovered(snapshots, incrementals)

-----------------------------------------------------------------------------
(* RecvCallback                                                            *)

\* The update is the expected one: it goes straight to the trade engine.
InOrder(n) ==
    /\ nextExpIncSeqNum' = nextExpIncSeqNum + 1
    /\ book' = IF stream[n].type = "ADD" THEN book \cup {stream[n].order}
                                        ELSE book \ {stream[n].order}
    /\ UNCHANGED <<isInRecovery, snapshotQueued, incrementalQueued>>

\* startSnapshotSync empties both maps; the update is then the first queued.
StartSnapshotSync(n) == CheckSnapshotSync(<<>>, {n})

RecvIncremental(n) ==
    /\ n \in inFlight
    /\ Reordering \/ \A k \in inFlight : n <= k
    /\ AtBoundary
    /\ inFlight' = inFlight \ {n}
    /\ IF isInRecovery
       THEN CheckSnapshotSync(snapshotQueued, incrementalQueued \cup {n})
       ELSE IF n = nextExpIncSeqNum THEN InOrder(n) ELSE StartSnapshotSync(n)
    /\ UNCHANGED <<stream, cycle, streamLosses, snapshotLosses>>

\* queueMessage: a number seen before belongs to a new cycle.
Queued(k, m) ==
    [j \in (IF k \in DOMAIN snapshotQueued THEN {} ELSE DOMAIN snapshotQueued)
            \cup {k} |-> IF j = k THEN m ELSE snapshotQueued[j]]

RecvSnapshot ==
    LET k == cycle.sent
    IN  /\ Sending /\ isInRecovery
        /\ CheckSnapshotSync(
               Queued(k, SnapshotMessage(cycle.last, BookAt(cycle.last), k)),
               incrementalQueued)
        /\ cycle' = [cycle EXCEPT !.sent = k + 1]
        /\ UNCHANGED <<stream, inFlight, streamLosses, snapshotLosses>>

-----------------------------------------------------------------------------

Receive == RecvSnapshot \/ \E n \in Numbers : RecvIncremental(n)

Next ==
    \/ Exchange
    \/ \E n \in 0 .. MaxUpdates : StartCycle(n)
    \/ \E n \in Numbers : LoseIncremental(n)
    \/ LoseSnapshot
    \/ PassSnapshot
    \/ Receive

Spec == Init /\ [][Next]_vars

\* The consumer's thread polls both sockets in turn.  The exchange keeps sending
\* cycles, and none stays behind the stream for ever, since every update reaches
\* the synthesizer (ExchangeMarketData!EveryUpdateReachesSnapshot).
FairSpec ==
    /\ Spec
    /\ WF_vars(RecvSnapshot)
    /\ WF_vars(\E n \in Numbers : RecvIncremental(n))
    /\ WF_vars(PassSnapshot)
    /\ SF_vars(StartCycle(Len(stream)))

-----------------------------------------------------------------------------
(* What makes the consumer correct.                                        *)

\* Whenever the consumer takes itself to be in step, the trade engine's book is
\* the book after all updates before the next expected one: nothing is missing
\* from it and nothing is in it that has gone, whatever was lost on the way.
BookIsCurrent == ~isInRecovery => book = BookAt(nextExpIncSeqNum - 1)

\* Once the losses end, so does a recovery: some cycle will do.
RecoveryEnds == isInRecovery ~> ~isInRecovery
=============================================================================
