---------------------------- MODULE LockFreeQueue ----------------------------
(***************************************************************************)
(* CLockFreeQueue<T> (common/LockFreeQueue.h) with its one writer thread   *)
(* and its one reader thread.  Every access to an atomic member and each   *)
(* end of the unprotected access to a slot of m_store is a step of its     *)
(* own; the atomics are sequentially consistent (operator overloads of     *)
(* std::atomic), so steps interleave.                                      *)
(*                                                                         *)
(* The writer never asks whether the queue is full.  What keeps it from    *)
(* running over the reader is only that the consumer keeps up:             *)
(* MaxBacklog names that assumption, and may exceed Capacity.              *)
(*                                                                         *)
(* ReleaseEarly distinguishes the two ways the queue is read.  Every       *)
(* consumer but one copies what it needs before UpdateReadIndex; the       *)
(* market data publisher calls UpdateReadIndex and then copies the same    *)
(* slot a second time for the snapshot queue.                              *)
(***************************************************************************)
EXTENDS Naturals, Sequences

CONSTANTS Capacity,      \* m_store.size()
          Values,        \* what the writer may enqueue
          Unset,         \* T(), what a slot and the reader hold at first
          Torn,          \* a half-written element, seen only by a data race
          MaxBacklog,    \* most elements the reader ever lags behind
          ReleaseEarly   \* the reader uses the slot again after releasing it

ASSUME CapacityAssumption == Capacity \in Nat \ {0}
ASSUME BacklogAssumption  == MaxBacklog \in Nat
ASSUME ReaderAssumption   == ReleaseEarly \in BOOLEAN

VARIABLES store,        \* m_store
          writeIndex,   \* m_nextWriteIndex
          readIndex,    \* m_nextReadIndex
          numElements,  \* m_numElements
          wpc,          \* where the writer is in its write
          wval,         \* the element it is writing
          rpc,          \* where the reader is in its read
          slot,         \* the pointer GetNextToRead returned
          got,          \* what the reader read through it
          again         \* what it read through it after the release

writerVars == <<wpc, wval>>
readerVars == <<rpc, slot, got, again>>
vars == <<store, writeIndex, readIndex, numElements, writerVars, readerVars>>

Slots == 0 .. Capacity - 1

\* Mutant: the index is not wrapped.
SuccUnwrapped(i) == i + 1

\* (index + 1) % m_store.size()
Succ(i) == (i + 1) % Capacity

TypeOK ==
    /\ store \in [Slots -> Values \cup {Unset}]
    /\ writeIndex \in Slots
    /\ readIndex \in Slots
    /\ numElements \in Nat
    /\ wpc \in {"idle", "filling", "filled", "indexed"}
    /\ wval \in Values \cup {Unset}
    /\ rpc \in {"idle", "claimed", "read", "advanced", "released"}
    /\ slot \in Slots
    /\ got \in Values \cup {Unset, Torn}
    /\ again \in Values \cup {Unset, Torn}

Init ==
    /\ store = [i \in Slots |-> Unset]
    /\ writeIndex = 0
    /\ readIndex = 0
    /\ numElements = 0
    /\ wpc = "idle"
    /\ wval = Unset
    /\ rpc = "idle"
    /\ slot = 0
    /\ got = Unset
    /\ again = Unset

\* The environment assumption under which the promises below hold: the reader
\* never lags by more than the ring holds, less the slot it still looks at
\* after having released it.
BacklogFits == MaxBacklog + (IF ReleaseEarly THEN 1 ELSE 0) <= Capacity

-----------------------------------------------------------------------------
(* The writer: *(q.GetNextToWriteTo()) = v; q.UpdateWriteIndex();          *)

\* GetNextToWriteTo, and the assignment through the pointer begins.  Nothing
\* in the code guards this step; MaxBacklog stands for the consumer keeping up.
GetNextToWriteTo(v) ==
    /\ wpc = "idle"
    /\ numElements < MaxBacklog
    /\ wval' = v
    /\ wpc' = "filling"
    /\ UNCHANGED <<store, writeIndex, readIndex, numElements, readerVars>>

\* Mutant: the element is assigned one slot too far.
FillSlotAhead ==
    /\ wpc = "filling"
    /\ store' = [store EXCEPT ![Succ(writeIndex)] = wval]
    /\ wpc' = "filled"
    /\ UNCHANGED <<writeIndex, readIndex, numElements, wval, readerVars>>

FillSlot ==
    /\ wpc = "filling"
    /\ store' = [store EXCEPT ![writeIndex] = wval]
    /\ wpc' = "filled"
    /\ UNCHANGED <<writeIndex, readIndex, numElements, wval, readerVars>>

\* UpdateWriteIndex: the index moves first ...
AdvanceWriteIndex ==
    /\ wpc = "filled"
    /\ writeIndex' = Succ(writeIndex)
    /\ wpc' = "indexed"
    /\ UNCHANGED <<store, readIndex, numElements, wval, readerVars>>

\* Mutant: a plain counter, whose increment is lost when the reader decrements.
CountElementLost ==
    /\ wpc = "indexed"
    /\ numElements' = numElements + (IF rpc = "advanced" THEN 0 ELSE 1)
    /\ wpc' = "idle"
    /\ UNCHANGED <<store, writeIndex, readIndex, wval, readerVars>>

\* ... then the count, which is what publishes the element to the reader.
CountElement ==
    /\ wpc = "indexed"
    /\ numElements' = numElements + 1
    /\ wpc' = "idle"
    /\ UNCHANGED <<store, writeIndex, readIndex, wval, readerVars>>

Writer == \/ \E v \in Values : GetNextToWriteTo(v)
          \/ FillSlot
          \/ AdvanceWriteIndex
          \/ CountElement

-----------------------------------------------------------------------------
(* The reader.                                                             *)

\* A read that overlaps the writer's assignment to the same slot is a data
\* race: it may return the old element, the new one or a mixture.
Readable == IF wpc = "filling" /\ slot = writeIndex
            THEN {store[slot], wval, Torn}
            ELSE {store[slot]}

\* Mutant: GetNextToRead does not look at the count.
GetNextToReadUnchecked ==
    /\ rpc = "idle"
    /\ slot' = readIndex
    /\ rpc' = "claimed"
    /\ UNCHANGED <<store, writeIndex, readIndex, numElements, writerVars,
                   got, again>>

\* GetNextToRead with a non-null result.
GetNextToRead ==
    /\ rpc = "idle"
    /\ numElements # 0
    /\ slot' = readIndex
    /\ rpc' = "claimed"
    /\ UNCHANGED <<store, writeIndex, readIndex, numElements, writerVars,
                   got, again>>

ReadElement ==
    /\ rpc = "claimed"
    /\ got' \in Readable
    /\ rpc' = "read"
    /\ UNCHANGED <<store, writeIndex, readIndex, numElements, writerVars,
                   slot, again>>

\* UpdateReadIndex: the index moves first ...
AdvanceReadIndex ==
    /\ rpc = "read"
    /\ readIndex' = Succ(readIndex)
    /\ rpc' = "advanced"
    /\ UNCHANGED <<store, writeIndex, numElements, writerVars, slot, got, again>>

\* ... and after its ASSERT (CountAssert below) the slot is given back.
ReleaseElement ==
    /\ rpc = "advanced"
    /\ numElements # 0
    /\ numElements' = numElements - 1
    /\ rpc' = IF ReleaseEarly THEN "released" ELSE "idle"
    /\ UNCHANGED <<store, writeIndex, readIndex, writerVars, slot, got, again>>

\* The publisher's second use of *market_update, after the release.
RereadElement ==
    /\ rpc = "released"
    /\ again' \in Readable
    /\ rpc' = "idle"
    /\ UNCHANGED <<store, writeIndex, readIndex, numElements, writerVars,
                   slot, got>>

Reader == \/ GetNextToRead
          \/ ReadElement
          \/ AdvanceReadIndex
          \/ ReleaseElement
          \/ RereadElement

Next == Writer \/ Reader

Spec == Init /\ [][Next]_vars

\* Both threads are pinned to a core and spin.  A writer in the middle of a
\* write finishes it; whether it starts another one is its own business.
FairSpec == /\ Spec
            /\ WF_vars(FillSlot \/ AdvanceWriteIndex \/ CountElement)
            /\ WF_vars(Reader)

-----------------------------------------------------------------------------
(* What the queue holds: the slots from Oldest on, Unread of them.         *)

Unread == numElements - (IF rpc \in {"read", "advanced"} THEN 1 ELSE 0)

Oldest == IF rpc = "read" THEN Succ(readIndex) ELSE readIndex

Contents == [i \in 1 .. Unread |-> store[(Oldest + i - 1) % Capacity]]

\* The ring, the two indices and the count together are a first-in first-out
\* queue ("accessed in FIFO order", LockFreeQueue.h:60), and a polling reader
\* gets every element.
Abstract == INSTANCE Fifo WITH queue <- Contents, last <- got,
                               Bound <- MaxBacklog, Nothing <- Unset

ImplementsFifo == Abstract!FairSpec

\* The ASSERT of UpdateReadIndex never fires, although the count is changed by
\* both threads and the index is moved before it is tested.
CountAssert == rpc = "advanced" => numElements # 0

\* The writer never fills a slot the reader may be looking at, before or after
\* the release: there is no data race on m_store.
NoDataRace ==
    wpc = "filling" /\ rpc \in {"claimed", "released"} => writeIndex # slot

\* An element is never overwritten before it has been read: the slot under the
\* writer's hand is not among the unread ones.
NoOverwrite ==
    wpc = "filling" =>
        \A i \in 1 .. Unread : (Oldest + i - 1) % Capacity # writeIndex

\* The publisher's second read of the slot it has already released gives what
\* the first read gave: the snapshot stream is fed what the incremental stream
\* was sent (MarketDataPublisher.cpp:32 and :41).
RereadStable ==
    [][RereadElement => again' = got]_vars
=============================================================================
