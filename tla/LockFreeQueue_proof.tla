------------------------- MODULE LockFreeQueue_proof -------------------------
(***************************************************************************)
(* The lock free queue is safe for every capacity and every backlog the    *)
(* ring can hold, whichever way it is read; and the file of a logger,      *)
(* which uses its queue as one writer and one reader, is what was logged,  *)
(* for every set of messages and wherever the owner is interrupted.        *)
(***************************************************************************)
EXTENDS Logger, SequenceTheorems, TLAPS

-----------------------------------------------------------------------------
(* The ring's index arithmetic.                                            *)

\* Around the ring once: what index % Capacity is for an index less than twice
\* the capacity.
LEMMA ModOnce ==
    ASSUME NEW a \in Nat, a < 2 * Capacity
    PROVE  a % Capacity = IF a < Capacity THEN a ELSE a - Capacity
<1>1. CASE a < Capacity
    BY <1>1, CapacityAssumption, SMT
<1>2. CASE a >= Capacity
    BY <1>2, CapacityAssumption, SMT
<1> QED BY <1>1, <1>2, CapacityAssumption

\* Division with remainder, and its uniqueness.
LEMMA DivMod ==
    ASSUME NEW a \in Nat
    PROVE  /\ a = Capacity * (a \div Capacity) + (a % Capacity)
           /\ a \div Capacity \in Nat
           /\ a % Capacity \in Slots
BY CapacityAssumption, SMTT(30) DEF Slots

LEMMA ModUnique ==
    ASSUME NEW q \in Nat, NEW r \in Slots
    PROVE  (Capacity * q + r) % Capacity = r
BY CapacityAssumption, SMTT(30) DEF Slots

\* Reducing an index before moving it on changes nothing.
LEMMA ModShift ==
    ASSUME NEW a \in Nat, NEW b \in Nat
    PROVE  ((a % Capacity) + b) % Capacity = (a + b) % Capacity
<1> DEFINE q == a \div Capacity
           s == (a % Capacity) + b
           p == s \div Capacity
           r == s % Capacity
<1>1. /\ a = Capacity * q + (a % Capacity)
      /\ q \in Nat /\ a % Capacity \in Nat
    BY DivMod DEF Slots
<1>2. s \in Nat
    BY <1>1
<1>3. s = Capacity * p + r /\ p \in Nat /\ r \in Slots
    BY <1>2, DivMod
<1>4. Capacity * q \in Nat /\ Capacity * p \in Nat /\ r \in Nat
    BY <1>1, <1>3, CapacityAssumption DEF Slots
<1> HIDE DEF p, q, r
<1>5. Capacity * (q + p) = Capacity * q + Capacity * p
    BY <1>1, <1>3, CapacityAssumption, SMT
<1>6. a + b = Capacity * (q + p) + r
    BY <1>1, <1>3, <1>4, <1>5
<1>7. (Capacity * (q + p) + r) % Capacity = r
    BY <1>1, <1>3, ModUnique
<1> QED BY <1>6, <1>7 DEF r

\* UpdateWriteIndex and UpdateReadIndex stay within m_store.
LEMMA SuccStep ==
    ASSUME NEW i \in Slots
    PROVE  /\ Succ(i) \in Slots
           /\ Succ(i) = IF i + 1 = Capacity THEN 0 ELSE i + 1
BY ModOnce, CapacityAssumption DEF Slots, Succ

-----------------------------------------------------------------------------
(* The inductive invariant.                                                *)

\* How many slots the write index is ahead of the read index: the counted
\* elements, one more while the writer has moved its index and not yet
\* counted, one less while the reader has moved its own and not yet released.
Distance == numElements + (IF wpc = "indexed" THEN 1 ELSE 0)
                        - (IF rpc = "advanced" THEN 1 ELSE 0)

\* The two indices are Distance slots apart around the ring.
IndicesAgree == writeIndex = (readIndex + Distance) % Capacity

\* The write in progress has its place in the backlog.
BacklogBounded ==
    numElements + (IF wpc = "idle" THEN 0 ELSE 1) <= MaxBacklog

\* Where the reader's pointer is relative to the read index.
ReaderPlaced ==
    /\ rpc \in {"claimed", "read"} => slot = readIndex
    /\ rpc \in {"advanced", "released"} => readIndex = Succ(slot)
    /\ rpc \in {"claimed", "read", "advanced"} => numElements # 0
    /\ rpc = "released" => ReleaseEarly

IInv == TypeOK /\ BacklogBounded /\ IndicesAgree /\ ReaderPlaced

\* The writer's index is always outside the unread slots while it fills, and
\* away from the slot the reader holds: a slot that is not the reader's.
LEMMA WriterElsewhere ==
    ASSUME IInv, BacklogFits, wpc = "filling"
    PROVE  /\ rpc # "idle" => writeIndex # slot
           /\ NoOverwrite
<1> USE CapacityAssumption, BacklogAssumption, ReaderAssumption
<1>1. /\ writeIndex \in Nat /\ readIndex \in Nat /\ slot \in Nat
      /\ readIndex < Capacity /\ slot < Capacity /\ writeIndex < Capacity
      /\ numElements \in Nat /\ numElements + 1 <= MaxBacklog
      /\ MaxBacklog \in Nat /\ Capacity \in Nat
    BY DEF IInv, TypeOK, BacklogBounded, Slots
<1>2. Distance = numElements - (IF rpc = "advanced" THEN 1 ELSE 0)
    BY <1>1 DEF Distance
<1>3. Distance \in Nat /\ Distance < Capacity
    BY <1>1, <1>2 DEF IInv, ReaderPlaced, BacklogFits
<1>4. writeIndex = IF readIndex + Distance < Capacity
                   THEN readIndex + Distance
                   ELSE readIndex + Distance - Capacity
    BY <1>1, <1>3, ModOnce DEF IInv, IndicesAgree
<1>5. rpc # "idle" => writeIndex # slot
    <2>1. CASE rpc \in {"claimed", "read"}
        BY <2>1, <1>1, <1>2, <1>3, <1>4 DEF IInv, ReaderPlaced
    <2>2. CASE rpc \in {"advanced", "released"}
        <3>1. readIndex = IF slot + 1 = Capacity THEN 0 ELSE slot + 1
            BY <2>2, SuccStep DEF IInv, TypeOK, ReaderPlaced
        <3>2. Distance + 1 < Capacity
            BY <2>2, <1>1, <1>2 DEF IInv, ReaderPlaced, BacklogFits
        <3> QED BY <3>1, <3>2, <1>1, <1>3, <1>4
    <2> QED BY <2>1, <2>2 DEF IInv, TypeOK
<1>6. ASSUME NEW i \in 1 .. Unread
      PROVE  (Oldest + i - 1) % Capacity # writeIndex
    <2>1. CASE rpc = "read"
        <3>1. Oldest = IF readIndex + 1 = Capacity THEN 0 ELSE readIndex + 1
            BY <2>1, SuccStep DEF Oldest, IInv, TypeOK
        <3>2. Unread = numElements - 1
            BY <2>1 DEF Unread
        <3>3. Oldest + i - 1 \in Nat /\ Oldest + i - 1 < 2 * Capacity
            BY <3>1, <3>2, <1>1 DEF BacklogFits
        <3>4. (Oldest + i - 1) % Capacity = IF Oldest + i - 1 < Capacity
                  THEN Oldest + i - 1 ELSE Oldest + i - 1 - Capacity
            <4> DEFINE a == Oldest + i - 1
            <4>1. a \in Nat /\ a < 2 * Capacity
                BY <3>3
            <4> HIDE DEF a
            <4>2. a % Capacity = IF a < Capacity THEN a ELSE a - Capacity
                BY <4>1, ModOnce
            <4>3. Capacity \in Nat \ {0} /\ Oldest \in Nat /\ i \in Nat
                BY <3>1, <1>1, CapacityAssumption
            <4> QED BY <4>2, <4>3 DEF a
        <3>5. i \in Nat /\ 1 <= i /\ i <= numElements - 1
            BY <3>2, <1>1
        <3>6. Distance = numElements /\ numElements < Capacity
            BY <2>1, <1>1, <1>2, <1>3
        <3> QED BY <3>1, <3>4, <3>5, <3>6, <1>1, <1>4
    <2>2. CASE rpc # "read"
        <3>1. Oldest = readIndex /\ Unread = Distance
            BY <2>2, <1>1, <1>2 DEF Oldest, Unread
        <3>2. i \in Nat /\ 1 <= i /\ i <= Distance
            BY <3>1, <1>3
        <3>3. (Oldest + i - 1) % Capacity = IF Oldest + i - 1 < Capacity
                  THEN Oldest + i - 1 ELSE Oldest + i - 1 - Capacity
            BY <3>1, <3>2, <1>1, <1>3, ModOnce
        <3> QED BY <3>1, <3>2, <3>3, <1>1, <1>3, <1>4
    <2> QED BY <2>1, <2>2
<1> QED BY <1>5, <1>6 DEF NoOverwrite

-----------------------------------------------------------------------------
(* IInv is inductive.                                                      *)

LEMMA InitIInv == Init => IInv
BY CapacityAssumption, BacklogAssumption, ModOnce
   DEF Init, IInv, TypeOK, Slots, BacklogBounded, IndicesAgree, Distance,
       ReaderPlaced

LEMMA WriterIInv == ASSUME IInv, Writer PROVE IInv'
<1> USE CapacityAssumption, BacklogAssumption, ReaderAssumption
        DEF IInv, TypeOK, BacklogBounded, IndicesAgree, Distance, ReaderPlaced,
            writerVars, readerVars
<1>1. ASSUME NEW v \in Values, GetNextToWriteTo(v) PROVE IInv'
    BY <1>1 DEF GetNextToWriteTo
<1>2. CASE FillSlot
    BY <1>2 DEF FillSlot
<1>3. CASE AdvanceWriteIndex
    <2>1. Distance \in Nat /\ readIndex \in Nat /\ writeIndex \in Nat
        BY <1>3 DEF AdvanceWriteIndex, Slots
    <2>2. writeIndex' = (readIndex + Distance + 1) % Capacity
        BY <2>1, <1>3, ModShift DEF AdvanceWriteIndex, Succ
    <2>3. Distance' = Distance + 1 /\ readIndex' = readIndex
        BY <1>3 DEF AdvanceWriteIndex
    <2>4. IndicesAgree'
        BY <2>1, <2>2, <2>3
    <2>5. writeIndex' \in Slots
        BY <1>3, SuccStep DEF AdvanceWriteIndex
    <2> QED BY <2>4, <2>5, <1>3 DEF AdvanceWriteIndex
<1>4. CASE CountElement
    BY <1>4 DEF CountElement
<1> QED BY <1>1, <1>2, <1>3, <1>4 DEF Writer

LEMMA ReaderIInv == ASSUME IInv, Reader PROVE IInv'
<1> USE CapacityAssumption, BacklogAssumption, ReaderAssumption
        DEF IInv, TypeOK, BacklogBounded, IndicesAgree, Distance, ReaderPlaced,
            writerVars, readerVars
<1>1. CASE GetNextToRead
    BY <1>1 DEF GetNextToRead
<1>2. CASE ReadElement
    BY <1>2 DEF ReadElement, Readable
<1>3. CASE AdvanceReadIndex
    <2>1. /\ Distance \in Nat /\ readIndex \in Nat
          /\ Distance' = Distance - 1 /\ Distance' \in Nat
        BY <1>3 DEF AdvanceReadIndex, Slots
    <2>2. \A b \in Nat : (readIndex' + b) % Capacity
                             = (readIndex + 1 + b) % Capacity
        <3>1. readIndex' = (readIndex + 1) % Capacity
            BY <1>3 DEF AdvanceReadIndex, Succ
        <3>2. readIndex + 1 \in Nat
            BY <2>1
        <3> QED BY <3>1, <3>2, ModShift
    <2>3. IndicesAgree'
        BY <2>1, <2>2, <1>3 DEF AdvanceReadIndex
    <2>4. readIndex' \in Slots
        BY <1>3, SuccStep DEF AdvanceReadIndex
    <2> QED BY <2>3, <2>4, <1>3 DEF AdvanceReadIndex
<1>4. CASE ReleaseElement
    BY <1>4 DEF ReleaseElement
<1>5. CASE RereadElement
    BY <1>5 DEF RereadElement, Readable
<1> QED BY <1>1, <1>2, <1>3, <1>4, <1>5 DEF Reader

LEMMA StepIInv == IInv /\ [Next]_vars => IInv'
<1>1. ASSUME IInv, UNCHANGED vars PROVE IInv'
    BY <1>1 DEF vars, writerVars, readerVars, IInv, TypeOK, BacklogBounded,
                IndicesAgree, Distance, ReaderPlaced
<1> QED BY <1>1, WriterIInv, ReaderIInv DEF Next

\* The indices, the count and the two threads stay in step.
THEOREM IInvHolds == Spec => []IInv
BY InitIInv, StepIInv, PTL DEF Spec

-----------------------------------------------------------------------------
(* What follows from it.                                                   *)

\* Whatever the backlog, every index stays inside m_store and the members keep
\* their types: the indices of LockFreeQueue.h never leave the vector.
THEOREM TypeCorrect == Spec => []TypeOK
<1>1. IInv => TypeOK
    BY DEF IInv
<1> QED BY <1>1, IInvHolds, PTL

\* The ASSERT in UpdateReadIndex (LockFreeQueue.h:39) never fires.
THEOREM CountAssertHolds == Spec => []CountAssert
<1>1. IInv => CountAssert
    BY DEF IInv, ReaderPlaced, CountAssert
<1> QED BY <1>1, IInvHolds, PTL

\* With a backlog the ring can hold, the writer never fills the slot the
\* reader looks at, not even the one the publisher uses after its release.
THEOREM DataRaceFree == BacklogFits => (Spec => []NoDataRace)
<1> SUFFICES ASSUME BacklogFits PROVE Spec => []NoDataRace
    OBVIOUS
<1>1. IInv => NoDataRace
    BY WriterElsewhere DEF NoDataRace
<1> QED BY <1>1, IInvHolds, PTL

\* With such a backlog no element is overwritten before it has been read.
THEOREM NothingOverwritten == BacklogFits => (Spec => []NoOverwrite)
<1> SUFFICES ASSUME BacklogFits PROVE Spec => []NoOverwrite
    OBVIOUS
<1>1. IInv => NoOverwrite
    BY WriterElsewhere DEF NoOverwrite
<1> QED BY <1>1, IInvHolds, PTL

-----------------------------------------------------------------------------
(* The ring implements the abstract queue.                                 *)

\* Where the next element goes: one past the unread ones.
Free == (Oldest + Unread) % Capacity

\* The element being written is in place before it is counted, and the element
\* the reader has read stays in its slot until the reader lets go of it.
ElementsInPlace ==
    /\ wpc # "idle" => wval \in Values
    /\ wpc = "filled" => store[writeIndex] = wval
    /\ wpc = "indexed" => store[Free] = wval
    /\ rpc \in {"read", "advanced", "released"} => got = store[slot]

DataInv == IInv /\ ElementsInPlace

\* The write index is where the next element goes, until it moves.
LEMMA WriteIndexFree ==
    ASSUME IInv, wpc # "indexed"
    PROVE  writeIndex = Free
<1>1. /\ writeIndex \in Nat /\ readIndex \in Nat /\ numElements \in Nat
      /\ writeIndex = (readIndex + Distance) % Capacity
    BY DEF IInv, TypeOK, Slots, IndicesAgree
<1>2. CASE rpc = "read"
    <2>1. numElements - 1 \in Nat
        BY <1>1, <1>2 DEF IInv, ReaderPlaced
    <2>2. (Succ(readIndex) + (numElements - 1)) % Capacity
              = (readIndex + 1 + (numElements - 1)) % Capacity
        BY <1>1, <2>1, ModShift DEF Succ
    <2> QED BY <1>1, <1>2, <2>2 DEF Free, Oldest, Unread, Distance
<1>3. CASE rpc # "read"
    BY <1>1, <1>3 DEF Free, Oldest, Unread, Distance
<1> QED BY <1>2, <1>3

\* How the reader's steps move the window of unread slots: only the read
\* itself does, by one slot at its old end, and its new end stays.
LEMMA ReaderWindow ==
    ASSUME IInv, Reader
    PROVE  /\ Free' = Free
           /\ ~ReadElement => Oldest' = Oldest /\ Unread' = Unread
           /\ ReadElement => /\ Oldest = slot /\ Oldest' = Succ(slot)
                             /\ Unread \in Nat /\ Unread # 0
                             /\ Unread' = Unread - 1
<1> USE DEF IInv, TypeOK, ReaderPlaced
<1>1. numElements \in Nat /\ readIndex \in Nat /\ slot \in Nat
    BY DEF Slots
<1>2. CASE ReadElement
    <2>1. /\ Oldest = slot /\ Oldest' = Succ(slot)
          /\ Unread = numElements /\ Unread' = numElements - 1
          /\ numElements # 0
        BY <1>2 DEF ReadElement, Oldest, Unread
    <2>2. (Succ(slot) + (numElements - 1)) % Capacity
              = (slot + 1 + (numElements - 1)) % Capacity
        BY <1>1, <2>1, ModShift DEF Succ
    <2>3. Free' = Free
        BY <1>1, <2>1, <2>2 DEF Free
    <2> QED BY <1>1, <1>2, <2>1, <2>3
<1>3. CASE ~ReadElement
    <2>1. Oldest' = Oldest /\ Unread' = Unread
        BY <1>1, <1>3 DEF Reader, GetNextToRead, AdvanceReadIndex,
           ReleaseElement, RereadElement, Oldest, Unread
    <2> QED BY <1>3, <2>1 DEF Free
<1> QED BY <1>2, <1>3

\* How the writer's steps move it: only the count does, at its new end.
LEMMA WriterWindow ==
    ASSUME IInv, Writer
    PROVE  /\ Oldest' = Oldest
           /\ ~CountElement => Unread' = Unread /\ Free' = Free
           /\ CountElement => Unread \in Nat /\ Unread' = Unread + 1
BY DEF IInv, TypeOK, ReaderPlaced, Writer, GetNextToWriteTo, FillSlot,
       AdvanceWriteIndex, CountElement, Oldest, Unread, Free, readerVars

LEMMA InitDataInv == Init => DataInv
BY InitIInv DEF Init, DataInv, ElementsInPlace

LEMMA StepDataInv == BacklogFits /\ DataInv /\ [Next]_vars => DataInv'
<1> SUFFICES ASSUME BacklogFits, DataInv, [Next]_vars
             PROVE  ElementsInPlace'
    BY StepIInv DEF DataInv
<1> USE DEF DataInv, ElementsInPlace
<1>0. IInv /\ TypeOK
    BY DEF IInv
<1>1. CASE UNCHANGED vars
    BY <1>1 DEF vars, writerVars, readerVars, Free, Oldest, Unread
<1>2. ASSUME NEW v \in Values, GetNextToWriteTo(v) PROVE ElementsInPlace'
    BY <1>2 DEF GetNextToWriteTo, readerVars
<1>3. CASE FillSlot
    <2>1. rpc # "idle" => writeIndex # slot
        BY <1>0, <1>3, WriterElsewhere DEF FillSlot
    <2>2. \A i \in Slots : i # writeIndex => store'[i] = store[i]
        BY <1>0, <1>3 DEF FillSlot, TypeOK
    <2>3. store'[writeIndex] = wval
        BY <1>0, <1>3 DEF FillSlot, TypeOK
    <2> QED BY <1>0, <1>3, <2>1, <2>2, <2>3 DEF FillSlot, TypeOK, readerVars
<1>4. CASE AdvanceWriteIndex
    <2>1. Free' = Free /\ writeIndex = Free
        BY <1>0, <1>4, WriterWindow, WriteIndexFree
        DEF Writer, AdvanceWriteIndex, CountElement
    <2> QED BY <1>4, <2>1 DEF AdvanceWriteIndex, readerVars
<1>5. CASE CountElement
    BY <1>5 DEF CountElement, readerVars
<1>6. CASE Reader
    <2>1. Free' = Free /\ UNCHANGED <<store, writeIndex, wpc, wval>>
        BY <1>0, <1>6, ReaderWindow DEF Reader, GetNextToRead, ReadElement,
           AdvanceReadIndex, ReleaseElement, RereadElement, writerVars
    <2>2. CASE ReadElement
        <3>1. wpc = "filling" => slot # writeIndex
            BY <1>0, <2>2, WriterElsewhere DEF ReadElement
        <3>2. got' = store[slot] /\ slot' = slot
            BY <2>2, <3>1 DEF ReadElement, Readable
        <3> QED BY <2>1, <3>2
    <2>3. CASE ~ReadElement
        BY <1>6, <2>1, <2>3 DEF Reader, GetNextToRead, AdvanceReadIndex,
           ReleaseElement, RereadElement
    <2> QED BY <2>2, <2>3
<1> QED BY <1>1, <1>2, <1>3, <1>4, <1>5, <1>6 DEF Next, Writer

\* What the publisher forwards to the snapshot synthesizer is what it has sent
\* on the incremental stream, although it copies the slot after releasing it
\* (MarketDataPublisher.cpp:32-41), as long as the backlog leaves one slot free.
THEOREM RereadsTheSame == BacklogFits => (Spec => RereadStable)
<1> SUFFICES ASSUME BacklogFits PROVE Spec => RereadStable
    OBVIOUS
<1>1. DataInv /\ [Next]_vars => [RereadElement => again' = got]_vars
    <2> SUFFICES ASSUME DataInv, RereadElement PROVE again' = got
        BY DEF vars
    <2>1. wpc = "filling" => slot # writeIndex
        BY WriterElsewhere DEF DataInv, RereadElement
    <2>2. again' = store[slot]
        BY <2>1 DEF RereadElement, Readable
    <2> QED BY <2>2 DEF DataInv, ElementsInPlace, RereadElement
<1>2. Spec => []DataInv
    BY InitDataInv, StepDataInv, PTL DEF Spec
<1> QED BY <1>1, <1>2, PTL DEF Spec, RereadStable

\* The element in position i of the queue.
LEMMA ContentsAt ==
    ASSUME TypeOK
    PROVE  /\ Contents = [i \in 1 .. Unread |-> store[(Oldest + i - 1) % Capacity]]
           /\ Unread \in Nat => /\ Contents \in Seq(Values \cup {Unset})
                               /\ Len(Contents) = Unread
<1>1. Oldest \in Nat
    BY SuccStep DEF Oldest, TypeOK, Slots
<1>2. \A i \in 1 .. Unread : store[(Oldest + i - 1) % Capacity]
                               \in Values \cup {Unset}
    <2> SUFFICES ASSUME NEW i \in 1 .. Unread
                 PROVE  (Oldest + i - 1) % Capacity \in Slots
        BY DEF TypeOK
    <2>1. Oldest + i - 1 \in Nat
        BY <1>1
    <2> QED BY <2>1, DivMod
<1> QED BY <1>2 DEF Contents

\* The reader's read is the abstract Take.
LEMMA ReadIsTake ==
    ASSUME BacklogFits, DataInv, ReadElement
    PROVE  Abstract!Take
<1> USE DEF DataInv, IInv
<1>1. /\ Oldest = slot /\ Oldest' = Succ(slot) /\ Oldest \in Nat
      /\ Unread \in Nat /\ Unread # 0 /\ Unread' = Unread - 1
    BY ReaderWindow DEF Reader, TypeOK, Slots
<1>2. wpc = "filling" => slot # writeIndex
    BY WriterElsewhere DEF ReadElement
<1>3. got' = store[slot] /\ store' = store
    BY <1>2 DEF ReadElement, Readable
<1>4. /\ Contents \in Seq(Values \cup {Unset})
      /\ Len(Contents) = Unread
      /\ \A i \in 1 .. Unread : Contents[i] = store[(Oldest + i - 1) % Capacity]
    BY <1>1, ContentsAt
<1>5. Contents[1] = store[slot]
    <2>1. (Oldest + 1 - 1) % Capacity = slot
        BY <1>1, ModOnce, CapacityAssumption DEF TypeOK, Slots
    <2> QED BY <1>1, <1>4, <2>1
<1>6. Contents' = [i \in 1 .. Unread - 1 |-> store[(Oldest' + i - 1) % Capacity]]
    BY <1>1, <1>3 DEF Contents
<1>7. \A i \in 1 .. Unread - 1 :
          (Oldest' + i - 1) % Capacity = (Oldest + (i + 1) - 1) % Capacity
    <2> SUFFICES ASSUME NEW i \in 1 .. Unread - 1
                 PROVE  (Oldest' + i - 1) % Capacity
                            = (Oldest + (i + 1) - 1) % Capacity
        OBVIOUS
    <2>1. i \in Nat /\ i - 1 \in Nat
        BY <1>1
    <2>2. (((Oldest + 1) % Capacity) + (i - 1)) % Capacity
              = (Oldest + 1 + (i - 1)) % Capacity
        BY <1>1, <2>1, ModShift
    <2>3. Oldest' = (Oldest + 1) % Capacity /\ Oldest' \in Nat
        BY <1>1, SuccStep DEF Succ, TypeOK, Slots
    <2> QED BY <1>1, <2>1, <2>2, <2>3
<1>8. Contents' = Tail(Contents)
    <2>1. /\ Tail(Contents) \in Seq(Values \cup {Unset})
          /\ Len(Tail(Contents)) = Unread - 1
          /\ \A i \in 1 .. Unread - 1 : Tail(Contents)[i] = Contents[i + 1]
        BY <1>1, <1>4, HeadTailProperties, EmptySeq
    <2>2. \A i \in 1 .. Unread - 1 : i + 1 \in 1 .. Unread
        BY <1>1
    <2>3. \A i \in 1 .. Unread - 1 : Contents'[i] = Tail(Contents)[i]
        BY <1>4, <1>6, <1>7, <2>1, <2>2
    <2>4. Contents' = [i \in 1 .. Unread - 1 |-> Tail(Contents)[i]]
        BY <1>6, <2>3
    <2>5. Tail(Contents) = [i \in 1 .. Unread - 1 |-> Tail(Contents)[i]]
        BY <2>1, LenProperties
    <2> QED BY <2>4, <2>5
<1>9. Contents # <<>> /\ Head(Contents) = Contents[1]
    BY <1>1, <1>4
<1> QED BY <1>3, <1>5, <1>8, <1>9 DEF Abstract!Take

\* The writer's count is the abstract Put.
LEMMA CountIsPut ==
    ASSUME BacklogFits, DataInv, CountElement
    PROVE  wval \in Values /\ Abstract!Put(wval)
<1> USE DEF DataInv, IInv
<1>1. /\ Oldest' = Oldest /\ Oldest \in Nat
      /\ Unread \in Nat /\ Unread' = Unread + 1
    <2>1. Oldest \in Nat
        BY SuccStep DEF Oldest, TypeOK, Slots
    <2> QED BY <2>1, WriterWindow DEF Writer
<1>2. wval \in Values /\ store[Free] = wval /\ store' = store /\ got' = got
    BY DEF ElementsInPlace, CountElement, readerVars
<1>3. /\ Contents \in Seq(Values \cup {Unset})
      /\ Len(Contents) = Unread
      /\ \A i \in 1 .. Unread : Contents[i] = store[(Oldest + i - 1) % Capacity]
    BY <1>1, ContentsAt
<1>4. Contents' = [i \in 1 .. Unread + 1 |-> store[(Oldest + i - 1) % Capacity]]
    BY <1>1, <1>2 DEF Contents
<1>5. Free = (Oldest + (Unread + 1) - 1) % Capacity
    BY <1>1 DEF Free
<1>6. Contents' = Append(Contents, wval)
    <2> DEFINE A == Append(Contents, wval)
    <2>1. /\ A \in Seq(Values \cup {Unset})
          /\ Len(A) = Unread + 1
          /\ \A i \in 1 .. Unread : A[i] = Contents[i]
          /\ A[Unread + 1] = wval
        BY <1>2, <1>3, AppendProperties
    <2>2. \A i \in 1 .. Unread + 1 : i # Unread + 1 => i \in 1 .. Unread
        BY <1>1
    <2>3. \A i \in 1 .. Unread + 1 : A[i] = store[(Oldest + i - 1) % Capacity]
        BY <1>2, <1>3, <1>5, <2>1, <2>2
    <2>4. A = [i \in 1 .. Unread + 1 |-> A[i]]
        BY <2>1, LenProperties
    <2> QED BY <1>4, <2>3, <2>4
<1>7. Len(Contents) < MaxBacklog
    BY <1>3, BacklogAssumption DEF CountElement, BacklogBounded, TypeOK, Unread
<1> QED BY <1>2, <1>6, <1>7 DEF Abstract!Put

\* Every other step leaves the abstract queue alone.
LEMMA OthersStutter ==
    ASSUME BacklogFits, DataInv, [Next]_vars, ~ReadElement, ~CountElement
    PROVE  UNCHANGED Abstract!vars
<1> USE DEF DataInv, IInv
<1> SUFFICES Contents' = Contents /\ got' = got
    BY DEF Abstract!vars
<1>1. CASE UNCHANGED vars
    BY <1>1 DEF vars, writerVars, readerVars, Contents, Oldest, Unread
<1>2. CASE FillSlot
    <2>1. Oldest' = Oldest /\ Unread' = Unread
        BY <1>2, WriterWindow DEF Writer
    <2>2. \A i \in 1 .. Unread : store'[(Oldest + i - 1) % Capacity]
                                   = store[(Oldest + i - 1) % Capacity]
        <3>1. NoOverwrite
            BY <1>2, WriterElsewhere DEF FillSlot
        <3>2. \A k : k # writeIndex => store'[k] = store[k]
            BY <1>2 DEF FillSlot, TypeOK
        <3> QED BY <1>2, <3>1, <3>2 DEF NoOverwrite, FillSlot
    <2> QED BY <1>2, <2>1, <2>2 DEF FillSlot, readerVars, Contents
<1>3. CASE Writer /\ ~FillSlot
    <2>1. /\ Oldest' = Oldest /\ Unread' = Unread
          /\ store' = store /\ got' = got
        BY <1>3, WriterWindow DEF Writer, GetNextToWriteTo, AdvanceWriteIndex,
           readerVars
    <2> QED BY <2>1 DEF Contents
<1>4. CASE Reader
    <2>1. /\ Oldest' = Oldest /\ Unread' = Unread
          /\ store' = store /\ got' = got
        BY <1>4, ReaderWindow DEF Reader, GetNextToRead, AdvanceReadIndex,
           ReleaseElement, RereadElement
    <2> QED BY <2>1 DEF Contents
<1> QED BY <1>1, <1>2, <1>3, <1>4 DEF Next

\* The ring, its two indices and its count implement the first-in first-out
\* queue of module Fifo: nothing is lost, repeated, reordered or made up.
THEOREM RingIsFifo == BacklogFits => (Spec => Abstract!Spec)
<1> SUFFICES ASSUME BacklogFits PROVE Spec => Abstract!Spec
    OBVIOUS
<1>1. Init => Abstract!Init
    BY DEF Init, Abstract!Init, Contents, Unread
<1>2. DataInv /\ [Next]_vars => [Abstract!Next]_(Abstract!vars)
    BY ReadIsTake, CountIsPut, OthersStutter DEF Abstract!Next
<1>3. Spec => []DataInv
    BY InitDataInv, StepDataInv, PTL DEF Spec
<1> QED BY <1>1, <1>2, <1>3, PTL DEF Spec, Abstract!Spec

-----------------------------------------------------------------------------
(* The logger.  Sequences first.                                           *)

\* An element that moves from the head of one sequence to the end of another.
LEMMA HeadMoves ==
    ASSUME NEW S, NEW f \in Seq(S), NEW q \in Seq(S), q # <<>>
    PROVE  /\ Append(f, Head(q)) \in Seq(S)
           /\ Append(f, Head(q)) \o Tail(q) = f \o q
<1> DEFINE g == Append(f, Head(q))
<1>1. /\ Len(f) \in Nat /\ Len(q) \in Nat \ {0}
      /\ Head(q) \in S /\ Head(q) = q[1]
      /\ Tail(q) \in Seq(S) /\ Len(Tail(q)) = Len(q) - 1
      /\ \A i \in 1 .. Len(q) - 1 : Tail(q)[i] = q[i + 1]
    BY LenProperties, EmptySeq, HeadTailProperties
<1>2. /\ g \in Seq(S) /\ Len(g) = Len(f) + 1
      /\ \A i \in 1 .. Len(f) : g[i] = f[i]
      /\ g[Len(f) + 1] = q[1]
    BY <1>1, AppendProperties
<1> HIDE DEF g
<1>3. /\ g \o Tail(q) \in Seq(S) /\ Len(g \o Tail(q)) = Len(f) + Len(q)
      /\ \A i \in 1 .. Len(f) + Len(q) :
             (g \o Tail(q))[i] = IF i <= Len(f) + 1 THEN g[i]
                                 ELSE Tail(q)[i - (Len(f) + 1)]
    <2>1. Len(g) + Len(Tail(q)) = Len(f) + Len(q)
        BY <1>1, <1>2
    <2>2. /\ g \o Tail(q) \in Seq(S)
          /\ Len(g \o Tail(q)) = Len(g) + Len(Tail(q))
          /\ \A i \in 1 .. Len(g) + Len(Tail(q)) :
                 (g \o Tail(q))[i] = IF i <= Len(g) THEN g[i] ELSE Tail(q)[i - Len(g)]
        BY <1>1, <1>2, ConcatProperties
    <2> QED BY <1>2, <2>1, <2>2
<1>4. /\ f \o q \in Seq(S) /\ Len(f \o q) = Len(f) + Len(q)
      /\ \A i \in 1 .. Len(f) + Len(q) :
             (f \o q)[i] = IF i <= Len(f) THEN f[i] ELSE q[i - Len(f)]
    BY ConcatProperties
<1>5. ASSUME NEW i \in 1 .. Len(f) + Len(q)
      PROVE  (g \o Tail(q))[i] = (f \o q)[i]
    <2>1. CASE i <= Len(f)
        BY <1>1, <1>2, <1>3, <1>4, <2>1
    <2>2. CASE i = Len(f) + 1
        BY <1>1, <1>2, <1>3, <1>4, <2>2
    <2>3. CASE i > Len(f) + 1
        <3>1. i - (Len(f) + 1) \in 1 .. Len(q) - 1
            BY <1>1, <2>3
        <3>2. (i - (Len(f) + 1)) + 1 = i - Len(f)
            BY <1>1
        <3> QED BY <1>1, <1>3, <1>4, <2>3, <3>1, <3>2
    <2>4. i <= Len(f) \/ i = Len(f) + 1 \/ i > Len(f) + 1
        BY <1>1
    <2> QED BY <2>1, <2>2, <2>3, <2>4
<1> QED BY <1>2, <1>3, <1>4, <1>5, SeqEqual DEF g

\* An element that is put at the end of the second sequence.
LEMMA EndGrows ==
    ASSUME NEW S, NEW f \in Seq(S), NEW q \in Seq(S), NEW e \in S
    PROVE  f \o Append(q, e) = Append(f \o q, e)
<1>1. <<e>> \in Seq(S) /\ f \o q \in Seq(S)
    BY ConcatProperties
<1>2. Append(q, e) = q \o <<e>> /\ Append(f \o q, e) = (f \o q) \o <<e>>
    BY <1>1, AppendIsConcat
<1> QED BY <1>1, <1>2, ConcatAssociative

\* What comes first in a sequence.
LEMMA Prefix ==
    ASSUME NEW S, NEW f \in Seq(S), NEW q \in Seq(S)
    PROVE  /\ Len(f) <= Len(f \o q)
           /\ f = SubSeq(f \o q, 1, Len(f))
<1>1. Len(f) \in Nat /\ Len(q) \in Nat
    BY LenProperties
<1>2. /\ f \o q \in Seq(S)
      /\ Len(f \o q) = Len(f) + Len(q)
      /\ \A i \in 1 .. Len(f) : (f \o q)[i] = f[i]
    BY <1>1, ConcatProperties
<1>3. \A i \in 1 .. Len(f) : (f \o q)[i] \in S
    BY <1>2, ElementOfSeq
<1>4. /\ SubSeq(f \o q, 1, Len(f)) \in Seq(S)
      /\ Len(SubSeq(f \o q, 1, Len(f))) = Len(f)
      /\ \A i \in 1 .. Len(f) : SubSeq(f \o q, 1, Len(f))[i] = (f \o q)[i]
    <2>1. Len(SubSeq(f \o q, 1, Len(f))) = IF 1 <= Len(f) THEN Len(f) - 1 + 1 ELSE 0
        BY <1>1, <1>3, SubSeqProperties
    <2>2. \A i \in 1 .. Len(f) - 1 + 1 : SubSeq(f \o q, 1, Len(f))[i] = (f \o q)[1 + i - 1]
        BY <1>1, <1>3, SubSeqProperties
    <2>3. SubSeq(f \o q, 1, Len(f)) \in Seq(S)
        BY <1>1, <1>3, SubSeqProperties
    <2> QED BY <1>1, <2>1, <2>2, <2>3
<1> QED BY <1>1, <1>2, <1>4, SeqEqual

-----------------------------------------------------------------------------
(* The logger's steps are its queue's.                                     *)

\* What is still to be pushed are elements.
LeftOK == left \in Seq(Values)

\* A step of the logger takes an element from the queue and writes it to the file,
\* puts in one that counts as logged, or does neither.
LEMMA LoggerSteps ==
    ASSUME LeftOK, [LoggerNext]_loggerVars
    PROVE  /\ LeftOK'
           /\ [Next]_vars
           /\ \/ ReadElement /\ file' = Append(file, got') /\ UNCHANGED logged
              \/ CountElement /\ logged' = Append(logged, wval) /\ UNCHANGED file
              \/ ~ReadElement /\ ~CountElement /\ UNCHANGED <<file, logged>>
<1> USE DEF LeftOK
<1>1. CASE UNCHANGED vars /\ UNCHANGED <<left, file, logged>>
    BY <1>1 DEF vars, writerVars, readerVars, ReadElement, CountElement
<1>2. ASSUME NEW message \in Messages, Log(message)
      PROVE  /\ LeftOK' /\ UNCHANGED vars /\ UNCHANGED <<file, logged>>
             /\ ~ReadElement /\ ~CountElement
    BY <1>2, MessagesAssumption
    DEF Log, flusherVars, vars, writerVars, readerVars, ReadElement, CountElement
<1>3. CASE PushValue
    <2>1. Head(left) \in Values /\ Tail(left) \in Seq(Values)
        BY <1>3, HeadTailProperties DEF PushValue
    <2>2. Writer /\ ~ReadElement /\ ~CountElement
        BY <1>3, <2>1 DEF PushValue, Writer, GetNextToWriteTo, readerVars, ReadElement,
                          CountElement
    <2> QED BY <1>3, <2>1, <2>2 DEF PushValue, flusherVars, Next
<1>4. CASE FinishPush
    <2>1. Writer /\ ~ReadElement /\ left' = left /\ file' = file
        BY <1>4 DEF FinishPush, Writer, FillSlot, AdvanceWriteIndex, CountElement,
                    readerVars, ReadElement, flusherVars
    <2>2. \/ CountElement /\ logged' = Append(logged, wval)
          \/ ~CountElement /\ logged' = logged
        BY <1>4 DEF FinishPush, FillSlot, AdvanceWriteIndex, CountElement
    <2> QED BY <2>1, <2>2 DEF Next
<1>5. CASE Flush
    <2>1. Reader /\ ~CountElement /\ left' = left /\ logged' = logged
        BY <1>5 DEF Flush, Reader, GetNextToRead, ReadElement, AdvanceReadIndex,
                    ReleaseElement, writerVars, CountElement, ownerVars
    <2>2. \/ ReadElement /\ file' = Append(file, got')
          \/ ~ReadElement /\ file' = file
        BY <1>5 DEF Flush, GetNextToRead, ReadElement, AdvanceReadIndex, ReleaseElement
    <2> QED BY <2>1, <2>2 DEF Next
<1>6. CASE Close \/ AwaitEmptyQueue \/ Join \/ TestRunning \/ Sleep \/ UNCHANGED loggerVars
    <2>1. UNCHANGED vars /\ UNCHANGED <<left, file, logged>>
        BY <1>6 DEF Close, AwaitEmptyQueue, Join, TestRunning, Sleep, loggerVars, ownerVars,
                    flusherVars
    <2> QED BY <1>1, <2>1
<1> QED BY <1>2, <1>3, <1>4, <1>5, <1>6
        DEF LoggerNext, Owner, Destructor, FlushQueue

\* The logger uses its queue as a queue is to be used, by one writer and one reader:
\* the theorems about the queue hold of the logger's.
THEOREM UsesItsQueue == LoggerSpec => Spec
<1>1. LoggerInit => Init /\ LeftOK
    BY EmptySeq DEF LoggerInit, LeftOK
<1>2. LeftOK /\ [LoggerNext]_loggerVars => LeftOK' /\ [Next]_vars
    BY LoggerSteps
<1> QED BY <1>1, <1>2, PTL DEF LoggerSpec, Spec

-----------------------------------------------------------------------------
(* The file.                                                               *)

\* What was logged is in the file or still in the queue, in this order, and the
\* destructor does not stop the thread before the queue is empty.
LoggerInv ==
    /\ DataInv
    /\ LeftOK
    /\ file \in Seq(Values \cup {Unset})
    /\ logged = file \o Contents
    /\ closing \in {"joining", "done"} => numElements = 0

\* Contents is a sequence, and empty when the count is 0.
LEMMA ContentsKnown ==
    ASSUME IInv
    PROVE  /\ Contents \in Seq(Values \cup {Unset})
           /\ numElements = 0 => Contents = <<>>
<1>1. Unread \in Nat /\ (numElements = 0 => Unread = 0)
    BY DEF IInv, TypeOK, ReaderPlaced, Unread
<1>2. Contents \in Seq(Values \cup {Unset}) /\ Len(Contents) = Unread
    BY <1>1, ContentsAt DEF IInv
<1>3. Unread = 0 => Contents = <<>>
    BY <1>2, EmptySeq
<1> QED BY <1>1, <1>2, <1>3

\* Once the destructor has seen the queue empty, it stays so.
LEMMA StaysEmpty ==
    ASSUME LoggerInv, [LoggerNext]_loggerVars
    PROVE  closing' \in {"joining", "done"} => numElements' = 0
<1>1. CASE UNCHANGED <<closing, numElements>>
    BY <1>1 DEF LoggerInv
<1>2. CASE closing' = "no"
    BY <1>2
<1>3. CASE Flush
    BY <1>3 DEF LoggerInv, Flush, GetNextToRead, ReadElement, AdvanceReadIndex,
                ReleaseElement, ownerVars
<1>4. CASE Close \/ AwaitEmptyQueue \/ Join
    BY <1>4 DEF LoggerInv, Close, AwaitEmptyQueue, Join, vars
<1>5. CASE TestRunning \/ Sleep \/ UNCHANGED loggerVars
    BY <1>1, <1>5 DEF TestRunning, Sleep, loggerVars, ownerVars, vars
<1>6. CASE (\E message \in Messages : Log(message)) \/ PushValue \/ FinishPush
    BY <1>2, <1>6 DEF Log, PushValue, FinishPush
<1> QED BY <1>3, <1>4, <1>5, <1>6 DEF LoggerNext, Owner, Destructor, FlushQueue

\* The invariant holds at first.
LEMMA InitLoggerInv == LoggerInit => LoggerInv
<1> SUFFICES ASSUME LoggerInit PROVE LoggerInv
    OBVIOUS
<1>1. Init /\ DataInv
    BY InitDataInv DEF LoggerInit
<1>2. Contents = <<>>
    BY <1>1, ContentsKnown DEF Init, DataInv
<1>3. <<>> \in Seq(Values \cup {Unset}) /\ <<>> \in Seq(Values)
    BY EmptySeq
<1>4. file \o Contents = <<>>
    BY <1>2, <1>3, ConcatEmptySeq DEF LoggerInit
<1> QED BY <1>1, <1>3, <1>4 DEF LoggerInit, LoggerInv, LeftOK

\* Every step of the logger keeps the invariant, if its queue does not overflow.
LEMMA StepLoggerInv ==
    ASSUME BacklogFits, LoggerInv, [LoggerNext]_loggerVars
    PROVE  LoggerInv'
<1> DEFINE S == Values \cup {Unset}
<1>1. /\ LeftOK' /\ [Next]_vars
      /\ \/ ReadElement /\ file' = Append(file, got') /\ UNCHANGED logged
         \/ CountElement /\ logged' = Append(logged, wval) /\ UNCHANGED file
         \/ ~ReadElement /\ ~CountElement /\ UNCHANGED <<file, logged>>
    BY LoggerSteps DEF LoggerInv
<1>2. DataInv'
    BY <1>1, StepDataInv DEF LoggerInv
<1>3. Contents \in Seq(S) /\ file \in Seq(S) /\ logged = file \o Contents
    BY ContentsKnown DEF LoggerInv, DataInv
<1>4. file' \in Seq(S) /\ logged' = file' \o Contents'
    <2>1. CASE ReadElement /\ file' = Append(file, got') /\ UNCHANGED logged
        <3>1. Contents # <<>> /\ got' = Head(Contents) /\ Contents' = Tail(Contents)
            BY <2>1, ReadIsTake DEF LoggerInv, Abstract!Take
        <3> QED BY <1>3, <2>1, <3>1, HeadMoves
    <2>2. CASE CountElement /\ logged' = Append(logged, wval) /\ UNCHANGED file
        <3>1. wval \in S /\ Contents' = Append(Contents, wval)
            BY <2>2, CountIsPut DEF LoggerInv, Abstract!Put
        <3>2. file \o Append(Contents, wval) = Append(file \o Contents, wval)
            BY <1>3, <3>1, EndGrows
        <3> QED BY <1>3, <2>2, <3>1, <3>2
    <2>3. CASE ~ReadElement /\ ~CountElement /\ UNCHANGED <<file, logged>>
        <3>1. Contents' = Contents
            BY <1>1, <2>3, OthersStutter DEF LoggerInv, Abstract!vars
        <3> QED BY <1>3, <2>3, <3>1
    <2> QED BY <1>1, <2>1, <2>2, <2>3
<1> QED BY <1>1, <1>2, <1>4, StaysEmpty DEF LoggerInv

\* The file has what was logged, in order, and all of it when it is closed: wherever
\* the owner was interrupted, and although the size the destructor waits for is
\* changed by both threads.
THEOREM FileHasTheLog == BacklogFits => (LoggerSpec => []FileIsLog)
<1> SUFFICES ASSUME BacklogFits PROVE LoggerSpec => []FileIsLog
    OBVIOUS
<1>1. LoggerInv /\ [LoggerNext]_loggerVars => LoggerInv'
    BY StepLoggerInv
<1>2. LoggerInv => FileIsLog
    <2> SUFFICES ASSUME LoggerInv PROVE FileIsLog
        OBVIOUS
    <2>1. Contents \in Seq(Values \cup {Unset}) /\ file \in Seq(Values \cup {Unset})
        BY ContentsKnown DEF LoggerInv, DataInv
    <2>2. Len(file) <= Len(logged) /\ file = SubSeq(logged, 1, Len(file))
        BY <2>1, Prefix DEF LoggerInv
    <2>3. closing = "done" => file = logged
        BY <2>1, ContentsKnown, ConcatEmptySeq DEF LoggerInv, DataInv
    <2> QED BY <2>2, <2>3 DEF FileIsLog
<1> QED BY <1>1, <1>2, InitLoggerInv, PTL DEF LoggerSpec
=============================================================================
