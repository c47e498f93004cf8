----------------------- MODULE MarketDataConsumer_proof -----------------------
(***************************************************************************)
(* The market data consumer has the right book whenever it takes itself to *)
(* be in step, for a stream of any length, any losses on it and any        *)
(* reordering, unless the first datagram of a snapshot cycle is lost while *)
(* messages of an earlier one are still queued.                            *)
(***************************************************************************)
EXTENDS MarketDataConsumer, SequenceTheorems, FiniteSetTheorems,
        WellFoundedInduction, TLAPS

-----------------------------------------------------------------------------
(* The inductive invariant.                                                *)

\* What is queued of the snapshots is never empty in the middle of a function's
\* domain: it is nothing, or the numbers from 0 to some j, and the orders in it
\* are orders.
QueueShape ==
    \/ snapshotQueued = <<>>
    \/ /\ \E j \in 0 .. MaxUpdates + 2 : DOMAIN snapshotQueued = 0 .. j
       /\ \A k \in DOMAIN snapshotQueued :
              snapshotQueued[k].type = "ADD" => snapshotQueued[k].order \in Numbers

\* The synthesizer does not run ahead of the stream.
CycleBehind == cycle.last <= Len(stream)

TypeInv == TypeOK /\ QueueShape /\ CycleBehind

\* An update that adds is named by its number, and one that takes away comes
\* after the one that added.
StreamOrdered ==
    \A n \in DOMAIN stream :
        /\ stream[n].type = "ADD" => stream[n].order = n
        /\ stream[n].type = "CANCEL" => stream[n].order < n

\* q holds the messages 0 to j of the cycle that was taken at number n.
PartOf(q, n, j) ==
    /\ DOMAIN q = 0 .. j
    /\ j <= EndSeq(BookAt(n))
    /\ \A k \in 0 .. j : q[k] = SnapshotMessage(n, BookAt(n), k)

\* The messages queued are the beginning of one cycle, and its END is not among
\* them.  They are of the cycle being sent, and then the next one is the next to
\* come or one was lost; or of an earlier one, and then the cycle being sent has
\* sent nothing yet.
Unmixed ==
    \/ snapshotQueued = <<>>
    \/ \E n \in 0 .. MaxUpdates, j \in 0 .. MaxUpdates + 2 :
           /\ n <= cycle.last
           /\ PartOf(snapshotQueued, n, j)
           /\ j < EndSeq(BookAt(n))
           /\ \/ /\ n = cycle.last /\ j < cycle.sent
                 /\ cycle.sent = j + 1 \/ snapshotLosses > 0
              \/ cycle.sent = 0 /\ snapshotLosses > 0

\* No snapshot message is kept outside a recovery, and no number is expected
\* beyond the next one of the stream.
Consumes ==
    /\ ~isInRecovery => snapshotQueued = <<>>
    /\ nextExpIncSeqNum <= Len(stream) + 1

IInv == TypeInv /\ StreamOrdered /\ Unmixed /\ Consumes /\ BookIsCurrent

\* The loss that mixes two cycles: the datagram with START is lost, and messages
\* of an earlier cycle are still queued.
LosesStart == LoseSnapshot /\ cycle.sent = 0 /\ snapshotQueued # <<>>

-----------------------------------------------------------------------------
(* Numbers, books and messages.                                            *)

\* A set of numbers that is not empty has a least one.
LEMMA LeastNumber ==
    ASSUME NEW T \in SUBSET Nat, T # {}
    PROVE  \E x \in T : \A y \in T : x <= y
<1> DEFINE R == {s \in Nat \X Nat : s[1] < s[2]}
<1>0. IsWellFoundedOn(R, Nat)
    BY NatLessThanWellFounded DEF OpToRel
<1> HIDE DEF R
<1>1. PICK x \in T : \A y \in T : ~(<<y, x>> \in R)
    BY <1>0, WFMin
<1>2. ASSUME NEW y \in T PROVE x <= y
    <2>1. y \in Nat /\ x \in Nat
        OBVIOUS
    <2>2. ~(y < x)
        BY <1>1, <2>1 DEF R
    <2> QED BY <2>1, <2>2
<1> QED BY <1>2

\* A book after n updates names at most n orders.
LEMMA BookBounds ==
    ASSUME NEW n \in Nat
    PROVE  /\ BookAt(n) \subseteq 1 .. n
           /\ BookAt(n) \in SUBSET Nat
           /\ IsFiniteSet(BookAt(n))
           /\ Cardinality(BookAt(n)) \in Nat
           /\ Cardinality(BookAt(n)) <= n
<1>1. BookAt(n) \in SUBSET (1 .. n)
    BY DEF BookAt
<1>2. 1 \in Int /\ n \in Int
    OBVIOUS
<1>3. IsFiniteSet(1 .. n) /\ Cardinality(1 .. n) = n
    BY <1>2, FS_Interval
<1>4. IsFiniteSet(BookAt(n)) /\ Cardinality(BookAt(n)) <= n
    BY <1>1, <1>3, FS_Subset
<1>5. Cardinality(BookAt(n)) \in Nat
    BY <1>4, FS_CardinalityType
<1> QED BY <1>1, <1>4, <1>5

\* How many of B are not above m.
Rank(B, m) == Cardinality({x \in B : x <= m})

\* No two members of a finite set of numbers have the same rank ...
LEMMA RankInjective ==
    ASSUME NEW B \in SUBSET Nat, IsFiniteSet(B), NEW m \in B, NEW p \in B,
           Rank(B, m) = Rank(B, p)
    PROVE  m = p
<1>1. ASSUME NEW a \in B, NEW b \in B, a < b, Rank(B, a) = Rank(B, b)
      PROVE  FALSE
    <2>1. /\ {x \in B : x <= a} \in SUBSET {x \in B : x <= b}
          /\ b \in {x \in B : x <= b} /\ b \notin {x \in B : x <= a}
        <3>1. a \in Nat /\ b \in Nat /\ \A x \in B : x \in Nat
            OBVIOUS
        <3>2. \A x \in B : x <= a => x <= b
            BY <1>1, <3>1
        <3>3. b <= b /\ ~(b <= a)
            BY <1>1, <3>1
        <3> QED BY <3>2, <3>3
    <2>2. {x \in B : x <= b} \in SUBSET B
        OBVIOUS
    <2>3. IsFiniteSet({x \in B : x <= b})
        BY <2>2, FS_Subset
    <2>4. {x \in B : x <= b} = {x \in B : x <= a}
        BY <1>1, <2>1, <2>3, FS_Subset DEF Rank
    <2> QED BY <2>1, <2>4
<1>2. m \in Nat /\ p \in Nat
    OBVIOUS
<1>3. ~(m < p) /\ ~(p < m)
    BY <1>1
<1> QED BY <1>2, <1>3

\* ... and the ranks are the numbers from 1 to the set's size ...
LEMMA RankBounds ==
    ASSUME NEW B \in SUBSET Nat, IsFiniteSet(B), NEW m \in B
    PROVE  Rank(B, m) \in 1 .. Cardinality(B)
<1> DEFINE R == {x \in B : x <= m}
<1>1. R \in SUBSET B /\ m \in R
    <2>1. m \in Nat
        OBVIOUS
    <2> QED BY <2>1
<1> HIDE DEF R
<1>2. IsFiniteSet(R) /\ Cardinality(R) <= Cardinality(B)
    BY <1>1, FS_Subset
<1>3. Cardinality(R) \in Nat /\ Cardinality(B) \in Nat /\ Cardinality(R) # 0
    BY <1>1, <1>2, FS_CardinalityType, FS_EmptySet
<1>4. Cardinality(R) \in 1 .. Cardinality(B)
    BY <1>2, <1>3
<1> QED BY <1>4 DEF Rank, R

\* ... so that there is a k-th order for every such k, and every order is one.
LEMMA KthExists ==
    ASSUME NEW B \in SUBSET Nat, IsFiniteSet(B), NEW k \in 1 .. Cardinality(B)
    PROVE  KthOrder(B, k) \in B /\ Rank(B, KthOrder(B, k)) = k
<1> DEFINE S == 1 .. Cardinality(B)
           r == [m \in B |-> Rank(B, m)]
<1>1. Cardinality(B) \in Nat
    BY FS_CardinalityType
<1>2. IsFiniteSet(S) /\ Cardinality(S) = Cardinality(B)
    <2>1. 1 \in Int /\ Cardinality(B) \in Int
        BY <1>1
    <2> QED BY <1>1, <2>1, FS_Interval
<1>3. r \in [B -> S]
    BY RankBounds
<1>4. \A m, p \in B : r[m] = r[p] => m = p
    BY RankInjective
<1> HIDE DEF r, S
<1>5. r \in Injection(B, S)
    BY <1>3, <1>4 DEF Injection, IsInjective
<1>6. r \in Surjection(B, S)
    BY <1>2, <1>5, FS_Injection
<1>7. PICK m \in B : r[m] = k
    BY <1>6 DEF Surjection, S
<1>8. m \in B /\ Cardinality({x \in B : x <= m}) = k
    BY <1>7 DEF r, Rank
<1> QED BY <1>8 DEF KthOrder, Rank

LEMMA EveryOrderIsKth ==
    ASSUME NEW B \in SUBSET Nat, IsFiniteSet(B), NEW m \in B
    PROVE  Rank(B, m) \in 1 .. Cardinality(B) /\ KthOrder(B, Rank(B, m)) = m
<1>1. Rank(B, m) \in 1 .. Cardinality(B)
    BY RankBounds
<1>2. /\ KthOrder(B, Rank(B, m)) \in B
      /\ Rank(B, KthOrder(B, Rank(B, m))) = Rank(B, m)
    BY <1>1, KthExists
<1> DEFINE p == KthOrder(B, Rank(B, m))
<1> HIDE DEF p
<1>3. p \in B /\ Rank(B, p) = Rank(B, m)
    BY <1>2 DEF p
<1>4. p = m
    BY <1>3, RankInjective
<1> QED BY <1>1, <1>4 DEF p

\* What message k of a cycle is.
LEMMA MessageIs ==
    ASSUME NEW n, NEW B, Cardinality(B) \in Nat, NEW k \in Nat, k <= EndSeq(B)
    PROVE  LET m == SnapshotMessage(n, B, k)
           IN  /\ k = 0 => m = [type |-> "SNAPSHOT_START", order |-> n]
               /\ k = 1 => m = [type |-> "CLEAR", order |-> 0]
               /\ k \in Orders(B) =>
                      m = [type |-> "ADD", order |-> KthOrder(B, k - 1)]
               /\ k = EndSeq(B) => m = [type |-> "SNAPSHOT_END", order |-> n]
               /\ k = 0 \/ k = 1 \/ k \in Orders(B) \/ k = EndSeq(B)
<1>1. /\ k = 0 => k # 1 /\ k \notin Orders(B) /\ k # EndSeq(B)
      /\ k = 1 => k \notin Orders(B) /\ k # EndSeq(B)
      /\ k \in Orders(B) => k # EndSeq(B)
      /\ k = 0 \/ k = 1 \/ k \in Orders(B) \/ k = EndSeq(B)
    BY DEF Orders, EndSeq
<1> QED BY <1>1 DEF SnapshotMessage

LEMMA MessageKinds ==
    ASSUME NEW n, NEW B, Cardinality(B) \in Nat, NEW k \in Nat, k <= EndSeq(B)
    PROVE  LET m == SnapshotMessage(n, B, k)
           IN  /\ m.type = "ADD" <=> k \in Orders(B)
               /\ m.type = "SNAPSHOT_END" <=> k = EndSeq(B)
<1>1. k \in Orders(B) => k # EndSeq(B)
    BY DEF Orders, EndSeq
<1> QED BY <1>1, MessageIs

\* A message of a cycle is a message, and the orders it adds are orders.
LEMMA MessageType ==
    ASSUME NEW n \in 0 .. MaxUpdates, NEW k \in Nat, k <= EndSeq(BookAt(n))
    PROVE  /\ SnapshotMessage(n, BookAt(n), k) \in Message
           /\ SnapshotMessage(n, BookAt(n), k).type = "ADD" =>
                  SnapshotMessage(n, BookAt(n), k).order \in Numbers
<1> DEFINE B == BookAt(n)
           m == SnapshotMessage(n, B, k)
<1>1. MaxUpdates \in Nat /\ n \in Nat /\ n <= MaxUpdates
    BY BoundsAssumption
<1>2. /\ B \subseteq Numbers /\ B \in SUBSET Nat /\ IsFiniteSet(B)
      /\ Cardinality(B) \in Nat
    BY <1>1, BookBounds DEF Numbers
<1>3. ASSUME k \in Orders(B) PROVE KthOrder(B, k - 1) \in Numbers
    <2>1. k - 1 \in 1 .. Cardinality(B)
        BY <1>2, <1>3 DEF Orders
    <2> QED BY <1>2, <2>1, KthExists
<1>4. k <= EndSeq(B)
    OBVIOUS
<1> HIDE DEF B
<1>5. /\ k = 0 => m = [type |-> "SNAPSHOT_START", order |-> n]
      /\ k = 1 => m = [type |-> "CLEAR", order |-> 0]
      /\ k \in Orders(B) => m = [type |-> "ADD", order |-> KthOrder(B, k - 1)]
      /\ k = EndSeq(B) => m = [type |-> "SNAPSHOT_END", order |-> n]
      /\ k = 0 \/ k = 1 \/ k \in Orders(B) \/ k = EndSeq(B)
    BY <1>2, <1>4, MessageIs
<1>6. Numbers \subseteq 0 .. MaxUpdates /\ 0 \in 0 .. MaxUpdates
    BY <1>1 DEF Numbers
<1> HIDE DEF m
<1>7. m \in Message /\ (m.type = "ADD" => m.order \in Numbers)
    <2>1. n \in 0 .. MaxUpdates
        OBVIOUS
    <2>2. k = 0 => m \in Message /\ m.type # "ADD"
        BY <1>5, <2>1 DEF Message
    <2>3. k = 1 => m \in Message /\ m.type # "ADD"
        BY <1>5, <1>6 DEF Message
    <2>4. k \in Orders(B) => m \in Message /\ m.order \in Numbers
        <3>1. SUFFICES ASSUME k \in Orders(B)
                       PROVE  m \in Message /\ m.order \in Numbers
            OBVIOUS
        <3>2. m = [type |-> "ADD", order |-> KthOrder(B, k - 1)]
            BY <1>5, <3>1
        <3>3. KthOrder(B, k - 1) \in Numbers
            BY <1>3, <3>1
        <3> QED BY <1>6, <3>2, <3>3 DEF Message
    <2>5. k = EndSeq(B) => m \in Message /\ m.type # "ADD"
        BY <1>5, <2>1 DEF Message
    <2> QED BY <1>5, <2>2, <2>3, <2>4, <2>5
<1> QED BY <1>7 DEF m, B

-----------------------------------------------------------------------------
(* checkSnapshotSync                                                       *)

\* The first number that is missing after the snapshot's last exists.
LEMMA NextAfterIs ==
    ASSUME NEW S, NEW I \in SUBSET Numbers, LastOf(S).order \in 0 .. MaxUpdates
    PROVE  /\ NextAfter(S, I) \in 1 .. MaxUpdates + 1
           /\ NextAfter(S, I) > LastOf(S).order
           /\ NextAfter(S, I) \notin I
           /\ \A k \in LastOf(S).order + 1 .. NextAfter(S, I) - 1 : k \in I
<1> DEFINE n == LastOf(S).order
           T == {x \in Nat : x > n /\ x \notin I}
<1>1. MaxUpdates \in Nat /\ n \in Nat /\ n <= MaxUpdates
    BY BoundsAssumption
<1>2. MaxUpdates + 1 \in T
    BY <1>1 DEF Numbers
<1>3. T \in SUBSET Nat /\ T # {}
    BY <1>2
<1> HIDE DEF n
<1>4. PICK x \in T : \A y \in T : x <= y
    <2> HIDE DEF T
    <2> QED BY <1>3, LeastNumber
<1>5. x \in 1 .. MaxUpdates + 1 /\ x > n /\ x \notin I
    BY <1>1, <1>2, <1>4
<1>6. ASSUME NEW k \in n + 1 .. x - 1 PROVE k \in I
    <2>1. k \in Nat /\ k > n /\ ~(x <= k)
        BY <1>1, <1>5
    <2> QED BY <1>4, <2>1
<1> HIDE DEF T
<1>7. \E y \in 1 .. MaxUpdates + 1 : /\ y > LastOf(S).order
                                     /\ y \notin I
                                     /\ \A k \in LastOf(S).order + 1 .. y - 1 : k \in I
    BY <1>5, <1>6 DEF n
<1> QED BY <1>7 DEF NextAfter

\* checkSnapshotSync forgets the snapshots, or keeps them, or takes them.
LEMMA SyncOutcome ==
    ASSUME NEW S, NEW I, CheckSnapshotSync(S, I)
    PROVE  \/ KeepWaiting(<<>>, I, nextExpIncSeqNum)
           \/ /\ S # <<>> /\ Gapless(S)
              /\ \/ /\ LastOf(S).type # "SNAPSHOT_END"
                    /\ KeepWaiting(S, I, nextExpIncSeqNum)
                 \/ /\ LastOf(S).type = "SNAPSHOT_END"
                    /\ \/ KeepWaiting(<<>>, I, NextAfter(S, I))
                       \/ JoinsUp(S, I) /\ Recovered(S, I)
BY DEF CheckSnapshotSync

\* What the numbers of a gapless queue are.
LEMMA GaplessIs ==
    ASSUME NEW S, DOMAIN S \subseteq 0 .. MaxUpdates + 2, DOMAIN S # {},
           Gapless(S)
    PROVE  LET j == Cardinality(DOMAIN S) - 1
           IN  /\ j \in 0 .. MaxUpdates + 2
               /\ DOMAIN S = 0 .. j
               /\ j \in DOMAIN S
               /\ LastOf(S) = S[j]
<1>1. 0 \in Int /\ MaxUpdates + 2 \in Int
    BY BoundsAssumption
<1>2. IsFiniteSet(0 .. MaxUpdates + 2)
    BY <1>1, FS_Interval
<1>3. IsFiniteSet(DOMAIN S)
    <2>1. DOMAIN S \in SUBSET (0 .. MaxUpdates + 2)
        OBVIOUS
    <2> QED BY <1>2, <2>1, FS_Subset
<1>4. Cardinality(DOMAIN S) \in Nat /\ Cardinality(DOMAIN S) # 0
    BY <1>3, FS_CardinalityType, FS_EmptySet
<1>5. DOMAIN S = 0 .. Cardinality(DOMAIN S) - 1
    BY DEF Gapless
<1>6. Cardinality(DOMAIN S) - 1 \in DOMAIN S
    BY <1>4, <1>5
<1> QED BY <1>4, <1>5, <1>6 DEF LastOf

\* Whatever it does, the consumer's members stay well formed.
LEMMA SyncTypes ==
    ASSUME TypeInv, NEW S, NEW I \in SUBSET DOMAIN stream,
           stream' = stream,
           \/ S = <<>>
           \/ /\ DOMAIN S \subseteq 0 .. MaxUpdates + 2 /\ DOMAIN S # {}
              /\ \A k \in DOMAIN S :
                     S[k] \in Message /\ (S[k].type = "ADD" => S[k].order \in Numbers),
           CheckSnapshotSync(S, I)
    PROVE  /\ nextExpIncSeqNum' \in 1 .. MaxUpdates + 1
           /\ isInRecovery' \in BOOLEAN
           /\ DOMAIN snapshotQueued' \subseteq 0 .. MaxUpdates + 2
           /\ \A k \in DOMAIN snapshotQueued' : snapshotQueued'[k] \in Message
           /\ incrementalQueued' \subseteq DOMAIN stream'
           /\ book' \subseteq Numbers
           /\ QueueShape'
<1>1. /\ nextExpIncSeqNum \in 1 .. MaxUpdates + 1 /\ book \subseteq Numbers
      /\ MaxUpdates \in Nat /\ I \subseteq Numbers
    <2>1. DOMAIN stream = 1 .. Len(stream) /\ Len(stream) \in Nat
        BY LenProperties DEF TypeInv, TypeOK
    <2> QED BY <2>1, BoundsAssumption DEF TypeInv, TypeOK, Numbers
<1>2. CASE KeepWaiting(<<>>, I, nextExpIncSeqNum)
    BY <1>1, <1>2 DEF KeepWaiting, QueueShape
<1>3. CASE S # <<>> /\ Gapless(S) /\ ~KeepWaiting(<<>>, I, nextExpIncSeqNum)
    <2> DEFINE j == Cardinality(DOMAIN S) - 1
    <2>1. /\ j \in 0 .. MaxUpdates + 2 /\ DOMAIN S = 0 .. j
          /\ j \in DOMAIN S /\ LastOf(S) = S[j]
        BY <1>3, GaplessIs
    <2>2. \A k \in DOMAIN S : S[k] \in Message
                              /\ (S[k].type = "ADD" => S[k].order \in Numbers)
        BY <1>3
    <2>3. LastOf(S).order \in 0 .. MaxUpdates
        BY <2>1, <2>2 DEF Message
    <2>4. NextAfter(S, I) \in 1 .. MaxUpdates + 1
        BY <1>1, <2>3, NextAfterIs
    <2>5. CASE KeepWaiting(S, I, nextExpIncSeqNum)
        BY <1>1, <2>1, <2>2, <2>5 DEF KeepWaiting, QueueShape
    <2>6. CASE KeepWaiting(<<>>, I, NextAfter(S, I))
        BY <1>1, <2>4, <2>6 DEF KeepWaiting, QueueShape
    <2>7. CASE Recovered(S, I)
        <3>1. BookAfter(S, I) \subseteq Numbers
            BY <2>2 DEF BookAfter
        <3>2. /\ isInRecovery' = FALSE /\ snapshotQueued' = <<>>
              /\ incrementalQueued' = {} /\ nextExpIncSeqNum' = NextAfter(S, I)
              /\ book' = BookAfter(S, I)
            BY <2>7 DEF Recovered
        <3> HIDE DEF j
        <3>3. DOMAIN <<>> = {}
            OBVIOUS
        <3>4. QueueShape'
            BY <3>2 DEF QueueShape
        <3> QED BY <2>4, <3>1, <3>2, <3>3, <3>4
    <2> QED BY <1>3, <2>5, <2>6, <2>7, SyncOutcome
<1> QED BY <1>2, <1>3, SyncOutcome

-----------------------------------------------------------------------------
(* Types.                                                                  *)

\* The message that is to be sent next, queued, is a queue of messages.
LEMMA QueuedIs ==
    ASSUME NEW k, NEW m
    PROVE  LET q == Queued(k, m)
           IN  /\ k \in DOMAIN q /\ q[k] = m
               /\ DOMAIN q = IF k \in DOMAIN snapshotQueued
                             THEN {k} ELSE DOMAIN snapshotQueued \cup {k}
               /\ \A j \in DOMAIN q : j # k =>
                      j \in DOMAIN snapshotQueued /\ q[j] = snapshotQueued[j]
BY DEF Queued

\* Where the cycle stands, and the next message of it.
LEMMA CycleIs ==
    ASSUME TypeInv
    PROVE  LET B == BookAt(cycle.last)
           IN  /\ cycle.last \in 0 .. MaxUpdates /\ cycle.last \in Nat
               /\ cycle.last <= Len(stream)
               /\ cycle.sent \in 0 .. MaxUpdates + 3 /\ cycle.sent \in Nat
               /\ B \in SUBSET Nat /\ IsFiniteSet(B) /\ Cardinality(B) \in Nat
               /\ Size(B) \in 3 .. MaxUpdates + 3 /\ EndSeq(B) = Size(B) - 1
               /\ Len(stream) \in Nat /\ DOMAIN stream = 1 .. Len(stream)
               /\ Len(stream) <= MaxUpdates /\ MaxUpdates \in Nat
<1>1. /\ MaxUpdates \in Nat /\ stream \in Seq(Update)
      /\ Len(stream) <= MaxUpdates /\ cycle.last <= Len(stream)
      /\ cycle.last \in 0 .. MaxUpdates /\ cycle.sent \in 0 .. MaxUpdates + 3
    BY BoundsAssumption DEF TypeInv, TypeOK, CycleBehind
<1>2. /\ Len(stream) \in Nat /\ DOMAIN stream = 1 .. Len(stream)
      /\ cycle.last \in Nat /\ cycle.sent \in Nat
    BY <1>1, LenProperties
<1> DEFINE B == BookAt(cycle.last)
<1>3. /\ B \in SUBSET Nat /\ IsFiniteSet(B) /\ Cardinality(B) \in Nat
      /\ Cardinality(B) <= cycle.last
    BY <1>2, BookBounds
<1> HIDE DEF B
<1>4. Size(B) \in 3 .. MaxUpdates + 3 /\ EndSeq(B) = Size(B) - 1
    <2> DEFINE c == Cardinality(B)
    <2>1. c \in Nat /\ c <= MaxUpdates
        BY <1>1, <1>2, <1>3
    <2>2. Size(B) = c + 3 /\ EndSeq(B) = c + 2
        BY DEF Size, EndSeq
    <2> HIDE DEF c
    <2> QED BY <1>1, <2>1, <2>2
<1> QED BY <1>1, <1>2, <1>3, <1>4 DEF B

\* A stream grows at its end.
LEMMA PublishIs ==
    ASSUME TypeInv, NEW u \in Update, Publish(u)
    PROVE  /\ stream' \in Seq(Update) /\ Len(stream') = Len(stream) + 1
           /\ Len(stream') <= MaxUpdates
           /\ DOMAIN stream' = DOMAIN stream \cup {Len(stream) + 1}
           /\ stream'[Len(stream) + 1] = u
           /\ \A n \in DOMAIN stream : stream'[n] = stream[n]
<1>1. /\ stream \in Seq(Update) /\ stream' = Append(stream, u)
      /\ Len(stream) < MaxUpdates /\ MaxUpdates \in Nat
    BY BoundsAssumption DEF Publish, TypeInv, TypeOK
<1>2. /\ stream' \in Seq(Update) /\ Len(stream') = Len(stream) + 1
      /\ stream'[Len(stream) + 1] = u
      /\ \A n \in 1 .. Len(stream) : stream'[n] = stream[n]
    BY <1>1, AppendProperties
<1>3. /\ Len(stream) \in Nat /\ DOMAIN stream = 1 .. Len(stream)
      /\ DOMAIN stream' = 1 .. Len(stream')
    BY <1>1, <1>2, LenProperties
<1> QED BY <1>1, <1>2, <1>3

\* The updates the exchange sends are updates: it cancels what is in the book.
LEMMA ExchangeIs ==
    ASSUME TypeInv, Exchange
    PROVE  \E u \in Update :
               /\ Publish(u)
               /\ \/ u.type = "ADD" /\ u.order = Len(stream) + 1
                  \/ u.type = "CANCEL" /\ u.order \in 1 .. Len(stream)
<1>1. /\ Len(stream) \in Nat /\ MaxUpdates \in Nat
      /\ BookAt(Len(stream)) \subseteq 1 .. Len(stream)
    BY CycleIs, BookBounds
<1>2. CASE Publish([type |-> "ADD", order |-> Len(stream) + 1])
    <2>1. [type |-> "ADD", order |-> Len(stream) + 1] \in Update
        BY <1>1, <1>2 DEF Publish, Update, Numbers
    <2> QED BY <1>2, <2>1
<1>3. ASSUME NEW m \in BookAt(Len(stream)),
             Publish([type |-> "CANCEL", order |-> m])
      PROVE  \E u \in Update : /\ Publish(u)
                               /\ u.type = "CANCEL" /\ u.order \in 1 .. Len(stream)
    <2>1. m \in 1 .. Len(stream) /\ m \in Numbers
        BY <1>1, <1>3 DEF Publish, Numbers
    <2>2. [type |-> "CANCEL", order |-> m] \in Update
        BY <2>1 DEF Update
    <2> QED BY <1>3, <2>1, <2>2
<1> QED BY <1>2, <1>3 DEF Exchange

\* The datagram after message k begins at most at the cycle's end.
LEMMA NextDatagramIs ==
    ASSUME NEW k \in Nat, NEW s \in Nat, s >= 3, k < s
    PROVE  NextDatagram(k) \in Nat /\ k < NextDatagram(k) /\ NextDatagram(k) <= s
BY DEF NextDatagram

LEMMA InitTypeInv == Init => TypeInv
<1> SUFFICES ASSUME Init PROVE TypeInv
    OBVIOUS
<1>1. Cardinality({}) = 0 /\ MaxUpdates \in Nat
    BY FS_EmptySet, BoundsAssumption
<1>2. stream \in Seq(Update) /\ Len(stream) = 0 /\ DOMAIN <<>> = {}
    BY DEF Init
<1>3. cycle = [last |-> 0, sent |-> 3]
    BY <1>1 DEF Init, Size
<1>4. cycle \in [last : 0 .. MaxUpdates, sent : 0 .. MaxUpdates + 3]
    BY <1>1, <1>3
<1>5. /\ streamLosses \in 0 .. MaxStreamLosses
      /\ snapshotLosses \in 0 .. MaxSnapshotLosses
      /\ nextExpIncSeqNum \in 1 .. MaxUpdates + 1
    BY BoundsAssumption DEF Init
<1>6. /\ Len(stream) <= MaxUpdates /\ CycleBehind
      /\ inFlight = {} /\ isInRecovery = FALSE /\ snapshotQueued = <<>>
      /\ incrementalQueued = {} /\ book = {}
    BY <1>1, <1>2, <1>3 DEF Init, CycleBehind
<1> QED BY <1>2, <1>4, <1>5, <1>6 DEF TypeInv, TypeOK, QueueShape

LEMMA StepTypeInv == TypeInv /\ [Next]_vars => TypeInv'
<1> SUFFICES ASSUME TypeInv, [Next]_vars PROVE TypeInv'
    OBVIOUS
<1> DEFINE B == BookAt(cycle.last)
<1>1. /\ cycle.last \in 0 .. MaxUpdates /\ cycle.last \in Nat
      /\ cycle.last <= Len(stream)
      /\ cycle.sent \in 0 .. MaxUpdates + 3 /\ cycle.sent \in Nat
      /\ Size(B) \in 3 .. MaxUpdates + 3 /\ EndSeq(B) = Size(B) - 1
      /\ Len(stream) \in Nat /\ DOMAIN stream = 1 .. Len(stream)
      /\ Len(stream) <= MaxUpdates /\ MaxUpdates \in Nat
      /\ cycle = [last |-> cycle.last, sent |-> cycle.sent]
    BY CycleIs DEF TypeInv, TypeOK
<1>2. CASE Exchange
    <2>1. PICK u \in Update : Publish(u)
        BY <1>2, ExchangeIs
    <2>2. /\ stream' \in Seq(Update) /\ Len(stream') = Len(stream) + 1
          /\ Len(stream') <= MaxUpdates
          /\ DOMAIN stream' = DOMAIN stream \cup {Len(stream) + 1}
        BY <2>1, PublishIs
    <2>3. /\ inFlight' = inFlight \cup {Len(stream) + 1}
          /\ UNCHANGED <<cycle, streamLosses, snapshotLosses, nextExpIncSeqNum, isInRecovery,
                         snapshotQueued, incrementalQueued, book>>
        BY <2>1 DEF Publish, consumerVars
    <2>4. TypeOK'
        BY <2>2, <2>3 DEF TypeInv, TypeOK
    <2>5. QueueShape'
        BY <2>3 DEF TypeInv, QueueShape
    <2>6. CycleBehind'
        BY <1>1, <2>2, <2>3 DEF CycleBehind
    <2> QED BY <2>4, <2>5, <2>6 DEF TypeInv
<1>3. ASSUME NEW n \in 0 .. MaxUpdates, StartCycle(n)
      PROVE  TypeInv'
    BY <1>1, <1>3
    DEF StartCycle, consumerVars, TypeInv, TypeOK, QueueShape, CycleBehind
<1>4. ASSUME NEW n \in Numbers, LoseIncremental(n)
      PROVE  TypeInv'
    BY <1>1, <1>4, BoundsAssumption
    DEF LoseIncremental, consumerVars, TypeInv, TypeOK, QueueShape, CycleBehind
<1>5. ASSUME LoseSnapshot \/ PassSnapshot
      PROVE  TypeInv'
    <2>1. /\ cycle' = [cycle EXCEPT !.sent = NextDatagram(@)]
          /\ cycle.sent < Size(B)
          /\ UNCHANGED <<stream, inFlight, streamLosses, consumerVars>>
          /\ snapshotLosses' \in 0 .. MaxSnapshotLosses
        <3>1. snapshotLosses \in 0 .. MaxSnapshotLosses
            BY DEF TypeInv, TypeOK
        <3>2. /\ cycle' = [cycle EXCEPT !.sent = NextDatagram(@)]
              /\ Sending
              /\ UNCHANGED <<stream, inFlight, streamLosses, consumerVars>>
              /\ \/ snapshotLosses' = snapshotLosses
                 \/ /\ snapshotLosses < MaxSnapshotLosses
                    /\ snapshotLosses' = snapshotLosses + 1
            BY <1>5 DEF LoseSnapshot, PassSnapshot
        <3>3. snapshotLosses' \in 0 .. MaxSnapshotLosses
            BY <3>1, <3>2, BoundsAssumption
        <3> QED BY <3>2, <3>3 DEF Sending
    <2>2. /\ NextDatagram(cycle.sent) \in Nat
          /\ NextDatagram(cycle.sent) <= Size(B)
        BY <1>1, <2>1, NextDatagramIs
    <2>3. NextDatagram(cycle.sent) \in 0 .. MaxUpdates + 3
        BY <1>1, <2>2
    <2> QED BY <1>1, <2>1, <2>3
        DEF consumerVars, TypeInv, TypeOK, QueueShape, CycleBehind
<1>6. CASE RecvSnapshot
    <2> DEFINE k == cycle.sent
               m == SnapshotMessage(cycle.last, B, k)
               S == Queued(k, m)
    <2>1. /\ CheckSnapshotSync(S, incrementalQueued)
          /\ cycle' = [cycle EXCEPT !.sent = k + 1]
          /\ k < Size(B)
          /\ UNCHANGED <<stream, inFlight, streamLosses, snapshotLosses>>
        BY <1>6 DEF RecvSnapshot, Sending
    <2>2. m \in Message /\ (m.type = "ADD" => m.order \in Numbers)
        BY <1>1, <2>1, MessageType
    <2>3. k \in 0 .. MaxUpdates + 2 /\ k + 1 \in 0 .. MaxUpdates + 3
        BY <1>1, <2>1
    <2> HIDE DEF m, k
    <2>4. /\ k \in DOMAIN S /\ S[k] = m
          /\ DOMAIN S \subseteq DOMAIN snapshotQueued \cup {k}
          /\ \A j \in DOMAIN S : j # k =>
                 j \in DOMAIN snapshotQueued /\ S[j] = snapshotQueued[j]
        BY QueuedIs
    <2>5. \A j \in DOMAIN snapshotQueued :
              /\ snapshotQueued[j] \in Message
              /\ snapshotQueued[j].type = "ADD" => snapshotQueued[j].order \in Numbers
        BY DEF TypeInv, TypeOK, QueueShape
    <2>6. DOMAIN snapshotQueued \subseteq 0 .. MaxUpdates + 2
        BY DEF TypeInv, TypeOK
    <2> HIDE DEF S
    <2>7. /\ DOMAIN S \subseteq 0 .. MaxUpdates + 2 /\ DOMAIN S # {}
          /\ \A j \in DOMAIN S :
                 S[j] \in Message /\ (S[j].type = "ADD" => S[j].order \in Numbers)
        BY <2>2, <2>3, <2>4, <2>5, <2>6
    <2>8. incrementalQueued \in SUBSET DOMAIN stream
        BY DEF TypeInv, TypeOK
    <2>9. /\ nextExpIncSeqNum' \in 1 .. MaxUpdates + 1
          /\ isInRecovery' \in BOOLEAN
          /\ DOMAIN snapshotQueued' \subseteq 0 .. MaxUpdates + 2
          /\ \A j \in DOMAIN snapshotQueued' : snapshotQueued'[j] \in Message
          /\ incrementalQueued' \subseteq DOMAIN stream'
          /\ book' \subseteq Numbers
          /\ QueueShape'
        BY <2>1, <2>7, <2>8, SyncTypes
    <2>10. /\ stream' \in Seq(Update) /\ Len(stream') <= MaxUpdates
           /\ inFlight' \subseteq DOMAIN stream'
           /\ streamLosses' \in 0 .. MaxStreamLosses
           /\ snapshotLosses' \in 0 .. MaxSnapshotLosses
           /\ cycle' \in [last : 0 .. MaxUpdates, sent : 0 .. MaxUpdates + 3]
           /\ CycleBehind'
        BY <1>1, <2>1, <2>3 DEF TypeInv, TypeOK, CycleBehind
    <2> QED BY <2>9, <2>10 DEF TypeInv, TypeOK
<1>7. ASSUME NEW n \in Numbers, RecvIncremental(n)
      PROVE  TypeInv'
    <2>1. /\ n \in inFlight /\ inFlight' = inFlight \ {n}
          /\ UNCHANGED <<stream, cycle, streamLosses, snapshotLosses>>
          /\ n \in DOMAIN stream
        BY <1>7 DEF RecvIncremental, TypeInv, TypeOK
    <2>2. /\ stream' \in Seq(Update) /\ Len(stream') <= MaxUpdates
          /\ inFlight' \subseteq DOMAIN stream'
          /\ streamLosses' \in 0 .. MaxStreamLosses
          /\ snapshotLosses' \in 0 .. MaxSnapshotLosses
          /\ cycle' \in [last : 0 .. MaxUpdates, sent : 0 .. MaxUpdates + 3]
          /\ CycleBehind'
        BY <2>1 DEF TypeInv, TypeOK, CycleBehind
    <2>3. CASE InOrder(n) /\ n = nextExpIncSeqNum
        <3>1. nextExpIncSeqNum' \in 1 .. MaxUpdates + 1
            BY <1>1, <2>1, <2>3 DEF InOrder
        <3>2. stream[n] \in Update
            BY <2>1 DEF TypeInv, TypeOK
        <3>3. book' \subseteq Numbers
            BY <2>3, <3>2 DEF InOrder, Update, TypeInv, TypeOK
        <3>4. UNCHANGED <<isInRecovery, snapshotQueued, incrementalQueued>>
            BY <2>3 DEF InOrder
        <3>5. /\ isInRecovery' \in BOOLEAN
              /\ DOMAIN snapshotQueued' \subseteq 0 .. MaxUpdates + 2
              /\ \A k \in DOMAIN snapshotQueued' : snapshotQueued'[k] \in Message
              /\ incrementalQueued' \subseteq DOMAIN stream'
              /\ QueueShape'
            BY <2>1, <3>4 DEF TypeInv, TypeOK, QueueShape
        <3> QED BY <2>2, <3>1, <3>3, <3>5 DEF TypeInv, TypeOK
    <2>4. ASSUME NEW S, NEW I \in SUBSET DOMAIN stream, CheckSnapshotSync(S, I),
                 S = <<>> \/ S = snapshotQueued
          PROVE  TypeInv'
        <3>1. \/ S = <<>>
              \/ /\ DOMAIN S \subseteq 0 .. MaxUpdates + 2 /\ DOMAIN S # {}
                 /\ \A k \in DOMAIN S :
                        S[k] \in Message /\ (S[k].type = "ADD" => S[k].order \in Numbers)
            <4>1. ASSUME NEW j \in 0 .. MaxUpdates + 2 PROVE 0 .. j # {}
                <5>1. 0 \in 0 .. j
                    OBVIOUS
                <5> QED BY <5>1
            <4> QED BY <2>4, <4>1 DEF TypeInv, TypeOK, QueueShape
        <3>2. stream' = stream
            BY <2>1
        <3>3. /\ nextExpIncSeqNum' \in 1 .. MaxUpdates + 1
              /\ isInRecovery' \in BOOLEAN
              /\ DOMAIN snapshotQueued' \subseteq 0 .. MaxUpdates + 2
              /\ \A j \in DOMAIN snapshotQueued' : snapshotQueued'[j] \in Message
              /\ incrementalQueued' \subseteq DOMAIN stream'
              /\ book' \subseteq Numbers
              /\ QueueShape'
            BY <2>4, <3>1, <3>2, SyncTypes
        <3> QED BY <2>2, <3>3 DEF TypeInv, TypeOK
    <2>5. /\ {n} \in SUBSET DOMAIN stream
          /\ incrementalQueued \cup {n} \in SUBSET DOMAIN stream
        BY <2>1 DEF TypeInv, TypeOK
    <2> QED BY <1>7, <2>3, <2>4, <2>5 DEF RecvIncremental, StartSnapshotSync
<1>8. CASE UNCHANGED vars
    BY <1>8 DEF vars, networkVars, consumerVars, TypeInv, TypeOK, QueueShape,
       CycleBehind
<1> QED BY <1>2, <1>3, <1>4, <1>5, <1>6, <1>7, <1>8 DEF Next, Receive

\* Whatever is lost or overtaken, the consumer's members and the messages it keeps
\* are well formed; a cycle has the numbers its size calls for.
THEOREM TypeCorrect == Spec => []TypeOK
<1>1. TypeInv => TypeOK
    BY DEF TypeInv
<1> QED BY <1>1, InitTypeInv, StepTypeInv, PTL DEF Spec

-----------------------------------------------------------------------------
(* Books and the updates between them.                                     *)

\* The book after the first n updates of stream s.
BookIn(s, n) ==
    {m \in 1 .. n : /\ s[m].type = "ADD"
                    /\ \A k \in 1 .. n : s[k] # [type |-> "CANCEL", order |-> m]}

LEMMA BookAtIs ==
    /\ \A n : BookAt(n) = BookIn(stream, n)
    /\ BookAt(nextExpIncSeqNum - 1)' = BookIn(stream', nextExpIncSeqNum' - 1)
BY DEF BookAt, BookIn

\* It depends on those only.
LEMMA BookOfPrefix ==
    ASSUME NEW s, NEW t, NEW n, \A k \in 1 .. n : s[k] = t[k]
    PROVE  BookIn(s, n) = BookIn(t, n)
BY DEF BookIn

\* What update n of the stream is.
LEMMA UpdateIs ==
    ASSUME TypeInv, StreamOrdered, NEW n \in DOMAIN stream
    PROVE  /\ n \in Nat /\ 1 <= n /\ n <= Len(stream) /\ n \in Numbers
           /\ stream[n].order \in Numbers /\ stream[n].order \in Nat
           /\ \/ /\ stream[n] = [type |-> "ADD", order |-> n]
                 /\ stream[n].type = "ADD" /\ stream[n].order = n
              \/ /\ stream[n] = [type |-> "CANCEL", order |-> stream[n].order]
                 /\ stream[n].type = "CANCEL" /\ stream[n].order < n
<1>1. /\ Len(stream) \in Nat /\ DOMAIN stream = 1 .. Len(stream)
      /\ Len(stream) <= MaxUpdates /\ MaxUpdates \in Nat
    BY CycleIs
<1>2. stream[n] \in Update
    BY DEF TypeInv, TypeOK
<1>3. /\ n \in Nat /\ 1 <= n /\ n <= Len(stream) /\ n \in Numbers
    BY <1>1 DEF Numbers
<1>4. stream[n].order \in Numbers /\ stream[n].order \in Nat
    BY <1>2 DEF Update, Numbers
<1>5. stream[n].type \in {"ADD", "CANCEL"}
    BY <1>2 DEF Update
<1>6. stream[n] = [type |-> stream[n].type, order |-> stream[n].order]
    BY <1>2 DEF Update
<1> QED BY <1>3, <1>4, <1>5, <1>6 DEF StreamOrdered

\* The orders that the updates after number a, up to b, add and take away.
Adds(a, b)  == {m \in Numbers : \E n \in a + 1 .. b :
                                    stream[n] = [type |-> "ADD", order |-> m]}
Takes(a, b) == {m \in Numbers : \E n \in a + 1 .. b :
                                    stream[n] = [type |-> "CANCEL", order |-> m]}

\* They turn the one book into the other.
LEMMA BookBetween ==
    ASSUME TypeInv, StreamOrdered, NEW a \in Nat, NEW b \in Nat, a <= b,
           b <= Len(stream)
    PROVE  BookAt(b) = (BookAt(a) \cup Adds(a, b)) \ Takes(a, b)
<1>1. /\ Len(stream) \in Nat /\ DOMAIN stream = 1 .. Len(stream)
      /\ Len(stream) <= MaxUpdates /\ MaxUpdates \in Nat
    BY CycleIs
<1>2. \A n \in 1 .. b : n \in DOMAIN stream
    BY <1>1
<1>3. ASSUME NEW m \in BookAt(b)
      PROVE  m \in (BookAt(a) \cup Adds(a, b)) \ Takes(a, b)
    <2>1. /\ m \in 1 .. b /\ stream[m].type = "ADD" /\ m \in Nat
          /\ \A k \in 1 .. b : stream[k] # [type |-> "CANCEL", order |-> m]
        BY DEF BookAt
    <2>2. m \in Numbers /\ stream[m] = [type |-> "ADD", order |-> m]
        <3>1. m \in DOMAIN stream
            BY <1>2, <2>1
        <3> QED BY <2>1, <3>1, UpdateIs
    <2>3. m \notin Takes(a, b)
        <3>1. \A n \in a + 1 .. b : n \in 1 .. b
            OBVIOUS
        <3> QED BY <2>1, <3>1 DEF Takes
    <2>4. CASE m <= a
        <3>1. m \in 1 .. a /\ \A k \in 1 .. a : k \in 1 .. b
            BY <2>1, <2>4
        <3>2. m \in BookAt(a)
            BY <2>1, <3>1 DEF BookAt
        <3> QED BY <2>3, <3>2
    <2>5. CASE m > a
        <3>1. m \in a + 1 .. b
            BY <2>1, <2>5
        <3>2. m \in Adds(a, b)
            BY <2>2, <3>1 DEF Adds
        <3> QED BY <2>3, <3>2
    <2>6. m <= a \/ m > a
        BY <2>1
    <2> QED BY <2>4, <2>5, <2>6
<1>4. ASSUME NEW m \in (BookAt(a) \cup Adds(a, b)) \ Takes(a, b)
      PROVE  m \in BookAt(b)
    <2>1. CASE m \in BookAt(a)
        <3>1. /\ m \in 1 .. a /\ stream[m].type = "ADD" /\ m \in 1 .. b
              /\ \A k \in 1 .. a : stream[k] # [type |-> "CANCEL", order |-> m]
            BY <2>1 DEF BookAt
        <3>2. m \in Numbers
            BY <1>1, <3>1 DEF Numbers
        <3>3. \A k \in a + 1 .. b : stream[k] # [type |-> "CANCEL", order |-> m]
            BY <1>4, <3>2 DEF Takes
        <3>4. \A k \in 1 .. b : k \in 1 .. a \/ k \in a + 1 .. b
            OBVIOUS
        <3> QED BY <3>1, <3>3, <3>4 DEF BookAt
    <2>2. CASE m \in Adds(a, b)
        <3>1. PICK n \in a + 1 .. b : stream[n] = [type |-> "ADD", order |-> m]
            BY <2>2 DEF Adds
        <3>2. n \in 1 .. b /\ n \in DOMAIN stream
            BY <1>2
        <3>3. m = n /\ stream[m].type = "ADD" /\ m \in 1 .. b /\ m \in Nat
            BY <3>1, <3>2, UpdateIs
        <3>4. ASSUME NEW k \in 1 .. b, stream[k] = [type |-> "CANCEL", order |-> m]
              PROVE  FALSE
            <4>1. k \in DOMAIN stream
                BY <1>2
            <4>2. k > m
                BY <3>4, <4>1, UpdateIs
            <4>3. k \in a + 1 .. b /\ m \in Numbers
                BY <2>2, <3>1, <3>3, <4>2 DEF Adds
            <4> QED BY <1>4, <3>4, <4>3 DEF Takes
        <3> QED BY <3>3, <3>4 DEF BookAt
    <2> QED BY <1>4, <2>1, <2>2
<1> QED BY <1>3, <1>4

\* The update after n turns book n into the next one, the way the trade engine
\* applies it.
LEMMA BookNext ==
    ASSUME TypeInv, StreamOrdered, NEW n \in DOMAIN stream
    PROVE  BookAt(n) = IF stream[n].type = "ADD"
                       THEN BookAt(n - 1) \cup {stream[n].order}
                       ELSE BookAt(n - 1) \ {stream[n].order}
<1>1. /\ n \in Nat /\ n - 1 \in Nat /\ n - 1 <= n /\ n <= Len(stream)
      /\ (n - 1) + 1 .. n = {n}
    BY UpdateIs
<1> DEFINE A == Adds(n - 1, n)
           T == Takes(n - 1, n)
<1>2. BookAt(n) = (BookAt(n - 1) \cup A) \ T
    BY <1>1, BookBetween
<1>3. CASE stream[n].type = "ADD"
    <2>1. A = {n} /\ T = {} /\ stream[n].order = n
        BY <1>1, <1>3, UpdateIs DEF Adds, Takes
    <2> QED BY <1>2, <1>3, <2>1
<1>4. CASE stream[n].type # "ADD"
    <2>1. A = {} /\ T = {stream[n].order}
        BY <1>1, <1>4, UpdateIs DEF Adds, Takes
    <2> QED BY <1>2, <1>4, <2>1
<1> QED BY <1>3, <1>4

-----------------------------------------------------------------------------
(* A recovery ends with the right book.                                    *)

\* A whole cycle shows the book as of the number it carries.
LEMMA CycleShows ==
    ASSUME NEW n \in Nat, NEW S, PartOf(S, n, EndSeq(BookAt(n)))
    PROVE  {S[k].order : k \in {j \in DOMAIN S : S[j].type = "ADD"}} = BookAt(n)
<1> DEFINE B == BookAt(n)
<1>1. B \in SUBSET Nat /\ IsFiniteSet(B) /\ Cardinality(B) \in Nat
    BY BookBounds
<1>2. /\ DOMAIN S = 0 .. EndSeq(B)
      /\ \A k \in 0 .. EndSeq(B) : S[k] = SnapshotMessage(n, B, k)
    BY DEF PartOf
<1> HIDE DEF B
<1>3. EndSeq(B) = Cardinality(B) + 2
    BY DEF EndSeq
<1>4. ASSUME NEW k \in DOMAIN S
      PROVE  /\ S[k].type = "ADD" <=> k \in Orders(B)
             /\ k \in Orders(B) => S[k].order = KthOrder(B, k - 1)
    <2>1. k \in Nat /\ k <= EndSeq(B) /\ S[k] = SnapshotMessage(n, B, k)
        BY <1>1, <1>2, <1>3
    <2> QED BY <1>1, <2>1, MessageIs, MessageKinds
<1>5. ASSUME NEW k \in DOMAIN S, S[k].type = "ADD"
      PROVE  S[k].order \in B
    <2>1. k \in Orders(B) /\ S[k].order = KthOrder(B, k - 1)
        BY <1>4, <1>5
    <2>2. k - 1 \in 1 .. Cardinality(B)
        BY <1>1, <2>1 DEF Orders
    <2> QED BY <1>1, <2>1, <2>2, KthExists
<1>6. ASSUME NEW m \in B
      PROVE  \E k \in DOMAIN S : S[k].type = "ADD" /\ S[k].order = m
    <2> DEFINE k == Rank(B, m) + 1
    <2>1. Rank(B, m) \in 1 .. Cardinality(B) /\ KthOrder(B, Rank(B, m)) = m
        BY <1>1, EveryOrderIsKth
    <2>2. k \in Orders(B) /\ k \in 0 .. EndSeq(B) /\ k - 1 = Rank(B, m)
        BY <1>1, <1>3, <2>1 DEF Orders
    <2> HIDE DEF k
    <2>3. k \in DOMAIN S
        BY <1>2, <2>2
    <2>4. S[k].type = "ADD" /\ S[k].order = KthOrder(B, k - 1)
        BY <1>4, <2>2, <2>3
    <2> QED BY <2>1, <2>2, <2>3, <2>4
<1>7. {S[k].order : k \in {j \in DOMAIN S : S[j].type = "ADD"}} = B
    BY <1>5, <1>6
<1> QED BY <1>7 DEF B

\* The queue is the beginning of a cycle: it ends with END when it is all of it.
LEMMA LastOfPart ==
    ASSUME NEW n \in Nat, NEW j \in Nat, NEW S, PartOf(S, n, j)
    PROVE  /\ S # <<>>
           /\ LastOf(S) = S[j]
           /\ LastOf(S).type = "SNAPSHOT_END" <=> j = EndSeq(BookAt(n))
           /\ LastOf(S).type = "SNAPSHOT_END" => LastOf(S).order = n
<1> DEFINE B == BookAt(n)
<1>1. Cardinality(B) \in Nat
    BY BookBounds
<1>2. /\ DOMAIN S = 0 .. j /\ j <= EndSeq(B) /\ j \in 0 .. j
      /\ S[j] = SnapshotMessage(n, B, j)
    BY DEF PartOf
<1> HIDE DEF B
<1>3. Cardinality(DOMAIN S) = j + 1
    <2>1. 0 \in Int /\ j \in Int
        OBVIOUS
    <2> QED BY <1>2, <2>1, FS_Interval
<1>4. LastOf(S) = S[j]
    BY <1>3 DEF LastOf
<1>5. S[j].type = "SNAPSHOT_END" <=> j = EndSeq(B)
    BY <1>1, <1>2, MessageKinds
<1>6. j = EndSeq(B) => S[j].order = n
    BY <1>1, <1>2, MessageIs
<1> QED BY <1>2, <1>4, <1>5, <1>6 DEF B

\* Taking a whole cycle and the updates that follow it gives the book before the
\* next number expected.
LEMMA RecoversBook ==
    ASSUME TypeInv, StreamOrdered, NEW n \in Nat, n <= Len(stream),
           NEW S, PartOf(S, n, EndSeq(BookAt(n))),
           NEW I \in SUBSET DOMAIN stream, JoinsUp(S, I)
    PROVE  /\ NextAfter(S, I) - 1 \in Nat
           /\ NextAfter(S, I) - 1 <= Len(stream)
           /\ BookAfter(S, I) = BookAt(NextAfter(S, I) - 1)
<1> DEFINE e == NextAfter(S, I) - 1
<1>1. /\ Len(stream) \in Nat /\ DOMAIN stream = 1 .. Len(stream)
      /\ Len(stream) <= MaxUpdates /\ MaxUpdates \in Nat
    BY CycleIs
<1>2. EndSeq(BookAt(n)) \in Nat
    <2>1. Cardinality(BookAt(n)) \in Nat
        BY BookBounds
    <2> QED BY <2>1 DEF EndSeq
<1>3. LastOf(S).order = n
    BY <1>2, LastOfPart
<1>4. /\ NextAfter(S, I) \in 1 .. MaxUpdates + 1
      /\ NextAfter(S, I) > n
      /\ NextAfter(S, I) \notin I
      /\ \A k \in n + 1 .. NextAfter(S, I) - 1 : k \in I
    <2>1. I \in SUBSET Numbers /\ n \in 0 .. MaxUpdates
        BY <1>1 DEF Numbers
    <2> QED BY <1>3, <2>1, NextAfterIs
<1>5. e \in Nat /\ n <= e /\ NextAfter(S, I) = e + 1
    BY <1>4
<1>6. Newer(S, I) = n + 1 .. e
    <2>1. ASSUME NEW k \in I, k > n PROVE k \in n + 1 .. e
        <3>1. k \in Newer(S, I) /\ k \in Nat
            BY <1>1, <1>3, <2>1 DEF Newer
        <3>2. k < NextAfter(S, I)
            BY <3>1 DEF JoinsUp
        <3> QED BY <1>5, <2>1, <3>1, <3>2
    <2>2. ASSUME NEW k \in n + 1 .. e PROVE k \in I /\ k > n
        BY <1>4
    <2> QED BY <1>3, <2>1, <2>2 DEF Newer
<1> HIDE DEF e
<1>7. e <= Len(stream)
    <2>1. CASE e = n
        BY <2>1
    <2>2. CASE e # n
        <3>1. e \in n + 1 .. e
            BY <1>5, <2>2
        <3>2. e \in I
            BY <1>6, <3>1 DEF Newer
        <3> QED BY <1>1, <3>2
    <2> QED BY <2>1, <2>2
<1>8. BookAfter(S, I) = (BookAt(n) \cup Adds(n, e)) \ Takes(n, e)
    <2> DEFINE run == {stream[k] : k \in Newer(S, I)}
    <2>1. {m \in Numbers : [type |-> "ADD", order |-> m] \in run} = Adds(n, e)
        BY <1>6 DEF Adds
    <2>2. {m \in Numbers : [type |-> "CANCEL", order |-> m] \in run} = Takes(n, e)
        BY <1>6 DEF Takes
    <2>3. {S[k].order : k \in {j \in DOMAIN S : S[j].type = "ADD"}} = BookAt(n)
        BY CycleShows
    <2> QED BY <2>1, <2>2, <2>3 DEF BookAfter
<1>9. BookAfter(S, I) = BookAt(e)
    BY <1>5, <1>7, <1>8, BookBetween
<1> QED BY <1>5, <1>7, <1>9 DEF e

\* Whatever checkSnapshotSync does with the beginning of a cycle, or with messages
\* that leave a gap, the consumer is in step or knows that it is not.
LEMMA SyncKeeps ==
    ASSUME TypeInv, StreamOrdered, Consumes, stream' = stream, TypeOK',
           NEW S, NEW I \in SUBSET DOMAIN stream, CheckSnapshotSync(S, I),
           NEW n \in Nat, n <= Len(stream), NEW j \in Nat,
           S # <<>> /\ Gapless(S) => PartOf(S, n, j)
    PROVE  /\ Consumes' /\ BookIsCurrent'
           /\ \/ snapshotQueued' = <<>>
              \/ /\ snapshotQueued' = S /\ Gapless(S)
                 /\ PartOf(S, n, j) /\ j < EndSeq(BookAt(n))
<1>1. /\ Len(stream) \in Nat /\ nextExpIncSeqNum <= Len(stream) + 1
      /\ nextExpIncSeqNum' \in Nat
    <2>1. Len(stream) \in Nat /\ nextExpIncSeqNum <= Len(stream) + 1
        BY CycleIs DEF Consumes
    <2>2. nextExpIncSeqNum' \in Nat
        BY DEF TypeOK
    <2> QED BY <2>1, <2>2
<1>2. CASE KeepWaiting(<<>>, I, nextExpIncSeqNum)
    BY <1>1, <1>2 DEF KeepWaiting, Consumes, BookIsCurrent
<1>3. CASE S # <<>> /\ Gapless(S) /\ ~KeepWaiting(<<>>, I, nextExpIncSeqNum)
    <2>1. PartOf(S, n, j)
        BY <1>3
    <2>2. /\ LastOf(S).type = "SNAPSHOT_END" <=> j = EndSeq(BookAt(n))
          /\ LastOf(S).type = "SNAPSHOT_END" => LastOf(S).order = n
          /\ j <= EndSeq(BookAt(n)) /\ EndSeq(BookAt(n)) \in Nat
        <3>1. EndSeq(BookAt(n)) \in Nat
            BY BookBounds DEF EndSeq
        <3>2. j <= EndSeq(BookAt(n))
            BY <2>1 DEF PartOf
        <3> QED BY <2>1, <3>1, <3>2, LastOfPart
    <2>3. CASE /\ LastOf(S).type # "SNAPSHOT_END"
               /\ KeepWaiting(S, I, nextExpIncSeqNum)
        <3>1. j < EndSeq(BookAt(n))
            BY <2>2, <2>3
        <3>2. /\ isInRecovery' = TRUE /\ snapshotQueued' = S
              /\ nextExpIncSeqNum' = nextExpIncSeqNum
            BY <2>3 DEF KeepWaiting
        <3>3. Consumes' /\ BookIsCurrent'
            BY <1>1, <3>2 DEF Consumes, BookIsCurrent
        <3> QED BY <1>3, <2>1, <3>1, <3>2, <3>3
    <2>4. CASE /\ LastOf(S).type = "SNAPSHOT_END"
               /\ KeepWaiting(<<>>, I, NextAfter(S, I))
        <3>1. /\ isInRecovery' = TRUE /\ snapshotQueued' = <<>>
              /\ nextExpIncSeqNum' = NextAfter(S, I)
            BY <2>4 DEF KeepWaiting
        <3>2. NextAfter(S, I) <= Len(stream) + 1
            <4> DEFINE N == NextAfter(S, I)
            <4>1. /\ I \in SUBSET Numbers /\ n \in 0 .. MaxUpdates
                  /\ DOMAIN stream = 1 .. Len(stream) /\ MaxUpdates \in Nat
                BY CycleIs DEF Numbers
            <4>2. N \in 1 .. MaxUpdates + 1 /\ \A k \in n + 1 .. N - 1 : k \in I
                BY <2>2, <2>4, <4>1, NextAfterIs
            <4> HIDE DEF N
            <4>3. N <= Len(stream) + 1
                <5>1. CASE N - 1 \in n + 1 .. N - 1
                    <6>1. N - 1 \in I
                        BY <4>2, <5>1
                    <6>2. N - 1 \in 1 .. Len(stream)
                        BY <4>1, <6>1
                    <6> QED BY <1>1, <4>1, <4>2, <6>2
                <5>2. CASE ~(N - 1 \in n + 1 .. N - 1)
                    BY <1>1, <4>1, <4>2, <5>2
                <5> QED BY <5>1, <5>2
            <4> QED BY <4>3 DEF N
        <3> QED BY <3>1, <3>2 DEF Consumes, BookIsCurrent
    <2>5. CASE /\ LastOf(S).type = "SNAPSHOT_END" /\ JoinsUp(S, I)
               /\ Recovered(S, I)
        <3>1. /\ isInRecovery' = FALSE /\ snapshotQueued' = <<>>
              /\ nextExpIncSeqNum' = NextAfter(S, I) /\ book' = BookAfter(S, I)
            BY <2>5 DEF Recovered
        <3>2. /\ NextAfter(S, I) - 1 \in Nat /\ NextAfter(S, I) - 1 <= Len(stream)
              /\ BookAfter(S, I) = BookAt(NextAfter(S, I) - 1)
            BY <2>1, <2>2, <2>5, RecoversBook
        <3>3. book' = BookIn(stream', nextExpIncSeqNum' - 1)
            BY <3>1, <3>2, BookAtIs
        <3>4. BookIsCurrent'
            BY <3>3, BookAtIs DEF BookIsCurrent
        <3>5. Consumes'
            BY <1>1, <3>1, <3>2 DEF Consumes
        <3> QED BY <3>1, <3>4, <3>5
    <2> QED BY <1>3, <2>3, <2>4, <2>5, SyncOutcome
<1> QED BY <1>2, <1>3, SyncOutcome

-----------------------------------------------------------------------------
(* The steps.                                                              *)

LEMMA InitIInv == Init => IInv
<1> SUFFICES ASSUME Init PROVE IInv
    OBVIOUS
<1>1. TypeInv
    BY InitTypeInv
<1>2. DOMAIN stream = {} /\ Len(stream) = 0
    BY DEF Init
<1>3. StreamOrdered
    BY <1>2 DEF StreamOrdered
<1>4. Unmixed /\ Consumes
    BY <1>2 DEF Init, Unmixed, Consumes
<1>5. BookAt(0) = {}
    BY DEF BookAt
<1>6. nextExpIncSeqNum - 1 = 0 /\ book = {}
    BY DEF Init
<1> QED BY <1>1, <1>3, <1>4, <1>5, <1>6 DEF IInv, BookIsCurrent

\* What a recovery or its absence leaves alone: the queue of snapshots, the book
\* and the next number, while the stream may grow.
LEMMA PublishKeeps ==
    ASSUME IInv, NEW u \in Update, Publish(u),
           \/ u.type = "ADD" /\ u.order = Len(stream) + 1
           \/ u.type = "CANCEL" /\ u.order \in 1 .. Len(stream)
    PROVE  StreamOrdered' /\ Unmixed' /\ Consumes' /\ BookIsCurrent'
<1>1. /\ TypeInv /\ StreamOrdered /\ Unmixed /\ Consumes /\ BookIsCurrent
      /\ Len(stream) \in Nat /\ DOMAIN stream = 1 .. Len(stream)
      /\ cycle.last \in Nat /\ cycle.last <= Len(stream) /\ MaxUpdates \in Nat
    BY CycleIs DEF IInv
<1>2. /\ Len(stream') = Len(stream) + 1
      /\ DOMAIN stream' = DOMAIN stream \cup {Len(stream) + 1}
      /\ stream'[Len(stream) + 1] = u
      /\ \A n \in DOMAIN stream : stream'[n] = stream[n]
    BY <1>1, PublishIs
<1>3. /\ cycle' = cycle /\ snapshotLosses' = snapshotLosses
      /\ nextExpIncSeqNum' = nextExpIncSeqNum /\ isInRecovery' = isInRecovery
      /\ snapshotQueued' = snapshotQueued /\ book' = book
    BY DEF Publish, consumerVars
<1>4. StreamOrdered'
    <2>1. u.type = "ADD" => u.type # "CANCEL"
        OBVIOUS
    <2> QED BY <1>1, <1>2, <2>1 DEF StreamOrdered
<1>5. ASSUME NEW n \in Nat, n <= Len(stream)
      PROVE  BookIn(stream', n) = BookIn(stream, n)
    <2>1. \A k \in 1 .. n : stream'[k] = stream[k]
        BY <1>1, <1>2, <1>5
    <2> QED BY <2>1, BookOfPrefix
<1>6. Unmixed'
    <2>1. CASE snapshotQueued = <<>>
        BY <1>3, <2>1 DEF Unmixed
    <2>2. CASE snapshotQueued # <<>>
        <3>1. PICK n \in 0 .. MaxUpdates, j \in 0 .. MaxUpdates + 2 :
                  /\ n <= cycle.last
                  /\ PartOf(snapshotQueued, n, j)
                  /\ j < EndSeq(BookAt(n))
                  /\ \/ /\ n = cycle.last /\ j < cycle.sent
                        /\ cycle.sent = j + 1 \/ snapshotLosses > 0
                     \/ cycle.sent = 0 /\ snapshotLosses > 0
            BY <1>1, <2>2 DEF Unmixed
        <3>2. n \in Nat /\ n <= Len(stream)
            BY <1>1, <3>1
        <3>3. BookAt(n)' = BookAt(n)
            BY <1>5, <3>2 DEF BookAt, BookIn
        <3>4. PartOf(snapshotQueued, n, j)' /\ (j < EndSeq(BookAt(n)))'
            BY <1>3, <3>1, <3>3 DEF PartOf
        <3> QED BY <1>3, <3>1, <3>4 DEF Unmixed
    <2> QED BY <2>1, <2>2
<1>7. Consumes'
    <2>1. nextExpIncSeqNum \in Nat
        BY <1>1 DEF TypeInv, TypeOK
    <2> QED BY <1>1, <1>2, <1>3, <2>1 DEF Consumes
<1>8. BookIsCurrent'
    <2>1. nextExpIncSeqNum - 1 \in Nat /\ nextExpIncSeqNum - 1 <= Len(stream)
        BY <1>1 DEF TypeInv, TypeOK, Consumes
    <2>2. BookIn(stream', nextExpIncSeqNum' - 1)
              = BookIn(stream, nextExpIncSeqNum - 1)
        BY <1>3, <1>5, <2>1
    <2> QED BY <1>1, <1>3, <2>2, BookAtIs DEF BookIsCurrent
<1> QED BY <1>4, <1>6, <1>7, <1>8

\* Receiving the next snapshot message.
LEMMA RecvSnapshotKeeps ==
    ASSUME IInv, RecvSnapshot, TypeOK'
    PROVE  Unmixed' /\ Consumes' /\ BookIsCurrent'
<1> DEFINE L == cycle.last
           k == cycle.sent
           m == SnapshotMessage(L, BookAt(L), k)
           S == Queued(k, m)
<1>1. /\ TypeInv /\ StreamOrdered /\ Unmixed /\ Consumes
      /\ L \in 0 .. MaxUpdates /\ L \in Nat /\ L <= Len(stream) /\ k \in Nat
      /\ Size(BookAt(L)) \in 3 .. MaxUpdates + 3
      /\ EndSeq(BookAt(L)) = Size(BookAt(L)) - 1 /\ MaxUpdates \in Nat
    BY CycleIs DEF IInv
<1>2. /\ CheckSnapshotSync(S, incrementalQueued)
      /\ cycle' = [cycle EXCEPT !.sent = k + 1]
      /\ k < Size(BookAt(L))
      /\ stream' = stream /\ snapshotLosses' = snapshotLosses
    BY DEF RecvSnapshot, Sending
<1>3. cycle'.last = L /\ cycle'.sent = k + 1
    BY <1>1, <1>2 DEF TypeInv, TypeOK
<1>4. k <= EndSeq(BookAt(L)) /\ k \in 0 .. MaxUpdates + 2
    BY <1>1, <1>2
<1>5. incrementalQueued \in SUBSET DOMAIN stream
    BY <1>1 DEF TypeInv, TypeOK
<1> HIDE DEF m
<1>6. /\ k \in DOMAIN S /\ S[k] = m
      /\ DOMAIN S = IF k \in DOMAIN snapshotQueued
                    THEN {k} ELSE DOMAIN snapshotQueued \cup {k}
      /\ \A i \in DOMAIN S : i # k =>
             i \in DOMAIN snapshotQueued /\ S[i] = snapshotQueued[i]
    BY QueuedIs
<1> HIDE DEF S
<1>7. ASSUME DOMAIN S = {k}, Gapless(S)
      PROVE  PartOf(S, L, k)
    <2>1. Cardinality(DOMAIN S) = 1
        BY <1>7, FS_Singleton
    <2>2. k = 0
        BY <1>7, <2>1 DEF Gapless
    <2>3. DOMAIN S = 0 .. 0
        BY <1>7, <2>2
    <2> QED BY <1>4, <1>6, <2>2, <2>3 DEF PartOf, m
\* The queue begins the cycle being sent, as far as this message.
<1>8. Gapless(S) => PartOf(S, L, k)
    <2> SUFFICES ASSUME Gapless(S) PROVE PartOf(S, L, k)
        OBVIOUS
    <2>1. CASE snapshotQueued = <<>>
        <3>1. DOMAIN snapshotQueued = {}
            BY <2>1
        <3> QED BY <1>6, <1>7, <3>1
    <2>2. CASE snapshotQueued # <<>>
        <3>1. PICK n \in 0 .. MaxUpdates, j \in 0 .. MaxUpdates + 2 :
                  /\ PartOf(snapshotQueued, n, j)
                  /\ \/ n = L /\ j < k
                     \/ k = 0
            BY <1>1, <2>2 DEF Unmixed
        <3>2. DOMAIN snapshotQueued = 0 .. j
            BY <3>1 DEF PartOf
        <3>3. CASE k = 0
            <4>1. k \in DOMAIN snapshotQueued
                BY <3>2, <3>3
            <4> QED BY <1>6, <1>7, <4>1
        <3>4. CASE n = L /\ j < k
            <4>1. k \notin DOMAIN snapshotQueued
                BY <3>2, <3>4
            <4>2. DOMAIN S = (0 .. j) \cup {k}
                BY <1>6, <3>2, <4>1
            <4>3. DOMAIN S = 0 .. Cardinality(DOMAIN S) - 1
                BY DEF Gapless
            <4>4. k - 1 \in DOMAIN S
                <5>1. /\ IsFiniteSet(DOMAIN S)
                      /\ Cardinality(DOMAIN S) \in Nat
                    <6>1. 0 \in Int /\ j \in Int
                        OBVIOUS
                    <6>2. IsFiniteSet(0 .. j)
                        BY <6>1, FS_Interval
                    <6>3. IsFiniteSet(DOMAIN S)
                        <7>1. IsFiniteSet((0 .. j) \cup {k})
                            BY <6>2, FS_AddElement
                        <7> QED BY <4>2, <7>1
                    <6> QED BY <6>3, FS_CardinalityType
                <5>2. k - 1 \in Nat
                    BY <1>1, <3>4
                <5> QED BY <1>1, <1>6, <4>3, <5>1, <5>2
            <4>5. k - 1 \in 0 .. j
                BY <1>1, <4>2, <4>4
            <4>6. k = j + 1
                BY <1>1, <3>4, <4>5
            <4>7. DOMAIN S = 0 .. k
                BY <4>2, <4>6
            <4>8. ASSUME NEW i \in 0 .. k
                  PROVE  S[i] = SnapshotMessage(L, BookAt(L), i)
                <5>1. CASE i = k
                    BY <1>6, <5>1 DEF m
                <5>2. CASE i # k
                    <6>1. i \in 0 .. j /\ i \in DOMAIN S
                        BY <4>6, <4>7, <5>2
                    <6>2. S[i] = snapshotQueued[i]
                        BY <1>6, <5>2, <6>1
                    <6> QED BY <3>1, <3>4, <6>1, <6>2 DEF PartOf
                <5> QED BY <5>1, <5>2
            <4> QED BY <1>4, <4>7, <4>8 DEF PartOf
        <3> QED BY <3>1, <3>3, <3>4
    <2> QED BY <2>1, <2>2
<1>9. /\ Consumes' /\ BookIsCurrent'
      /\ \/ snapshotQueued' = <<>>
         \/ /\ snapshotQueued' = S
            /\ PartOf(S, L, k) /\ k < EndSeq(BookAt(L))
    BY <1>1, <1>2, <1>5, <1>8, SyncKeeps
<1>10. Unmixed'
    <2>1. CASE snapshotQueued' = <<>>
        BY <2>1 DEF Unmixed
    <2>2. CASE /\ snapshotQueued' = S
               /\ PartOf(S, L, k) /\ k < EndSeq(BookAt(L))
        <3> DEFINE T == snapshotQueued'
        <3>1. \A i : BookIn(stream', i) = BookIn(stream, i)
            BY <1>2
        <3>2. PICK n \in 0 .. MaxUpdates, j \in 0 .. MaxUpdates + 2 :
                  /\ n = L /\ j = k
            BY <1>1, <1>4
        <3>3. PartOf(S, n, j) /\ j < EndSeq(BookAt(n))
            BY <2>2, <3>2
        <3>4. BookAt(n)' = BookAt(n)
            BY <1>2 DEF BookAt
        <3>5. PartOf(snapshotQueued, n, j)' /\ (j < EndSeq(BookAt(n)))'
            BY <2>2, <3>3, <3>4 DEF PartOf
        <3>6. n <= cycle'.last /\ n = cycle'.last /\ j < cycle'.sent
              /\ cycle'.sent = j + 1
            <4> HIDE DEF L, k
            <4> QED BY <1>1, <1>3, <3>2
        <3> QED BY <3>5, <3>6 DEF Unmixed
    <2> QED BY <1>9, <2>1, <2>2
<1> QED BY <1>9, <1>10

\* Receiving an update.
LEMMA RecvIncrementalKeeps ==
    ASSUME IInv, NEW n \in Numbers, RecvIncremental(n), TypeOK'
    PROVE  Unmixed' /\ Consumes' /\ BookIsCurrent'
<1>1. /\ TypeInv /\ StreamOrdered /\ Unmixed /\ Consumes /\ BookIsCurrent
      /\ Len(stream) \in Nat /\ DOMAIN stream = 1 .. Len(stream)
      /\ cycle.last \in Nat /\ cycle.last <= Len(stream) /\ MaxUpdates \in Nat
    BY CycleIs DEF IInv
<1>2. /\ stream' = stream /\ cycle' = cycle /\ snapshotLosses' = snapshotLosses
      /\ n \in DOMAIN stream
    BY <1>1 DEF RecvIncremental, TypeInv, TypeOK
<1>3. CASE InOrder(n) /\ n = nextExpIncSeqNum /\ ~isInRecovery
    <2>1. n \in Nat /\ n <= Len(stream)
        BY <1>1, <1>2
    <2>2. /\ nextExpIncSeqNum' = n + 1 /\ isInRecovery' = isInRecovery
          /\ snapshotQueued' = snapshotQueued /\ snapshotQueued = <<>>
          /\ book' = IF stream[n].type = "ADD"
                     THEN book \cup {stream[n].order}
                     ELSE book \ {stream[n].order}
        BY <1>1, <1>3 DEF InOrder, Consumes
    <2>3. book = BookAt(n - 1)
        BY <1>1, <1>3 DEF BookIsCurrent
    <2>4. book' = BookAt(n)
        BY <1>1, <1>2, <2>2, <2>3, BookNext
    <2>5. nextExpIncSeqNum' - 1 = n
        BY <2>1, <2>2
    <2>6. BookIsCurrent'
        BY <1>2, <2>4, <2>5, BookAtIs DEF BookIsCurrent
    <2> QED BY <1>1, <2>1, <1>2, <2>2, <2>6 DEF Consumes, Unmixed
<1>4. CASE ~isInRecovery /\ n # nextExpIncSeqNum
    <2>1. CheckSnapshotSync(<<>>, {n}) /\ {n} \in SUBSET DOMAIN stream
        BY <1>2, <1>4 DEF RecvIncremental, StartSnapshotSync
    <2>2. /\ Consumes' /\ BookIsCurrent'
          /\ snapshotQueued' = <<>>
        <3>1. 0 \in Nat /\ 0 <= Len(stream)
            BY <1>1
        <3> QED BY <1>1, <1>2, <2>1, <3>1, SyncKeeps
    <2> QED BY <2>2 DEF Unmixed
<1>5. CASE isInRecovery
    <2> DEFINE I == incrementalQueued \cup {n}
    <2>1. CheckSnapshotSync(snapshotQueued, I) /\ I \in SUBSET DOMAIN stream
        BY <1>1, <1>2, <1>5 DEF RecvIncremental, TypeInv, TypeOK
    <2> HIDE DEF I
    <2>2. CASE snapshotQueued = <<>>
        <3>1. 0 \in Nat /\ 0 <= Len(stream)
            BY <1>1
        <3>2. /\ Consumes' /\ BookIsCurrent'
              /\ snapshotQueued' = <<>>
            BY <1>1, <1>2, <2>1, <2>2, <3>1, SyncKeeps
        <3> QED BY <3>2 DEF Unmixed
    <2>3. CASE snapshotQueued # <<>>
        <3>1. PICK i \in 0 .. MaxUpdates, j \in 0 .. MaxUpdates + 2 :
                  /\ i <= cycle.last
                  /\ PartOf(snapshotQueued, i, j)
                  /\ j < EndSeq(BookAt(i))
                  /\ \/ /\ i = cycle.last /\ j < cycle.sent
                        /\ cycle.sent = j + 1 \/ snapshotLosses > 0
                     \/ cycle.sent = 0 /\ snapshotLosses > 0
            BY <1>1, <2>3 DEF Unmixed
        <3>2. i \in Nat /\ j \in Nat /\ i <= Len(stream)
            BY <1>1, <3>1
        <3>3. /\ Consumes' /\ BookIsCurrent'
              /\ snapshotQueued' = <<>> \/ snapshotQueued' = snapshotQueued
            BY <1>1, <1>2, <2>1, <3>1, <3>2, SyncKeeps
        <3>4. BookAt(i)' = BookAt(i)
            BY <1>2 DEF BookAt
        <3>5. snapshotQueued' = snapshotQueued =>
                  PartOf(snapshotQueued, i, j)' /\ (j < EndSeq(BookAt(i)))'
            BY <3>1, <3>4 DEF PartOf
        <3> QED BY <1>2, <3>1, <3>3, <3>5 DEF Unmixed
    <2> QED BY <2>2, <2>3
<1> QED BY <1>3, <1>4, <1>5 DEF RecvIncremental

\* A step that is not a loss of the kind that mixes two cycles keeps the invariant.
LEMMA StepIInv ==
    ASSUME IInv, [Next]_vars, ~LosesStart \/ MaxSnapshotLosses <= 1
    PROVE  IInv'
<1>1. /\ TypeInv /\ StreamOrdered /\ Unmixed /\ Consumes /\ BookIsCurrent
      /\ cycle.last \in Nat /\ cycle.sent \in Nat /\ cycle.last <= Len(stream)
      /\ Size(BookAt(cycle.last)) \in 3 .. MaxUpdates + 3
      /\ EndSeq(BookAt(cycle.last)) = Size(BookAt(cycle.last)) - 1
      /\ MaxUpdates \in Nat /\ snapshotLosses \in Nat
    <2>1. TypeInv /\ StreamOrdered /\ Unmixed /\ Consumes /\ BookIsCurrent
        BY DEF IInv
    <2>2. snapshotLosses \in 0 .. MaxSnapshotLosses
        BY <2>1 DEF TypeInv, TypeOK
    <2>3. snapshotLosses \in Nat
        BY <2>2, BoundsAssumption
    <2> QED BY <2>1, <2>3, CycleIs
<1>2. TypeInv' /\ TypeOK'
    BY <1>1, StepTypeInv DEF TypeInv
<1>3. CASE Exchange
    BY <1>1, <1>2, <1>3, ExchangeIs, PublishKeeps DEF IInv
\* Nothing else writes to the stream, and most of it not to the book either.
<1>4. ASSUME stream' = stream
      PROVE  StreamOrdered' /\ \A n : BookAt(n)' = BookAt(n)
    BY <1>1, <1>4 DEF StreamOrdered, BookAt
<1>5. ASSUME stream' = stream, UNCHANGED consumerVars
      PROVE  Consumes' /\ BookIsCurrent'
    BY <1>1, <1>5 DEF consumerVars, Consumes, BookIsCurrent, BookAt
<1>6. ASSUME stream' = stream, UNCHANGED consumerVars,
             snapshotQueued # <<>> =>
                 \A n \in 0 .. MaxUpdates, j \in 0 .. MaxUpdates + 2 :
                     /\ n <= cycle.last
                     /\ j < EndSeq(BookAt(n))
                     /\ \/ /\ n = cycle.last /\ j < cycle.sent
                           /\ cycle.sent = j + 1 \/ snapshotLosses > 0
                        \/ cycle.sent = 0 /\ snapshotLosses > 0
                     => /\ n <= cycle'.last
                        /\ \/ /\ n = cycle'.last /\ j < cycle'.sent
                              /\ cycle'.sent = j + 1 \/ snapshotLosses' > 0
                           \/ cycle'.sent = 0 /\ snapshotLosses' > 0
      PROVE  IInv'
    <2>1. snapshotQueued' = snapshotQueued
        BY <1>6 DEF consumerVars
    <2>2. CASE snapshotQueued = <<>>
        <3>1. Unmixed'
            BY <2>1, <2>2 DEF Unmixed
        <3> QED BY <1>2, <1>4, <1>5, <1>6, <3>1 DEF IInv
    <2>3. CASE snapshotQueued # <<>>
        <3>1. PICK n \in 0 .. MaxUpdates, j \in 0 .. MaxUpdates + 2 :
                  /\ n <= cycle.last
                  /\ PartOf(snapshotQueued, n, j)
                  /\ j < EndSeq(BookAt(n))
                  /\ \/ /\ n = cycle.last /\ j < cycle.sent
                        /\ cycle.sent = j + 1 \/ snapshotLosses > 0
                     \/ cycle.sent = 0 /\ snapshotLosses > 0
            BY <1>1, <2>3 DEF Unmixed
        <3>2. BookAt(n)' = BookAt(n)
            BY <1>6 DEF BookAt
        <3>3. PartOf(snapshotQueued, n, j)' /\ (j < EndSeq(BookAt(n)))'
            BY <2>1, <3>1, <3>2 DEF PartOf
        <3>4. /\ n <= cycle'.last
              /\ \/ /\ n = cycle'.last /\ j < cycle'.sent
                    /\ cycle'.sent = j + 1 \/ snapshotLosses' > 0
                 \/ cycle'.sent = 0 /\ snapshotLosses' > 0
            BY <1>6, <2>3, <3>1
        <3>5. Unmixed'
            BY <3>3, <3>4 DEF Unmixed
        <3> QED BY <1>2, <1>4, <1>5, <1>6, <3>5 DEF IInv
    <2> QED BY <2>2, <2>3
\* A cycle begins after the last one, whose END the queue does not have: it, or
\* what came before it, was lost.
<1>7. ASSUME NEW i \in 0 .. MaxUpdates, StartCycle(i)
      PROVE  IInv'
    <2>1. /\ stream' = stream /\ UNCHANGED consumerVars
          /\ snapshotLosses' = snapshotLosses
          /\ cycle'.last = i /\ cycle'.sent = 0 /\ cycle.last <= i
          /\ cycle.sent = EndSeq(BookAt(cycle.last)) + 1
          /\ cycle.sent # 0
        BY <1>1, <1>7 DEF StartCycle
    <2>2. ASSUME NEW n \in 0 .. MaxUpdates, NEW j \in 0 .. MaxUpdates + 2,
                 n <= cycle.last, j < EndSeq(BookAt(n)),
                 \/ /\ n = cycle.last /\ j < cycle.sent
                    /\ cycle.sent = j + 1 \/ snapshotLosses > 0
                 \/ cycle.sent = 0 /\ snapshotLosses > 0
          PROVE  n <= cycle'.last /\ cycle'.sent = 0 /\ snapshotLosses' > 0
        <3>1. n <= i
            BY <1>1, <2>1, <2>2
        <3>2. snapshotLosses > 0
            BY <1>1, <2>1, <2>2
        <3> QED BY <2>1, <3>1, <3>2
    <2> QED BY <1>6, <2>1, <2>2
<1>8. ASSUME NEW i \in Numbers, LoseIncremental(i)
      PROVE  IInv'
    <2>1. /\ stream' = stream /\ UNCHANGED consumerVars /\ cycle' = cycle
          /\ snapshotLosses' = snapshotLosses
        BY <1>8 DEF LoseIncremental
    <2> QED BY <1>6, <2>1
<1>9. CASE LoseSnapshot
    <2>1. /\ stream' = stream /\ UNCHANGED consumerVars
          /\ snapshotLosses' = snapshotLosses + 1
          /\ snapshotLosses < MaxSnapshotLosses
          /\ cycle'.last = cycle.last
          /\ cycle'.sent = NextDatagram(cycle.sent)
          /\ cycle.sent < Size(BookAt(cycle.last))
        BY <1>1, <1>9 DEF LoseSnapshot, Sending, TypeInv, TypeOK
    <2>2. cycle'.sent \in Nat /\ cycle.sent < cycle'.sent
        BY <1>1, <2>1, NextDatagramIs
    <2>3. snapshotQueued # <<>> => cycle.sent # 0 \/ snapshotLosses = 0
        BY <1>1, <1>9, <2>1, BoundsAssumption DEF LosesStart
    <2>4. ASSUME snapshotQueued # <<>>,
                 NEW n \in 0 .. MaxUpdates, NEW j \in 0 .. MaxUpdates + 2,
                 n <= cycle.last,
                 \/ n = cycle.last /\ j < cycle.sent
                 \/ cycle.sent = 0 /\ snapshotLosses > 0
          PROVE  /\ n <= cycle'.last /\ n = cycle'.last /\ j < cycle'.sent
                 /\ snapshotLosses' > 0
        BY <1>1, <2>1, <2>2, <2>3, <2>4
    <2> QED BY <1>6, <2>1, <2>4
<1>10. CASE PassSnapshot
    <2>1. stream' = stream /\ UNCHANGED consumerVars /\ snapshotQueued = <<>>
        BY <1>1, <1>10 DEF PassSnapshot, Consumes
    <2> QED BY <1>6, <2>1
<1>11. CASE RecvSnapshot
    <2>1. stream' = stream
        BY <1>11 DEF RecvSnapshot
    <2> QED BY <1>2, <1>4, <1>11, <2>1, RecvSnapshotKeeps DEF IInv
<1>12. ASSUME NEW n \in Numbers, RecvIncremental(n)
       PROVE  IInv'
    <2>1. stream' = stream
        BY <1>12 DEF RecvIncremental
    <2> QED BY <1>2, <1>4, <1>12, <2>1, RecvIncrementalKeeps DEF IInv
<1>13. CASE UNCHANGED vars
    <2>1. /\ stream' = stream /\ UNCHANGED consumerVars /\ cycle' = cycle
          /\ snapshotLosses' = snapshotLosses
        BY <1>13 DEF vars, networkVars
    <2> QED BY <1>6, <2>1
<1> QED BY <1>3, <1>7, <1>8, <1>9, <1>10, <1>11, <1>12, <1>13 DEF Next, Receive

-----------------------------------------------------------------------------
(* The theorems.                                                           *)

\* The trade engine's book is right whenever the consumer is in step, whatever is
\* lost and overtaken on the incremental stream and whatever is lost of the
\* snapshots, as long as no datagram with START is lost while messages of an
\* earlier cycle are queued.  Without that it is not: queueMessage tells cycles
\* apart by a number that comes twice, and by nothing else.
THEOREM CurrentUnlessMixed == Spec /\ [][~LosesStart]_vars => []BookIsCurrent
<1>1. IInv /\ [Next]_vars /\ [~LosesStart]_vars => IInv'
    <2> SUFFICES ASSUME IInv, [Next]_vars, [~LosesStart]_vars PROVE IInv'
        OBVIOUS
    <2>1. LosesStart => vars' # vars
        <3> SUFFICES ASSUME LosesStart, vars' = vars PROVE FALSE
            OBVIOUS
        <3>1. snapshotLosses' = snapshotLosses + 1 /\ snapshotLosses' = snapshotLosses
            BY DEF LosesStart, LoseSnapshot, vars, networkVars
        <3>2. snapshotLosses \in Nat
            BY BoundsAssumption DEF IInv, TypeInv, TypeOK
        <3> QED BY <3>1, <3>2
    <2> QED BY <2>1, StepIInv
<1>2. IInv => BookIsCurrent
    BY DEF IInv
<1> QED BY <1>1, <1>2, InitIInv, PTL DEF Spec

\* A single loss on the snapshot stream cannot mix two cycles.
THEOREM CurrentAfterOneLoss ==
    MaxSnapshotLosses <= 1 => (Spec => []BookIsCurrent)
<1> SUFFICES ASSUME MaxSnapshotLosses <= 1 PROVE Spec => []BookIsCurrent
    OBVIOUS
<1>1. IInv /\ [Next]_vars => IInv'
    BY StepIInv
<1>2. IInv => BookIsCurrent
    BY DEF IInv
<1> QED BY <1>1, <1>2, InitIInv, PTL DEF Spec
=============================================================================
