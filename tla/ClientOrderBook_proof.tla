------------------------ MODULE ClientOrderBook_proof ------------------------
(***************************************************************************)
(* A client's copy of the book is what the updates say, and the pools and  *)
(* the best bid and offer go with it: for pools and tables of any size,    *)
(* and any number of updates, as long as no CLEAR meets an order.          *)
(***************************************************************************)
EXTENDS ClientOrderBook, SequenceTheorems, WellFoundedInduction, TLAPS

\* No two prices in use share a place in the table of levels.
PriceWindow == \A p, q \in Prices : PriceToIndex(p) = PriceToIndex(q) => p = q

-----------------------------------------------------------------------------
(* The inductive invariant.                                                *)

HasOrder(b) == orderAt[b] # None
HasLevel(l) == levelAt[l] # None

\* The table of orders, the blocks that hold one, and the orders that the updates
\* speak of are the same, and no id is there twice.
OrdersKnown ==
    /\ \A oid \in Oids :
           LET b == oidToOrder[oid]
           IN  b # Null => HasOrder(b) /\ orderAt[b].oid = oid
    /\ \A b \in Blocks(OrderBlocks) :
           HasOrder(b) => /\ oidToOrder[orderAt[b].oid] = b
                          /\ \E i \in DOMAIN live : live[i] = orderAt[b]
    /\ \A i \in DOMAIN live :
           LET b == oidToOrder[live[i].oid]
           IN  b # Null /\ orderAt[b] = live[i]
    /\ \A i, j \in DOMAIN live : live[i].oid = live[j].oid => i = j

\* No price is bid and asked.
OneSideAPrice ==
    \A i, j \in DOMAIN live : live[i].price = live[j].price => live[i].side = live[j].side

\* The blocks that hold a level, the two lists of levels, and the table of levels
\* are the same, and the lists are sorted.
LevelsKnown ==
    /\ \A l \in Blocks(LevelBlocks) :
           HasLevel(l) => /\ \E i \in DOMAIN sideLevels[levelAt[l].side] :
                                 sideLevels[levelAt[l].side][i] = l
                          /\ atPrice[PriceToIndex(levelAt[l].price)] = l
    /\ \A s \in Sides : \A i \in DOMAIN sideLevels[s] :
           HasLevel(sideLevels[s][i]) /\ levelAt[sideLevels[s][i]].side = s
    /\ \A k \in 0 .. PriceLevels - 1 :
           atPrice[k] # Null =>
               HasLevel(atPrice[k]) /\ PriceToIndex(levelAt[atPrice[k]].price) = k
    /\ \A s \in Sides : \A i, j \in DOMAIN sideLevels[s] :
           i < j => Better(s, levelAt[sideLevels[s][i]].price, levelAt[sideLevels[s][j]].price)

\* The order of id x arrived before the one of id y.
Earlier(x, y) == \A m, n \in DOMAIN live : live[m].oid = x /\ live[n].oid = y => m < n

\* A level's queue has orders of its side and price, as they arrived.
QueueKnown(l) ==
    LET queue == levelAt[l].queue
    IN  /\ queue # <<>>
        /\ \A i \in DOMAIN queue :
               /\ HasOrder(queue[i])
               /\ orderAt[queue[i]].side = levelAt[l].side
               /\ orderAt[queue[i]].price = levelAt[l].price
        /\ \A i, j \in DOMAIN queue :
               i < j => Earlier(orderAt[queue[i]].oid, orderAt[queue[j]].oid)

\* The order in block b is in the queue of the level at its price.
IsQueued(b) ==
    LET l == atPrice[PriceToIndex(orderAt[b].price)]
    IN  /\ l # Null
        /\ \E i \in DOMAIN levelAt[l].queue : levelAt[l].queue[i] = b

QueuesKnown ==
    /\ \A l \in Blocks(LevelBlocks) : HasLevel(l) => QueueKnown(l)
    /\ \A b \in Blocks(OrderBlocks) : HasOrder(b) => IsQueued(b)

\* What is free holds nothing, and there is something to hand out next.
OrderPoolKnown ==
    /\ \A b \in Blocks(OrderBlocks) : b \in orderPool.free <=> ~HasOrder(b)
    /\ orderPool.next \in orderPool.free

LevelPoolKnown ==
    /\ \A l \in Blocks(LevelBlocks) : l \in levelPool.free <=> ~HasLevel(l)
    /\ levelPool.next \in levelPool.free

BookInv == OrdersKnown /\ OneSideAPrice /\ LevelsKnown /\ QueuesKnown
PoolInv == OrderPoolKnown /\ LevelPoolKnown
IInv    == TypeOK /\ BookInv /\ PoolInv /\ BBOIsTopOrAbsent

-----------------------------------------------------------------------------
(* Sequences, numbers and pools.                                           *)

\* A set of numbers that is not empty has a least one.
LEMMA LeastNumber ==
    ASSUME NEW T \in SUBSET Nat, T # {}
    PROVE  \E x \in T : \A y \in T : x <= y
<1> DEFINE R == {s \in Nat \X Nat : s[1] < s[2]}
<1>1. IsWellFoundedOn(R, Nat)
    BY NatLessThanWellFounded DEF OpToRel
<1> HIDE DEF R
<1>2. PICK x \in T : \A y \in T : ~(<<y, x>> \in R)
    BY <1>1, WFMin
<1>3. ASSUME NEW y \in T PROVE x <= y
    <2>1. y \in Nat /\ x \in Nat
        OBVIOUS
    <2>2. ~(y < x)
        BY <1>2, <2>1 DEF R
    <2> QED BY <2>1, <2>2
<1> QED BY <1>3

\* A sequence from which one place was taken.
LEMMA Removal ==
    ASSUME NEW S, NEW s \in Seq(S), NEW i \in DOMAIN s
    PROVE  LET r == RemoveAt(s, i)
           IN  /\ r \in Seq(S) /\ Len(r) = Len(s) - 1 /\ DOMAIN r = 1 .. Len(s) - 1
               /\ \A k \in 1 .. Len(s) - 1 : r[k] = s[IF k < i THEN k ELSE k + 1]
<1> DEFINE n == Len(s)
           a == SubSeq(s, 1, i - 1)
           b == SubSeq(s, i + 1, n)
<1>1. n \in Nat /\ DOMAIN s = 1 .. n /\ i \in 1 .. n
    BY LenProperties
<1>2. \A k \in 1 .. n : s[k] \in S
    BY ElementOfSeq
<1> HIDE DEF n
<1>3. a \in Seq(S) /\ Len(a) = i - 1 /\ \A k \in 1 .. i - 1 : a[k] = s[k]
    BY <1>1, <1>2, SubSeqProperties DEF n
<1>4. b \in Seq(S) /\ Len(b) = n - i /\ \A k \in 1 .. n - i : b[k] = s[i + k]
    BY <1>1, <1>2, SubSeqProperties DEF n
<1> DEFINE r == a \o b
<1>5. RemoveAt(s, i) = r
    BY DEF RemoveAt, n
<1> HIDE DEF a, b
<1>6. /\ r \in Seq(S) /\ Len(r) = Len(a) + Len(b)
      /\ \A k \in 1 .. Len(a) + Len(b) : r[k] = IF k <= Len(a) THEN a[k] ELSE b[k - Len(a)]
    BY <1>3, <1>4, ConcatProperties
<1>7. DOMAIN r = 1 .. Len(r)
    BY <1>6, LenProperties
<1> HIDE DEF r
<1>8. Len(a) + Len(b) = n - 1
    BY <1>1, <1>3, <1>4
<1>9. ASSUME NEW k \in 1 .. n - 1 PROVE r[k] = s[IF k < i THEN k ELSE k + 1]
    <2>1. CASE k < i
        <3>1. k \in 1 .. i - 1 /\ k <= i - 1
            BY <1>1, <2>1
        <3> QED BY <1>3, <1>6, <1>8, <2>1, <3>1
    <2>2. CASE ~(k < i)
        <3>1. k - (i - 1) \in 1 .. n - i /\ i + (k - (i - 1)) = k + 1 /\ ~(k <= i - 1)
            BY <1>1, <2>2
        <3>2. r[k] = b[k - (i - 1)]
            BY <1>3, <1>6, <1>8, <3>1
        <3>3. b[k - (i - 1)] = s[k + 1]
            BY <1>4, <3>1
        <3> QED BY <2>2, <3>2, <3>3
    <2> QED BY <2>1, <2>2
<1> QED BY <1>5, <1>6, <1>7, <1>8, <1>9 DEF n

\* A sequence into which one element was put.
PutAt(S, s, i, e, r) ==
    /\ r \in Seq(S) /\ Len(r) = Len(s) + 1 /\ DOMAIN r = 1 .. Len(s) + 1
    /\ r[i] = e
    /\ \A k \in 1 .. Len(s) : r[IF k < i THEN k ELSE k + 1] = s[k]

\* InsertAt puts the element there.
LEMMA Insertion ==
    ASSUME NEW S, NEW s \in Seq(S), NEW i \in 1 .. Len(s) + 1, NEW e \in S
    PROVE  PutAt(S, s, i, e, InsertAt(s, i, e))
<1> DEFINE n == Len(s)
           a == SubSeq(s, 1, i - 1)
           c == <<e>>
           b == SubSeq(s, i, n)
<1>1. n \in Nat /\ DOMAIN s = 1 .. n /\ i \in 1 .. n + 1
    BY LenProperties
<1>2. \A k \in 1 .. n : s[k] \in S
    BY ElementOfSeq
<1> HIDE DEF n
<1>3. a \in Seq(S) /\ Len(a) = i - 1 /\ \A k \in 1 .. i - 1 : a[k] = s[k]
    BY <1>1, <1>2, SubSeqProperties DEF n
<1>4. b \in Seq(S) /\ Len(b) = n - i + 1 /\ \A k \in 1 .. n - i + 1 : b[k] = s[i + k - 1]
    BY <1>1, <1>2, SubSeqProperties DEF n
<1>5. c \in Seq(S) /\ Len(c) = 1 /\ c[1] = e
    OBVIOUS
<1> DEFINE d == a \o c
           r == d \o b
<1>6. InsertAt(s, i, e) = r
    BY DEF InsertAt, n
<1> HIDE DEF a, b, c
<1>7. /\ d \in Seq(S) /\ Len(d) = Len(a) + Len(c)
      /\ \A k \in 1 .. Len(a) + Len(c) : d[k] = IF k <= Len(a) THEN a[k] ELSE c[k - Len(a)]
    BY <1>3, <1>5, ConcatProperties
<1> HIDE DEF d
<1>8. /\ r \in Seq(S) /\ Len(r) = Len(d) + Len(b)
      /\ \A k \in 1 .. Len(d) + Len(b) : r[k] = IF k <= Len(d) THEN d[k] ELSE b[k - Len(d)]
    <2>1. d \in Seq(S) /\ b \in Seq(S)
        BY <1>4, <1>7
    <2> QED BY <2>1, ConcatProperties
<1>9. DOMAIN r = 1 .. Len(r)
    BY <1>8, LenProperties
<1> HIDE DEF r
<1>10. Len(a) = i - 1 /\ Len(c) = 1 /\ Len(d) = i /\ Len(d) + Len(b) = n + 1
    BY <1>1, <1>3, <1>4, <1>5, <1>7
<1>11. r[i] = e
    <2>1. i \in 1 .. i /\ ~(i <= i - 1) /\ i - (i - 1) = 1 /\ i \in 1 .. n + 1 /\ i <= i
          /\ (i - 1) + 1 = i
        BY <1>1
    <2>2. d[i] = c[1]
        BY <1>7, <1>10, <2>1
    <2> QED BY <1>5, <1>8, <1>10, <2>1, <2>2
<1>12. ASSUME NEW k \in 1 .. n PROVE r[IF k < i THEN k ELSE k + 1] = s[k]
    <2>1. CASE k < i
        <3>1. k \in 1 .. n + 1 /\ k \in 1 .. i - 1 /\ k <= i /\ k <= i - 1 /\ k \in 1 .. (i - 1) + 1
            BY <1>1, <2>1
        <3>2. r[k] = d[k] /\ d[k] = a[k]
            BY <1>7, <1>8, <1>10, <3>1
        <3> QED BY <1>3, <2>1, <3>1, <3>2
    <2>2. CASE ~(k < i)
        <3>1. /\ k + 1 \in 1 .. n + 1 /\ ~(k + 1 <= i)
              /\ (k + 1) - i \in 1 .. n - i + 1 /\ i + ((k + 1) - i) - 1 = k
            BY <1>1, <2>2
        <3>2. r[k + 1] = b[(k + 1) - i]
            BY <1>8, <1>10, <3>1
        <3>3. b[(k + 1) - i] = s[k]
            BY <1>4, <3>1
        <3> QED BY <2>2, <3>2, <3>3
    <2> QED BY <2>1, <2>2
<1> QED BY <1>6, <1>8, <1>9, <1>10, <1>11, <1>12 DEF n, PutAt

\* What is there has a place.
LEMMA PlaceIs ==
    ASSUME NEW seq, NEW x, \E k \in DOMAIN seq : seq[k] = x
    PROVE  PlaceOf(x, seq) \in DOMAIN seq /\ seq[PlaceOf(x, seq)] = x
BY DEF PlaceOf

\* Numbers that go round.
LEMMA ModFacts ==
    ASSUME NEW n \in Nat \ {0}
    PROVE  /\ \A x \in Int : x % n \in 0 .. n - 1
           /\ \A x \in 0 .. n - 1 : x % n = x /\ (x + n) % n = x
OBVIOUS

\* The search for a free block finds one if there is one.
LEMMA NextFreeIsFree ==
    ASSUME NEW size \in Nat \ {0}, NEW p, IsPool(p, size), p.free # {}
    PROVE  NextFree(p) \in p.free
<1> DEFINE at(k) == (p.next + k) % size
           T == {k \in Blocks(size) : at(k) \in p.free}
           Found(k) == at(k) \in p.free /\ \A j \in 0 .. k - 1 : at(j) \notin p.free
<1>1. p.size = size /\ p.free \subseteq Blocks(size) /\ p.next \in Blocks(size)
    BY DEF IsPool
<1>2. T # {}
    <2>1. PICK f \in p.free : TRUE
        OBVIOUS
    <2>2. f \in 0 .. size - 1 /\ p.next \in 0 .. size - 1
        BY <1>1 DEF Blocks
    <2>3. CASE f >= p.next
        <3>1. f - p.next \in Blocks(size) /\ p.next + (f - p.next) = f
            BY <2>2, <2>3 DEF Blocks
        <3>2. at(f - p.next) = f
            BY <2>2, <3>1, ModFacts
        <3> QED BY <3>1, <3>2
    <2>4. CASE ~(f >= p.next)
        <3>1. (f - p.next) + size \in Blocks(size) /\ p.next + ((f - p.next) + size) = f + size
            BY <2>2, <2>4 DEF Blocks
        <3>2. at((f - p.next) + size) = f
            BY <2>2, <3>1, ModFacts
        <3> QED BY <3>1, <3>2
    <2> QED BY <2>3, <2>4
<1>3. PICK k \in T : \A j \in T : k <= j
    <2>1. T \in SUBSET Nat
        BY DEF Blocks
    <2> HIDE DEF T
    <2> QED BY <1>2, <2>1, LeastNumber
<1>4. k \in Blocks(size) /\ Found(k)
    <2>1. k \in 0 .. size - 1 /\ at(k) \in p.free
        BY DEF Blocks
    <2>2. ASSUME NEW j \in 0 .. k - 1 PROVE at(j) \notin p.free
        <3>1. j \in Blocks(size) /\ ~(k <= j)
            BY <2>1 DEF Blocks
        <3>2. j \notin T
            BY <1>3, <3>1
        <3> QED BY <3>1, <3>2
    <2> QED BY <2>1, <2>2
<1>5. NextFree(p) = at(CHOOSE i \in Blocks(size) : Found(i))
    BY <1>1 DEF NextFree
<1> HIDE DEF at
<1>6. Found(CHOOSE i \in Blocks(size) : Found(i))
    <2> HIDE DEF Found
    <2> QED BY <1>4
<1> QED BY <1>5, <1>6

\* A block that is handed out is free no more, and there is a next one.
LEMMA Allocation ==
    ASSUME NEW size \in Nat \ {0}, NEW p, IsPool(p, size), CanAllocate(p)
    PROVE  /\ IsPool(Allocate(p), size)
           /\ Allocate(p).free = p.free \ {p.next}
           /\ Allocate(p).next \in Allocate(p).free
<1> DEFINE taken == [p EXCEPT !.free = @ \ {p.next}]
<1>1. /\ taken.size = size /\ taken.next = p.next /\ taken.free = p.free \ {p.next}
      /\ IsPool(taken, size)
    BY DEF IsPool
<1>2. taken.free # {}
    BY <1>1 DEF CanAllocate
<1>3. Allocate(p) = [taken EXCEPT !.next = NextFree(taken)]
    BY DEF Allocate
<1> HIDE DEF taken
<1>4. NextFree(taken) \in taken.free
    BY <1>1, <1>2, NextFreeIsFree
<1> QED BY <1>1, <1>3, <1>4 DEF IsPool

LEMMA Deallocation ==
    ASSUME NEW size, NEW p, IsPool(p, size), NEW bs \in SUBSET Blocks(size)
    PROVE  /\ IsPool(Deallocate(p, bs), size)
           /\ Deallocate(p, bs).free = p.free \cup bs
           /\ Deallocate(p, bs).next = p.next
BY DEF IsPool, Deallocate

\* What the constants give.
LEMMA Basics ==
    /\ \A n \in Nat : Null \notin Blocks(n)
    /\ \A p \in Prices : p \in Nat /\ PriceToIndex(p) \in 0 .. PriceLevels - 1
    /\ \A o \in Order : o # None
    /\ \A l \in Level : l # None
<1>1. \A n \in Nat : Null \notin Blocks(n)
    BY DEF Null, Blocks
<1>2. ASSUME NEW p \in Prices PROVE p \in Nat /\ PriceToIndex(p) \in 0 .. PriceLevels - 1
    BY PricesAssumption, ModFacts DEF PriceToIndex
<1>3. None.price = -1 /\ \A p \in Prices : p # -1
    BY PricesAssumption DEF None, Null
<1> QED BY <1>1, <1>2, <1>3 DEF Order, Level

\* f adds up what comes before each place, up to n.
Sums(orders, f, n) ==
    /\ f \in [0 .. n -> Nat]
    /\ \A i \in 0 .. n : f[i] = IF i = 0 THEN 0 ELSE f[i - 1] + orders[i].qty

LEMMA QtysAreNat ==
    ASSUME NEW orders \in Seq(Order)
    PROVE  \A i \in 1 .. Len(orders) : orders[i].qty \in Nat
<1> SUFFICES ASSUME NEW i \in 1 .. Len(orders) PROVE orders[i].qty \in Nat
    OBVIOUS
<1>1. orders[i] \in Order
    BY ElementOfSeq
<1> QED BY <1>1, QtysAssumption DEF Order

LEMMA SumsExist ==
    ASSUME NEW orders \in Seq(Order), NEW n \in 0 .. Len(orders)
    PROVE  \E f : Sums(orders, f, n)
<1> DEFINE P(k) == \E f : Sums(orders, f, k)
           T == {k \in 0 .. n : ~P(k)}
<1>1. Len(orders) \in Nat /\ \A i \in 1 .. Len(orders) : orders[i].qty \in Nat
    BY LenProperties, QtysAreNat
<1>2. T \in SUBSET Nat /\ n \in 0 .. n
    BY <1>1
<1> SUFFICES ASSUME ~P(n) PROVE FALSE
    BY Zenon
<1> HIDE DEF P
<1>0. T # {}
    BY <1>2
<1>3. PICK k \in T : \A j \in T : k <= j
    <2> HIDE DEF T
    <2> QED BY <1>0, <1>2, LeastNumber
<1>4. k \in 0 .. n /\ ~P(k)
    OBVIOUS
<1>5. CASE k = 0
    <2> DEFINE f == [i \in 0 .. 0 |-> 0]
    <2>1. Sums(orders, f, 0)
        BY DEF Sums
    <2> QED BY <1>4, <1>5, <2>1 DEF P
<1>6. CASE k # 0
    <2>1. k - 1 \in 0 .. n /\ k \in 1 .. Len(orders) /\ k \in Nat /\ ~(k <= k - 1)
        BY <1>1, <1>4, <1>6
    <2>2. P(k - 1)
        BY <1>3, <2>1
    <2>3. PICK g : Sums(orders, g, k - 1)
        BY <2>2 DEF P
    <2> DEFINE f == [i \in 0 .. k |-> IF i = k THEN g[k - 1] + orders[k].qty ELSE g[i]]
    <2>4. /\ \A i \in 0 .. k - 1 : g[i] \in Nat
          /\ \A i \in 0 .. k - 1 : g[i] = IF i = 0 THEN 0 ELSE g[i - 1] + orders[i].qty
        BY <2>3 DEF Sums
    <2>5. g[k - 1] \in Nat /\ orders[k].qty \in Nat
        BY <1>1, <2>1, <2>4
    <2>6. /\ DOMAIN f = 0 .. k /\ f[k] = g[k - 1] + orders[k].qty
          /\ \A i \in 0 .. k - 1 : f[i] = g[i]
        BY <2>1
    <2>7. f \in [0 .. k -> Nat]
        <3> SUFFICES ASSUME NEW i \in 0 .. k
                     PROVE  (IF i = k THEN g[k - 1] + orders[k].qty ELSE g[i]) \in Nat
            OBVIOUS
        <3>1. CASE i = k
            BY <2>5, <3>1
        <3>2. CASE i # k
            <4>1. i \in 0 .. k - 1
                BY <2>1, <3>2
            <4> QED BY <2>4, <3>2, <4>1
        <3> QED BY <3>1, <3>2
    <2> HIDE DEF f
    <2>8. ASSUME NEW i \in 0 .. k
          PROVE  f[i] = IF i = 0 THEN 0 ELSE f[i - 1] + orders[i].qty
        <3>1. CASE i = k
            <4>1. k - 1 \in 0 .. k - 1
                BY <2>1
            <4> QED BY <1>6, <2>6, <3>1, <4>1
        <3>2. CASE i # k
            <4>1. i \in 0 .. k - 1 /\ (i # 0 => i - 1 \in 0 .. k - 1)
                BY <2>1, <3>2
            <4> QED BY <2>4, <2>6, <4>1
        <3> QED BY <3>1, <3>2
    <2>9. Sums(orders, f, k)
        BY <2>7, <2>8 DEF Sums
    <2> QED BY <1>4, <2>9 DEF P
<1> QED BY <1>5, <1>6

\* Quantities add up to a quantity.
LEMMA TotalIsNat ==
    ASSUME NEW orders \in Seq(Order)
    PROVE  Total(orders) \in Nat
<1> DEFINE n == Len(orders)
           sum[i \in 0 .. n] == IF i = 0 THEN 0 ELSE sum[i - 1] + orders[i].qty
<1>1. Total(orders) = sum[n]
    BY DEF Total
<1>2. n \in Nat /\ n \in 0 .. n /\ \A i \in 1 .. n : orders[i].qty \in Nat
    BY LenProperties, QtysAreNat
<1>3. PICK f : Sums(orders, f, n)
    BY <1>2, SumsExist
<1>4. f = [i \in 0 .. n |-> IF i = 0 THEN 0 ELSE f[i - 1] + orders[i].qty]
    BY <1>3 DEF Sums
<1>5. sum = [i \in 0 .. n |-> IF i = 0 THEN 0 ELSE sum[i - 1] + orders[i].qty]
    BY <1>4, Zenon
<1> HIDE DEF sum, n
<1>6. \A i \in 0 .. n : sum[i] = IF i = 0 THEN 0 ELSE sum[i - 1] + orders[i].qty
    BY <1>5, Zenon
<1> DEFINE T == {i \in 0 .. n : sum[i] \notin Nat}
<1>7. ASSUME T # {} PROVE FALSE
    <2>1. T \in SUBSET Nat
        BY <1>2
    <2>2. PICK i \in T : \A k \in T : i <= k
        <3> HIDE DEF T
        <3> QED BY <1>7, <2>1, LeastNumber
    <2>3. i \in 0 .. n /\ sum[i] \notin Nat /\ i \in Nat
        BY <1>2
    <2>4. i # 0
        BY <1>6, <2>3
    <2>5. i - 1 \in 0 .. n /\ i \in 1 .. n /\ ~(i <= i - 1)
        BY <1>2, <2>3, <2>4
    <2>6. sum[i - 1] \in Nat
        BY <2>2, <2>5
    <2>7. sum[i] = sum[i - 1] + orders[i].qty
        BY <1>6, <2>3, <2>4
    <2> QED BY <1>2, <2>3, <2>5, <2>6, <2>7
<1> QED BY <1>1, <1>2, <1>7

-----------------------------------------------------------------------------
(* The orders.                                                             *)

\* What the types say of blocks in use and of the pools' indices.
LEMMA TypeFacts ==
    ASSUME TypeOK
    PROVE  /\ orderAt \in [Blocks(OrderBlocks) -> Order \cup {None}]
           /\ \A b \in Blocks(OrderBlocks) : HasOrder(b) => orderAt[b] \in Order
           /\ \A l \in Blocks(LevelBlocks) :
                  HasLevel(l) => /\ levelAt[l] \in Level
                                 /\ levelAt[l].side \in Sides
                                 /\ levelAt[l].price \in Prices
                                 /\ levelAt[l].queue \in Seq(Blocks(OrderBlocks))
           /\ Len(live) \in Nat /\ DOMAIN live = 1 .. Len(live)
           /\ \A i \in DOMAIN live :
                  /\ live[i] \in Order /\ live[i].oid \in Oids
                  /\ live[i].side \in Sides /\ live[i].price \in Prices
           /\ \A oid \in Oids :
                  oidToOrder[oid] # Null => oidToOrder[oid] \in Blocks(OrderBlocks)
           /\ \A k \in 0 .. PriceLevels - 1 :
                  atPrice[k] # Null => atPrice[k] \in Blocks(LevelBlocks)
<1>1. \A b \in Blocks(OrderBlocks) : HasOrder(b) => orderAt[b] \in Order
    BY DEF TypeOK, HasOrder
<1>2. ASSUME NEW l \in Blocks(LevelBlocks), HasLevel(l)
      PROVE  /\ levelAt[l] \in Level
             /\ levelAt[l].side \in Sides
             /\ levelAt[l].price \in Prices
             /\ levelAt[l].queue \in Seq(Blocks(OrderBlocks))
    <2>1. levelAt[l] \in Level
        BY <1>2 DEF TypeOK, HasLevel
    <2> QED BY <2>1 DEF Level
<1>3. live \in Seq(Order) /\ Len(live) \in Nat /\ DOMAIN live = 1 .. Len(live)
    BY LenProperties DEF TypeOK
<1>4. ASSUME NEW i \in DOMAIN live
      PROVE  /\ live[i] \in Order /\ live[i].oid \in Oids
             /\ live[i].side \in Sides /\ live[i].price \in Prices
    <2>1. live[i] \in Order
        BY <1>3, ElementOfSeq
    <2> QED BY <2>1 DEF Order
<1>5. /\ \A oid \in Oids :
             oidToOrder[oid] # Null => oidToOrder[oid] \in Blocks(OrderBlocks)
      /\ \A k \in 0 .. PriceLevels - 1 :
             atPrice[k] # Null => atPrice[k] \in Blocks(LevelBlocks)
    BY DEF TypeOK
<1> QED BY <1>1, <1>2, <1>3, <1>4, <1>5 DEF TypeOK

\* An order that arrives is the last.
LEMMA LiveAppends ==
    ASSUME TypeOK, NEW o \in Order
    PROVE  LET new == Append(live, o)
               n == Len(live)
           IN  /\ new \in Seq(Order) /\ n \in Nat
               /\ DOMAIN live = 1 .. n /\ DOMAIN new = 1 .. n + 1
               /\ new[n + 1] = o /\ \A i \in 1 .. n : new[i] = live[i]
BY LenProperties, AppendProperties DEF TypeOK

\* The id of a new order is not in use.
LEMMA NewId ==
    ASSUME TypeOK, OrdersKnown, NEW o \in Order, oidToOrder[o.oid] = Null
    PROVE  /\ \A b \in Blocks(OrderBlocks) : HasOrder(b) => orderAt[b].oid # o.oid
           /\ \A i \in DOMAIN live : live[i].oid # o.oid
<1>1. Null \notin Blocks(OrderBlocks)
    BY Basics, BlocksAssumption
<1> QED BY <1>1 DEF OrdersKnown

LEMMA AddKnowsOrders ==
    ASSUME TypeOK, OrdersKnown, OneSideAPrice,
           NEW b \in Blocks(OrderBlocks), ~HasOrder(b),
           NEW o \in Order, oidToOrder[o.oid] = Null,
           \A i \in DOMAIN live : live[i].side # o.side => live[i].price # o.price,
           orderAt' = [orderAt EXCEPT ![b] = o],
           oidToOrder' = [oidToOrder EXCEPT ![o.oid] = b],
           live' = Append(live, o)
    PROVE  OrdersKnown' /\ OneSideAPrice'
<1> DEFINE n == Len(live)
<1>1. /\ n \in Nat /\ DOMAIN live = 1 .. n /\ DOMAIN live' = 1 .. n + 1
      /\ live'[n + 1] = o /\ \A i \in 1 .. n : live'[i] = live[i]
    BY LiveAppends
<1> HIDE DEF n
<1>2. /\ \A c \in Blocks(OrderBlocks) : HasOrder(c) => orderAt[c].oid # o.oid
      /\ \A i \in DOMAIN live : live[i].oid # o.oid
    BY NewId
<1>3. o.oid \in Oids /\ o # None /\ b # Null /\ None # o
    BY Basics, BlocksAssumption DEF Order
<1>4. /\ \A c \in Blocks(OrderBlocks) : orderAt'[c] = IF c = b THEN o ELSE orderAt[c]
      /\ \A oid \in Oids : oidToOrder'[oid] = IF oid = o.oid THEN b ELSE oidToOrder[oid]
    BY <1>3 DEF TypeOK
<1>5. /\ \A c \in Blocks(OrderBlocks) : HasOrder(c) => orderAt[c].oid \in Oids
      /\ \A i \in DOMAIN live : live[i].oid \in Oids
      /\ \A oid \in Oids : oidToOrder[oid] # Null => oidToOrder[oid] \in Blocks(OrderBlocks)
    BY TypeFacts DEF Order
<1>6. ASSUME NEW oid \in Oids, oidToOrder'[oid] # Null
      PROVE  HasOrder(oidToOrder[oid])' /\ orderAt'[oidToOrder'[oid]].oid = oid
    <2>1. CASE oid = o.oid
        BY <1>3, <1>4, <2>1 DEF HasOrder
    <2>2. CASE oid # o.oid
        <3>1. /\ oidToOrder'[oid] = oidToOrder[oid] /\ oidToOrder[oid] \in Blocks(OrderBlocks)
              /\ HasOrder(oidToOrder[oid]) /\ orderAt[oidToOrder[oid]].oid = oid
            BY <1>4, <1>5, <1>6, <2>2 DEF OrdersKnown
        <3> QED BY <1>4, <3>1 DEF HasOrder
    <2> QED BY <2>1, <2>2
<1>7. ASSUME NEW c \in Blocks(OrderBlocks), HasOrder(c)'
      PROVE  /\ oidToOrder'[orderAt'[c].oid] = c
             /\ \E i \in DOMAIN live' : live'[i] = orderAt'[c]
    <2>1. CASE c = b
        <3>1. n + 1 \in DOMAIN live'
            BY <1>1
        <3> QED BY <1>1, <1>3, <1>4, <2>1, <3>1
    <2>2. CASE c # b
        <3>1. HasOrder(c) /\ orderAt'[c] = orderAt[c] /\ orderAt[c].oid \in Oids
            BY <1>4, <1>5, <1>7, <2>2 DEF HasOrder
        <3>2. PICK i \in DOMAIN live : live[i] = orderAt[c]
            BY <3>1 DEF OrdersKnown
        <3>3. i \in DOMAIN live' /\ live'[i] = live[i]
            BY <1>1
        <3>4. oidToOrder[orderAt[c].oid] = c
            BY <3>1 DEF OrdersKnown
        <3> QED BY <1>2, <1>4, <3>1, <3>2, <3>3, <3>4
    <2> QED BY <2>1, <2>2
<1>8. ASSUME NEW i \in DOMAIN live'
      PROVE  oidToOrder'[live'[i].oid] # Null /\ orderAt'[oidToOrder'[live'[i].oid]] = live'[i]
    <2>1. CASE i = n + 1
        BY <1>1, <1>3, <1>4, <2>1
    <2>2. CASE i # n + 1
        <3>1. i \in DOMAIN live /\ live'[i] = live[i]
            BY <1>1, <2>2
        <3>2. /\ oidToOrder[live[i].oid] # Null
              /\ orderAt[oidToOrder[live[i].oid]] = live[i] /\ live[i].oid \in Oids
            BY <1>5, <3>1 DEF OrdersKnown
        <3>3. HasOrder(oidToOrder[live[i].oid]) /\ oidToOrder[live[i].oid] \in Blocks(OrderBlocks)
            BY <1>5, <3>2 DEF OrdersKnown
        <3> QED BY <1>2, <1>4, <3>1, <3>2, <3>3
    <2> QED BY <2>1, <2>2
<1>9. ASSUME NEW i \in DOMAIN live', NEW j \in DOMAIN live', live'[i].oid = live'[j].oid
      PROVE  i = j
    <2>1. \A k \in DOMAIN live' : k = n + 1 \/ (k \in DOMAIN live /\ live'[k] = live[k])
        BY <1>1
    <2> QED BY <1>1, <1>2, <1>9, <2>1 DEF OrdersKnown
<1>10. ASSUME NEW i \in DOMAIN live', NEW j \in DOMAIN live', live'[i].price = live'[j].price
       PROVE  live'[i].side = live'[j].side
    <2>1. \A k \in DOMAIN live' : k = n + 1 \/ (k \in DOMAIN live /\ live'[k] = live[k])
        BY <1>1
    <2> QED BY <1>1, <1>10, <2>1 DEF OneSideAPrice
<1>11. OrdersKnown'
    BY <1>6, <1>7, <1>8, <1>9 DEF OrdersKnown
<1>12. OneSideAPrice'
    BY <1>10 DEF OneSideAPrice
<1> QED BY <1>11, <1>12

\* An order that is taken out leaves the others in their order.
LEMMA LiveRemoves ==
    ASSUME TypeOK, NEW i \in DOMAIN live, live' = RemoveAt(live, i)
    PROVE  /\ live' \in Seq(Order)
           /\ \A k \in DOMAIN live' :
                  \E m \in DOMAIN live : m # i /\ live'[k] = live[m]
           /\ \A m \in DOMAIN live :
                  m # i => \E k \in DOMAIN live' : live'[k] = live[m]
           /\ \A k, m \in DOMAIN live' :
                  \E k1, m1 \in DOMAIN live :
                      /\ k1 # i /\ m1 # i /\ live'[k] = live[k1] /\ live'[m] = live[m1]
                      /\ k < m <=> k1 < m1
                      /\ k = m <=> k1 = m1
<1> DEFINE n == Len(live)
           Was(k) == IF k < i THEN k ELSE k + 1
<1>1. live \in Seq(Order) /\ n \in Nat /\ DOMAIN live = 1 .. n /\ i \in 1 .. n
    BY TypeFacts DEF TypeOK
<1>2. /\ live' \in Seq(Order) /\ DOMAIN live' = 1 .. n - 1
      /\ \A k \in 1 .. n - 1 : live'[k] = live[Was(k)]
    BY <1>1, Removal
<1> HIDE DEF n
<1>3. \A k \in 1 .. n - 1 : Was(k) \in 1 .. n /\ Was(k) # i
    BY <1>1
<1>4. \A k, m \in 1 .. n - 1 : (k < m <=> Was(k) < Was(m)) /\ (k = m <=> Was(k) = Was(m))
    BY <1>1
<1>5. ASSUME NEW m \in 1 .. n, m # i PROVE \E k \in 1 .. n - 1 : live'[k] = live[m]
    <2>1. CASE m < i
        <3>1. m \in 1 .. n - 1 /\ Was(m) = m
            BY <1>1, <2>1
        <3> QED BY <1>2, <3>1
    <2>2. CASE ~(m < i)
        <3>1. m - 1 \in 1 .. n - 1 /\ Was(m - 1) = m
            BY <1>1, <1>5, <2>2
        <3> QED BY <1>2, <3>1
    <2> QED BY <2>1, <2>2
<1> HIDE DEF Was
<1>6. ASSUME NEW k \in 1 .. n - 1, NEW m \in 1 .. n - 1
      PROVE  \E k1, m1 \in 1 .. n :
                 /\ k1 # i /\ m1 # i /\ live'[k] = live[k1] /\ live'[m] = live[m1]
                 /\ k < m <=> k1 < m1
                 /\ k = m <=> k1 = m1
    <2>1. /\ Was(k) \in 1 .. n /\ Was(m) \in 1 .. n /\ Was(k) # i /\ Was(m) # i
          /\ live'[k] = live[Was(k)] /\ live'[m] = live[Was(m)]
          /\ k < m <=> Was(k) < Was(m)
          /\ k = m <=> Was(k) = Was(m)
        BY <1>2, <1>3, <1>4
    <2> QED BY <2>1
<1>7. ASSUME NEW k \in 1 .. n - 1 PROVE \E m \in 1 .. n : m # i /\ live'[k] = live[m]
    BY <1>2, <1>3
<1>8. DOMAIN live = 1 .. n /\ DOMAIN live' = 1 .. n - 1
    BY <1>1, <1>2
<1>9. \A m \in 1 .. n : m # i => \E k \in 1 .. n - 1 : live'[k] = live[m]
    BY <1>5
<1> HIDE DEF n
<1>10. \A k, m \in DOMAIN live' :
           \E k1, m1 \in DOMAIN live :
               /\ k1 # i /\ m1 # i /\ live'[k] = live[k1] /\ live'[m] = live[m1]
               /\ k < m <=> k1 < m1
               /\ k = m <=> k1 = m1
    BY <1>6, <1>8
<1>11. \A k \in DOMAIN live' : \E m \in DOMAIN live : m # i /\ live'[k] = live[m]
    BY <1>7, <1>8, Zenon
<1>12. \A m \in DOMAIN live : m # i => \E k \in DOMAIN live' : live'[k] = live[m]
    BY <1>8, <1>9, Zenon
<1> QED BY <1>2, <1>10, <1>11, <1>12, Zenon

LEMMA CancelKnowsOrders ==
    ASSUME TypeOK, OrdersKnown, OneSideAPrice, NEW i \in DOMAIN live,
           NEW b, b = oidToOrder[live[i].oid],
           orderAt' = [orderAt EXCEPT ![b] = None],
           oidToOrder' = [oidToOrder EXCEPT ![live[i].oid] = Null],
           live' = RemoveAt(live, i)
    PROVE  OrdersKnown' /\ OneSideAPrice'
<1> DEFINE x == live[i].oid
<1>1. /\ \A c \in Blocks(OrderBlocks) : HasOrder(c) => orderAt[c].oid \in Oids
      /\ \A k \in DOMAIN live : live[k].oid \in Oids
      /\ \A oid \in Oids : oidToOrder[oid] # Null => oidToOrder[oid] \in Blocks(OrderBlocks)
    BY TypeFacts DEF Order
<1>2. x \in Oids /\ b \in Blocks(OrderBlocks) /\ HasOrder(b) /\ orderAt[b] = live[i]
    BY <1>1 DEF OrdersKnown
<1>3. /\ \A c \in Blocks(OrderBlocks) : orderAt'[c] = IF c = b THEN None ELSE orderAt[c]
      /\ \A oid \in Oids : oidToOrder'[oid] = IF oid = x THEN Null ELSE oidToOrder[oid]
    BY <1>2 DEF TypeOK
<1>4. /\ \A k \in DOMAIN live' : \E m \in DOMAIN live : m # i /\ live'[k] = live[m]
      /\ \A m \in DOMAIN live : m # i => \E k \in DOMAIN live' : live'[k] = live[m]
      /\ \A k, m \in DOMAIN live' :
             \E k1, m1 \in DOMAIN live :
                 /\ live'[k] = live[k1] /\ live'[m] = live[m1]
                 /\ k = m <=> k1 = m1
    BY LiveRemoves
<1>5. \A m \in DOMAIN live : m # i => live[m].oid # x
    BY DEF OrdersKnown
<1>6. ASSUME NEW oid \in Oids, oidToOrder'[oid] # Null
      PROVE  HasOrder(oidToOrder[oid])' /\ orderAt'[oidToOrder'[oid]].oid = oid
    <2>1. oid # x /\ oidToOrder'[oid] = oidToOrder[oid]
        BY <1>3, <1>6
    <2>2. /\ oidToOrder[oid] \in Blocks(OrderBlocks) /\ HasOrder(oidToOrder[oid])
          /\ orderAt[oidToOrder[oid]].oid = oid
        BY <1>1, <1>6, <2>1 DEF OrdersKnown
    <2>3. oidToOrder[oid] # b
        BY <1>2, <2>1, <2>2
    <2> QED BY <1>3, <2>1, <2>2, <2>3 DEF HasOrder
<1>7. ASSUME NEW c \in Blocks(OrderBlocks), HasOrder(c)'
      PROVE  /\ oidToOrder'[orderAt'[c].oid] = c
             /\ \E k \in DOMAIN live' : live'[k] = orderAt'[c]
    <2>1. c # b /\ orderAt'[c] = orderAt[c] /\ HasOrder(c)
        BY <1>3, <1>7 DEF HasOrder
    <2>2. PICK m \in DOMAIN live : live[m] = orderAt[c]
        BY <2>1 DEF OrdersKnown
    <2>3. oidToOrder[orderAt[c].oid] = c /\ orderAt[c].oid \in Oids
        BY <1>1, <2>1 DEF OrdersKnown
    <2>4. orderAt[c].oid # x /\ m # i
        BY <1>2, <2>1, <2>2, <2>3
    <2>5. PICK k \in DOMAIN live' : live'[k] = live[m]
        BY <1>4, <2>4
    <2> QED BY <1>3, <2>1, <2>2, <2>3, <2>4, <2>5
<1>8. ASSUME NEW k \in DOMAIN live'
      PROVE  oidToOrder'[live'[k].oid] # Null /\ orderAt'[oidToOrder'[live'[k].oid]] = live'[k]
    <2>1. PICK m \in DOMAIN live : m # i /\ live'[k] = live[m]
        BY <1>4
    <2>2. /\ live[m].oid # x /\ live[m].oid \in Oids /\ oidToOrder[live[m].oid] # Null
          /\ orderAt[oidToOrder[live[m].oid]] = live[m]
        BY <1>1, <1>5, <2>1 DEF OrdersKnown
    <2>3. oidToOrder[live[m].oid] # b /\ oidToOrder[live[m].oid] \in Blocks(OrderBlocks)
        BY <1>1, <1>2, <2>2
    <2> QED BY <1>3, <2>1, <2>2, <2>3
<1>9. ASSUME NEW k \in DOMAIN live', NEW m \in DOMAIN live', live'[k].oid = live'[m].oid
      PROVE  k = m
    BY <1>4, <1>9 DEF OrdersKnown
<1>10. ASSUME NEW k \in DOMAIN live', NEW m \in DOMAIN live', live'[k].price = live'[m].price
       PROVE  live'[k].side = live'[m].side
    BY <1>4, <1>10 DEF OneSideAPrice
<1>11. OrdersKnown'
    BY <1>6, <1>7, <1>8, <1>9 DEF OrdersKnown
<1>12. OneSideAPrice'
    BY <1>10 DEF OneSideAPrice
<1> QED BY <1>11, <1>12

\* Nothing changes of the orders but the quantity of the i-th, which is in block b.
QtyChanges(i, b) ==
    /\ b \in Blocks(OrderBlocks) /\ orderAt[b] = live[i]
    /\ orderAt' \in [Blocks(OrderBlocks) -> Order \cup {None}]
    /\ live' \in Seq(Order)
    /\ live'[i] = orderAt'[b]
    /\ DOMAIN live' = DOMAIN live
    /\ \A k \in DOMAIN live : k # i => live'[k] = live[k]
    /\ \A k \in DOMAIN live :
           /\ live'[k].oid = live[k].oid
           /\ live'[k].side = live[k].side
           /\ live'[k].price = live[k].price
    /\ \A c \in Blocks(OrderBlocks) : c # b => orderAt'[c] = orderAt[c]
    /\ \A c \in Blocks(OrderBlocks) :
           /\ HasOrder(c)' <=> HasOrder(c)
           /\ HasOrder(c) => /\ orderAt'[c].oid = orderAt[c].oid
                             /\ orderAt'[c].side = orderAt[c].side
                             /\ orderAt'[c].price = orderAt[c].price

LEMMA ModifyIsQty ==
    ASSUME TypeOK, OrdersKnown, NEW i \in DOMAIN live, NEW q \in Qtys,
           NEW b, b = oidToOrder[live[i].oid],
           orderAt' = [orderAt EXCEPT ![b].qty = q],
           live' = [live EXCEPT ![i].qty = q]
    PROVE  QtyChanges(i, b)
<1> DEFINE o == live[i]
           r == [o EXCEPT !.qty = q]
           n == Len(live)
<1>1. o \in Order /\ o.oid \in Oids /\ o # None
    BY TypeFacts, Basics
<1>2. b \in Blocks(OrderBlocks) /\ orderAt[b] = o
    BY <1>1, TypeFacts DEF OrdersKnown
<1>3. /\ r \in Order /\ r.oid = o.oid /\ r.side = o.side /\ r.price = o.price /\ r # None
    <2>1. r \in Order /\ r.oid = o.oid /\ r.side = o.side /\ r.price = o.price
        BY <1>1 DEF Order
    <2> QED BY <2>1, Basics
<1>4. /\ DOMAIN orderAt' = Blocks(OrderBlocks)
      /\ \A c \in Blocks(OrderBlocks) : orderAt'[c] = IF c = b THEN r ELSE orderAt[c]
    BY <1>2 DEF TypeOK
<1>5. live \in [1 .. n -> Order] /\ n \in Nat /\ DOMAIN live = 1 .. n
    BY LenProperties DEF TypeOK
<1>6. /\ DOMAIN live' = 1 .. n
      /\ \A k \in 1 .. n : live'[k] = IF k = i THEN r ELSE live[k]
    BY <1>5
<1> HIDE DEF r, o, n
<1>7. live' \in [1 .. n -> Order]
    BY <1>3, <1>5, <1>6
<1>8. live' \in Seq(Order)
    BY <1>5, <1>7
<1>9. orderAt' \in [Blocks(OrderBlocks) -> Order \cup {None}]
    <2>1. \A c \in Blocks(OrderBlocks) : orderAt'[c] \in Order \cup {None}
        BY <1>3, <1>4 DEF TypeOK
    <2>2. orderAt' = [c \in Blocks(OrderBlocks) |-> orderAt'[c]]
        BY <1>4
    <2> QED BY <2>1, <2>2
<1> QED BY <1>1, <1>2, <1>3, <1>4, <1>5, <1>6, <1>8, <1>9 DEF QtyChanges, HasOrder, o

LEMMA ModifyKnowsOrders ==
    ASSUME TypeOK, OrdersKnown, OneSideAPrice, NEW i \in DOMAIN live,
           NEW b, b = oidToOrder[live[i].oid], QtyChanges(i, b),
           UNCHANGED oidToOrder
    PROVE  OrdersKnown' /\ OneSideAPrice'
<1>1. /\ b \in Blocks(OrderBlocks) /\ orderAt[b] = live[i]
      /\ live'[i] = orderAt'[b] /\ DOMAIN live' = DOMAIN live
      /\ \A k \in DOMAIN live : k # i => live'[k] = live[k]
      /\ \A k \in DOMAIN live :
             /\ live'[k].oid = live[k].oid
             /\ live'[k].side = live[k].side
             /\ live'[k].price = live[k].price
      /\ \A c \in Blocks(OrderBlocks) : c # b => orderAt'[c] = orderAt[c]
      /\ \A c \in Blocks(OrderBlocks) :
             /\ HasOrder(c)' <=> HasOrder(c)
             /\ HasOrder(c) => orderAt'[c].oid = orderAt[c].oid
    BY DEF QtyChanges
<1>2. /\ \A c \in Blocks(OrderBlocks) : HasOrder(c) => orderAt[c].oid \in Oids
      /\ \A k \in DOMAIN live : live[k].oid \in Oids
      /\ \A oid \in Oids : oidToOrder[oid] # Null => oidToOrder[oid] \in Blocks(OrderBlocks)
    BY TypeFacts DEF Order
<1>3. ASSUME NEW oid \in Oids, oidToOrder'[oid] # Null
      PROVE  HasOrder(oidToOrder[oid])' /\ orderAt'[oidToOrder'[oid]].oid = oid
    <2> DEFINE c == oidToOrder[oid]
    <2>1. c \in Blocks(OrderBlocks) /\ HasOrder(c) /\ orderAt[c].oid = oid
        BY <1>2, <1>3 DEF OrdersKnown
    <2>2. orderAt'[c] # None /\ orderAt'[c].oid = oid
        BY <1>1, <2>1 DEF HasOrder
    <2> QED BY <2>2 DEF HasOrder
<1>4. ASSUME NEW c \in Blocks(OrderBlocks), HasOrder(c)'
      PROVE  /\ oidToOrder'[orderAt'[c].oid] = c
             /\ \E k \in DOMAIN live' : live'[k] = orderAt'[c]
    <2>1. HasOrder(c) /\ orderAt'[c].oid = orderAt[c].oid /\ oidToOrder[orderAt[c].oid] = c
        BY <1>1, <1>4 DEF OrdersKnown
    <2>2. CASE c = b
        BY <1>1, <2>1, <2>2
    <2>3. CASE c # b
        <3>1. PICK k \in DOMAIN live : live[k] = orderAt[c]
            BY <2>1 DEF OrdersKnown
        <3>2. k # i
            BY <1>1, <2>1, <2>3, <3>1
        <3> QED BY <1>1, <2>1, <2>3, <3>1, <3>2
    <2> QED BY <2>2, <2>3
<1>5. ASSUME NEW k \in DOMAIN live'
      PROVE  oidToOrder'[live'[k].oid] # Null /\ orderAt'[oidToOrder'[live'[k].oid]] = live'[k]
    <2>1. /\ live'[k].oid = live[k].oid /\ oidToOrder[live[k].oid] # Null
          /\ orderAt[oidToOrder[live[k].oid]] = live[k]
          /\ oidToOrder[live[k].oid] \in Blocks(OrderBlocks)
        BY <1>1, <1>2 DEF OrdersKnown
    <2>2. CASE k = i
        BY <1>1, <2>1, <2>2
    <2>3. CASE k # i
        <3>1. live[k].oid # live[i].oid
            BY <1>1, <2>3 DEF OrdersKnown
        <3> QED BY <1>1, <2>1, <2>3, <3>1
    <2> QED BY <2>2, <2>3
<1>6. ASSUME NEW k \in DOMAIN live', NEW m \in DOMAIN live', live'[k].oid = live'[m].oid
      PROVE  k = m
    BY <1>1, <1>6 DEF OrdersKnown
<1>7. ASSUME NEW k \in DOMAIN live', NEW m \in DOMAIN live', live'[k].price = live'[m].price
      PROVE  live'[k].side = live'[m].side
    BY <1>1, <1>7 DEF OneSideAPrice
<1>8. OrdersKnown'
    BY <1>3, <1>4, <1>5, <1>6 DEF OrdersKnown
<1>9. OneSideAPrice'
    BY <1>7 DEF OneSideAPrice
<1> QED BY <1>8, <1>9

\* Who arrived earlier stays so.
LEMMA AddIsLater ==
    ASSUME TypeOK, OrdersKnown, NEW o \in Order, oidToOrder[o.oid] = Null,
           live' = Append(live, o), NEW x, x # o.oid
    PROVE  /\ \A y : y # o.oid /\ Earlier(x, y) => Earlier(x, y)'
           /\ Earlier(x, o.oid)'
<1> DEFINE n == Len(live)
<1>1. /\ n \in Nat /\ DOMAIN live = 1 .. n /\ DOMAIN live' = 1 .. n + 1
      /\ live'[n + 1] = o /\ \A i \in 1 .. n : live'[i] = live[i]
    BY LiveAppends
<1>2. \A i \in DOMAIN live : live[i].oid # o.oid
    BY NewId
<1> HIDE DEF n
<1>3. \A k \in DOMAIN live' : live'[k].oid # o.oid => k \in DOMAIN live /\ live'[k] = live[k]
    BY <1>1
<1>4. \A k \in DOMAIN live' : live'[k].oid = o.oid => k = n + 1
    BY <1>1, <1>2
<1>5. \A k \in DOMAIN live : k < n + 1
    BY <1>1
<1>6. ASSUME NEW y, y # o.oid, Earlier(x, y) PROVE Earlier(x, y)'
    BY <1>3, <1>6 DEF Earlier
<1>7. Earlier(x, o.oid)'
    BY <1>3, <1>4, <1>5 DEF Earlier
<1> QED BY <1>6, <1>7

LEMMA CancelKeepsOrder ==
    ASSUME TypeOK, NEW i \in DOMAIN live, live' = RemoveAt(live, i)
    PROVE  \A x, y : Earlier(x, y) => Earlier(x, y)'
<1> SUFFICES ASSUME NEW x, NEW y, Earlier(x, y),
                    NEW m \in DOMAIN live', NEW n \in DOMAIN live',
                    live'[m].oid = x, live'[n].oid = y
             PROVE  m < n
    BY DEF Earlier
<1>1. \E k1, m1 \in DOMAIN live :
          live'[m] = live[k1] /\ live'[n] = live[m1] /\ (m < n <=> k1 < m1)
    BY LiveRemoves
<1> QED BY <1>1 DEF Earlier

-----------------------------------------------------------------------------
(* The levels.                                                             *)

\* Better orders the prices of a side.
LEMMA BetterOrders ==
    ASSUME NEW s \in Sides, NEW p \in Nat, NEW q \in Nat
    PROVE  /\ Better(s, p, q) \/ Better(s, q, p) \/ p = q
           /\ ~Better(s, p, p)
           /\ ~(Better(s, p, q) /\ Better(s, q, p))
           /\ \A r \in Nat : Better(s, p, q) /\ Better(s, q, r) => Better(s, p, r)
BY DEF Better, Sides

\* What the lists of levels have in them.
LEMMA ListedLevels ==
    ASSUME TypeOK, LevelsKnown, NEW s \in Sides
    PROVE  LET ls == sideLevels[s]
           IN  /\ ls \in Seq(Blocks(LevelBlocks)) /\ Len(ls) \in Nat
               /\ DOMAIN ls = 1 .. Len(ls)
               /\ \A i \in DOMAIN ls :
                      /\ ls[i] \in Blocks(LevelBlocks) /\ HasLevel(ls[i])
                      /\ levelAt[ls[i]].side = s /\ levelAt[ls[i]].price \in Nat
                      /\ levelAt[ls[i]].price \in Prices
               /\ \A i, j \in DOMAIN ls : ls[i] = ls[j] => i = j
<1> DEFINE ls == sideLevels[s]
           n == Len(ls)
<1>1. ls \in Seq(Blocks(LevelBlocks))
    BY DEF TypeOK
<1>2. n \in Nat /\ DOMAIN ls = 1 .. n
    BY <1>1, LenProperties
<1>3. ASSUME NEW i \in DOMAIN ls
      PROVE  /\ ls[i] \in Blocks(LevelBlocks) /\ HasLevel(ls[i])
             /\ levelAt[ls[i]].side = s /\ levelAt[ls[i]].price \in Nat
             /\ levelAt[ls[i]].price \in Prices
    <2>1. ls[i] \in Blocks(LevelBlocks)
        BY <1>1, <1>2, ElementOfSeq
    <2>2. HasLevel(ls[i]) /\ levelAt[ls[i]].side = s
        BY DEF LevelsKnown
    <2>3. levelAt[ls[i]].price \in Prices
        BY <2>1, <2>2, TypeFacts
    <2> QED BY <2>1, <2>2, <2>3, Basics
<1>4. ASSUME NEW i \in DOMAIN ls, NEW j \in DOMAIN ls, ls[i] = ls[j], i # j PROVE FALSE
    <2>1. i < j \/ j < i
        BY <1>2, <1>4
    <2>2. \/ Better(s, levelAt[ls[i]].price, levelAt[ls[j]].price)
          \/ Better(s, levelAt[ls[j]].price, levelAt[ls[i]].price)
        BY <2>1 DEF LevelsKnown
    <2>3. levelAt[ls[i]].price \in Nat
        BY <1>3
    <2> QED BY <1>4, <2>2, <2>3, BetterOrders
<1> QED BY <1>1, <1>2, <1>3, <1>4

\* Where a new level goes.
LEMMA LevelHasPlace ==
    ASSUME TypeOK, LevelsKnown, NEW s \in Sides, NEW p \in Prices,
           atPrice[PriceToIndex(p)] = Null, NEW l
    PROVE  \E place \in 1 .. Len(sideLevels[s]) + 1 :
               /\ WithLevel(s, p, l) = InsertAt(sideLevels[s], place, l)
               /\ \A j \in DOMAIN sideLevels[s] :
                      /\ j < place => Better(s, levelAt[sideLevels[s][j]].price, p)
                      /\ j >= place => Better(s, p, levelAt[sideLevels[s][j]].price)
<1> DEFINE ls == sideLevels[s]
           n == Len(ls)
           better(k) == Better(s, levelAt[ls[k]].price, p)
           Here(k) == /\ \A j \in 1 .. k - 1 : better(j)
                      /\ k \in DOMAIN ls => ~better(k)
           T == {k \in 1 .. n + 1 : k \in DOMAIN ls => ~better(k)}
           place == CHOOSE k \in 1 .. n + 1 : Here(k)
<1>1. n \in Nat /\ DOMAIN ls = 1 .. n
    BY ListedLevels
<1>2. p \in Nat /\ \A j \in DOMAIN ls : levelAt[ls[j]].price \in Nat
    BY ListedLevels, Basics
<1>3. \A j \in DOMAIN ls : levelAt[ls[j]].price # p
    <2> SUFFICES ASSUME NEW j \in DOMAIN ls, levelAt[ls[j]].price = p PROVE FALSE
        OBVIOUS
    <2>1. ls[j] \in Blocks(LevelBlocks) /\ HasLevel(ls[j])
        BY ListedLevels
    <2>2. atPrice[PriceToIndex(p)] = ls[j]
        BY <2>1 DEF LevelsKnown
    <2> QED BY <2>1, <2>2, Basics, BlocksAssumption
<1>4. \A i, j \in DOMAIN ls : i < j => Better(s, levelAt[ls[i]].price, levelAt[ls[j]].price)
    BY DEF LevelsKnown
<1>5. WithLevel(s, p, l) = InsertAt(ls, place, l)
    BY DEF WithLevel
<1> HIDE DEF better
<1>6. \E k \in 1 .. n + 1 : Here(k)
    <2>1. T \in SUBSET Nat /\ n + 1 \in T
        BY <1>1
    <2>2. PICK k \in T : \A j \in T : k <= j
        <3> HIDE DEF T
        <3> QED BY <2>1, LeastNumber
    <2>3. k \in 1 .. n + 1 /\ (k \in DOMAIN ls => ~better(k))
        OBVIOUS
    <2>4. ASSUME NEW j \in 1 .. k - 1 PROVE better(j)
        <3>1. j \in 1 .. n + 1 /\ ~(k <= j)
            BY <1>1, <2>3
        <3> QED BY <2>2, <3>1
    <2> QED BY <2>3, <2>4
<1> HIDE DEF Here
<1>7. place \in 1 .. n + 1 /\ Here(place)
    BY <1>6
<1> HIDE DEF place
<1>8. ASSUME NEW j \in DOMAIN ls, j < place PROVE better(j)
    <2>1. j \in 1 .. place - 1
        BY <1>1, <1>7, <1>8
    <2> QED BY <1>7, <2>1 DEF Here
<1>9. ASSUME NEW j \in DOMAIN ls, j >= place PROVE Better(s, p, levelAt[ls[j]].price)
    <2>1. place \in DOMAIN ls /\ (place = j \/ place < j)
        BY <1>1, <1>7, <1>9
    <2>2. ~better(place)
        BY <1>7, <2>1 DEF Here
    <2>3. Better(s, p, levelAt[ls[place]].price)
        BY <1>2, <1>3, <2>1, <2>2, BetterOrders DEF better
    <2>4. place = j \/ Better(s, levelAt[ls[place]].price, levelAt[ls[j]].price)
        BY <1>4, <2>1
    <2> QED BY <1>2, <2>1, <2>3, <2>4, BetterOrders
<1> QED BY <1>5, <1>7, <1>8, <1>9 DEF better

\* A level that comes into use.
LevelComes(l, s, p, queue) ==
    /\ levelAt' = [levelAt EXCEPT ![l] = [side |-> s, price |-> p, queue |-> queue]]
    /\ atPrice' = [atPrice EXCEPT ![PriceToIndex(p)] = l]
    /\ sideLevels' = [sideLevels EXCEPT ![s] = WithLevel(s, p, l)]

LEMMA LevelComesFacts ==
    ASSUME TypeOK, NEW l \in Blocks(LevelBlocks), NEW s \in Sides, NEW p \in Prices,
           NEW queue \in Seq(Blocks(OrderBlocks)), LevelComes(l, s, p, queue)
    PROVE  /\ levelAt' \in [Blocks(LevelBlocks) -> Level \cup {None}]
           /\ atPrice' \in [0 .. PriceLevels - 1 -> Blocks(LevelBlocks) \cup {Null}]
           /\ HasLevel(l)' /\ levelAt'[l].side = s /\ levelAt'[l].price = p
           /\ levelAt'[l].queue = queue
           /\ \A k \in Blocks(LevelBlocks) : k # l => levelAt'[k] = levelAt[k]
           /\ \A k \in 0 .. PriceLevels - 1 :
                  atPrice'[k] = IF k = PriceToIndex(p) THEN l ELSE atPrice[k]
           /\ DOMAIN sideLevels' = Sides
           /\ \A t \in Sides :
                  sideLevels'[t] = IF t = s THEN WithLevel(s, p, l) ELSE sideLevels[t]
<1> DEFINE new == [side |-> s, price |-> p, queue |-> queue]
<1>1. new \in Level /\ new # None /\ new.side = s /\ new.price = p /\ new.queue = queue
    <2>1. new \in Level /\ new.side = s /\ new.price = p /\ new.queue = queue
        BY DEF Level
    <2> QED BY <2>1, Basics
<1>2. levelAt' = [levelAt EXCEPT ![l] = new]
    BY DEF LevelComes
<1> HIDE DEF new
<1>3. /\ levelAt' \in [Blocks(LevelBlocks) -> Level \cup {None}] /\ levelAt'[l] = new
      /\ \A k \in Blocks(LevelBlocks) : k # l => levelAt'[k] = levelAt[k]
    BY <1>1, <1>2 DEF TypeOK
<1>4. /\ atPrice' \in [0 .. PriceLevels - 1 -> Blocks(LevelBlocks) \cup {Null}]
      /\ \A k \in 0 .. PriceLevels - 1 :
             atPrice'[k] = IF k = PriceToIndex(p) THEN l ELSE atPrice[k]
    BY Basics DEF TypeOK, LevelComes
<1>5. /\ DOMAIN sideLevels' = Sides
      /\ \A t \in Sides :
             sideLevels'[t] = IF t = s THEN WithLevel(s, p, l) ELSE sideLevels[t]
    BY DEF TypeOK, LevelComes
<1> QED BY <1>1, <1>3, <1>4, <1>5 DEF HasLevel

LEMMA LevelComesKnown ==
    ASSUME TypeOK, LevelsKnown, NEW l \in Blocks(LevelBlocks), ~HasLevel(l),
           NEW s \in Sides, NEW p \in Prices, NEW queue \in Seq(Blocks(OrderBlocks)),
           atPrice[PriceToIndex(p)] = Null, LevelComes(l, s, p, queue)
    PROVE  /\ LevelsKnown'
           /\ sideLevels' \in [Sides -> Seq(Blocks(LevelBlocks))]
           /\ (sideLevels[s] # <<>> /\ Better(s, BestPrice(s), p)) =>
                  sideLevels'[s] # <<>> /\ Head(sideLevels'[s]) = Head(sideLevels[s])
<1> DEFINE ls == sideLevels[s]
           n == Len(ls)
           L == Blocks(LevelBlocks)
<1>1. /\ HasLevel(l)' /\ levelAt'[l].side = s /\ levelAt'[l].price = p
      /\ \A k \in L : k # l => levelAt'[k] = levelAt[k]
      /\ \A k \in 0 .. PriceLevels - 1 :
             atPrice'[k] = IF k = PriceToIndex(p) THEN l ELSE atPrice[k]
      /\ DOMAIN sideLevels' = Sides
      /\ \A t \in Sides : sideLevels'[t] = IF t = s THEN WithLevel(s, p, l) ELSE sideLevels[t]
    BY LevelComesFacts
<1>2. PICK place \in 1 .. n + 1 :
          /\ WithLevel(s, p, l) = InsertAt(ls, place, l)
          /\ \A j \in DOMAIN ls :
                 /\ j < place => Better(s, levelAt[ls[j]].price, p)
                 /\ j >= place => Better(s, p, levelAt[ls[j]].price)
    BY LevelHasPlace
<1>3. /\ ls \in Seq(L) /\ n \in Nat /\ DOMAIN ls = 1 .. n
      /\ \A i \in DOMAIN ls : ls[i] \in L /\ HasLevel(ls[i]) /\ levelAt[ls[i]].side = s
                              /\ ls[i] # l /\ levelAt[ls[i]].price \in Nat
    BY ListedLevels
<1> DEFINE r == sideLevels'[s]
           Now(i) == IF i < place THEN i ELSE i + 1
<1>4. /\ r \in Seq(L) /\ Len(r) = n + 1 /\ DOMAIN r = 1 .. n + 1 /\ r[place] = l
      /\ \A k \in 1 .. n : r[Now(k)] = ls[k]
    <2>1. r = InsertAt(ls, place, l)
        BY <1>1, <1>2
    <2>2. PutAt(L, ls, place, l, r)
        <3>1. ls \in Seq(L) /\ place \in 1 .. Len(ls) + 1 /\ l \in L
            BY <1>3
        <3> HIDE DEF ls, L, r
        <3> QED BY <2>1, <3>1, Insertion
    <2> HIDE DEF ls, r
    <2> QED BY <2>2 DEF PutAt
<1> HIDE DEF n
<1>5. /\ \A k \in 1 .. n : Now(k) \in 1 .. n + 1 /\ Now(k) # place
      /\ \A i \in 1 .. n + 1 : i = place \/ \E k \in 1 .. n : i = Now(k)
    <2>1. \A k \in 1 .. n : Now(k) \in 1 .. n + 1 /\ Now(k) # place
        BY <1>2, <1>3
    <2>2. ASSUME NEW i \in 1 .. n + 1, i # place PROVE \E k \in 1 .. n : i = Now(k)
        <3>1. CASE i < place
            <4>1. i \in 1 .. n /\ i = Now(i)
                BY <1>2, <1>3, <3>1
            <4> QED BY <4>1
        <3>2. CASE ~(i < place)
            <4>1. i - 1 \in 1 .. n /\ i = Now(i - 1)
                BY <1>2, <1>3, <2>2, <3>2
            <4> QED BY <4>1
        <3> QED BY <3>1, <3>2
    <2> QED BY <2>1, <2>2
<1>6. \A i, j \in 1 .. n : Now(i) < Now(j) => i < j
    BY <1>2, <1>3
<1>7. \A k \in 1 .. n : /\ Now(k) < place => k < place
                        /\ place < Now(k) => k >= place
    BY <1>2, <1>3
<1> HIDE DEF Now
<1>8. p \in Nat /\ PriceToIndex(p) \in 0 .. PriceLevels - 1
    BY Basics
<1>9. \A k \in L : HasLevel(k)' <=> k = l \/ HasLevel(k)
    BY <1>1 DEF HasLevel
\* the blocks
<1>10. ASSUME NEW k \in L, HasLevel(k)'
       PROVE  /\ \E i \in DOMAIN sideLevels'[levelAt'[k].side] :
                     sideLevels'[levelAt'[k].side][i] = k
              /\ atPrice'[PriceToIndex(levelAt'[k].price)] = k
    <2>1. CASE k = l
        <3>1. place \in DOMAIN r
            BY <1>2, <1>4
        <3> QED BY <1>1, <1>4, <1>8, <2>1, <3>1
    <2>2. CASE k # l
        <3> DEFINE t == levelAt[k].side
        <3>1. HasLevel(k) /\ levelAt'[k] = levelAt[k]
            BY <1>1, <1>9, <1>10, <2>2
        <3>2. PICK i \in DOMAIN sideLevels[t] : sideLevels[t][i] = k
            BY <3>1 DEF LevelsKnown
        <3>3. /\ atPrice[PriceToIndex(levelAt[k].price)] = k
              /\ t \in Sides /\ PriceToIndex(levelAt[k].price) \in 0 .. PriceLevels - 1
            BY <3>1, TypeFacts, Basics DEF LevelsKnown
        <3>4. PriceToIndex(levelAt[k].price) # PriceToIndex(p)
            BY <3>3, Basics, BlocksAssumption
        <3>5. \E m \in DOMAIN sideLevels'[t] : sideLevels'[t][m] = k
            <4>1. CASE t = s
                <5>1. i \in 1 .. n /\ Now(i) \in DOMAIN r /\ r[Now(i)] = k
                    BY <1>3, <1>4, <1>5, <3>2, <4>1
                <5> QED BY <4>1, <5>1
            <4>2. CASE t # s
                BY <1>1, <3>2, <3>3, <4>2
            <4> QED BY <4>1, <4>2
        <3> QED BY <1>1, <3>1, <3>3, <3>4, <3>5
    <2> QED BY <2>1, <2>2
\* the lists
<1>11. ASSUME NEW t \in Sides, NEW i \in DOMAIN sideLevels'[t]
       PROVE  HasLevel(sideLevels[t][i])' /\ levelAt'[sideLevels'[t][i]].side = t
    <2> DEFINE k == sideLevels'[t][i]
    <2>1. \/ k = l /\ t = s
          \/ k \in L /\ HasLevel(k) /\ k # l /\ levelAt[k].side = t
        <3>1. CASE t = s
            <4>1. i \in 1 .. n + 1 /\ k = r[i]
                BY <1>4, <1>11, <3>1
            <4>2. CASE i = place
                <5>1. r[i] = l
                    BY <1>4, <4>2
                <5>2. k = l
                    BY <4>1, <5>1
                <5> QED BY <3>1, <5>2
            <4>3. CASE i # place
                <5>1. PICK m \in 1 .. n : i = Now(m)
                    BY <1>5, <4>1, <4>3
                <5>2. k = ls[m] /\ m \in DOMAIN ls
                    BY <1>3, <1>4, <4>1, <5>1
                <5> QED BY <1>3, <3>1, <5>2
            <4> QED BY <4>2, <4>3
        <3>2. CASE t # s
            BY <1>1, <3>2, ListedLevels
        <3> QED BY <3>1, <3>2
    <2>2. k \in L /\ levelAt'[k] # None /\ levelAt'[k].side = t
        BY <1>1, <2>1 DEF HasLevel
    <2> QED BY <2>2 DEF HasLevel
\* the table
<1>12. ASSUME NEW k \in 0 .. PriceLevels - 1, atPrice'[k] # Null
       PROVE  HasLevel(atPrice[k])' /\ PriceToIndex(levelAt'[atPrice'[k]].price) = k
    <2>1. CASE k = PriceToIndex(p)
        BY <1>1, <2>1 DEF HasLevel
    <2>2. CASE k # PriceToIndex(p)
        <3>1. atPrice'[k] = atPrice[k] /\ atPrice[k] \in L /\ HasLevel(atPrice[k])
              /\ PriceToIndex(levelAt[atPrice[k]].price) = k
            BY <1>1, <1>12, <2>2, TypeFacts DEF LevelsKnown
        <3>2. levelAt'[atPrice[k]] = levelAt[atPrice[k]]
            BY <1>1, <3>1
        <3> QED BY <3>1, <3>2 DEF HasLevel
    <2> QED BY <2>1, <2>2
\* the order
<1>13. ASSUME NEW t \in Sides, NEW i \in DOMAIN sideLevels'[t], NEW j \in DOMAIN sideLevels'[t],
              i < j
       PROVE  Better(t, levelAt'[sideLevels'[t][i]].price, levelAt'[sideLevels'[t][j]].price)
    <2>1. CASE t # s
        <3>1. /\ sideLevels'[t] = sideLevels[t]
              /\ sideLevels[t][i] \in L /\ sideLevels[t][i] # l
              /\ sideLevels[t][j] \in L /\ sideLevels[t][j] # l
            BY <1>1, <2>1, ListedLevels
        <3> QED BY <1>1, <1>13, <3>1 DEF LevelsKnown
    <2>2. CASE t = s
        <3>1. \A k \in 1 .. n : levelAt'[ls[k]] = levelAt[ls[k]]
            BY <1>1, <1>3
        <3>2. i \in 1 .. n + 1 /\ j \in 1 .. n + 1 /\ i # j
            BY <1>4, <1>13, <2>2
        <3>3. CASE i = place
            <4>1. PICK k \in 1 .. n : j = Now(k)
                BY <1>5, <3>2, <3>3
            <4>2. Better(s, p, levelAt[ls[k]].price)
                BY <1>2, <1>3, <1>7, <1>13, <3>3, <4>1
            <4> QED BY <1>1, <1>4, <2>2, <3>1, <3>3, <4>1, <4>2
        <3>4. CASE j = place
            <4>1. PICK k \in 1 .. n : i = Now(k)
                BY <1>5, <3>2, <3>4
            <4>2. Better(s, levelAt[ls[k]].price, p)
                BY <1>2, <1>3, <1>7, <1>13, <3>4, <4>1
            <4> QED BY <1>1, <1>4, <2>2, <3>1, <3>4, <4>1, <4>2
        <3>5. CASE i # place /\ j # place
            <4>1. PICK k \in 1 .. n : i = Now(k)
                BY <1>5, <3>2, <3>5
            <4>2. PICK m \in 1 .. n : j = Now(m)
                BY <1>5, <3>2, <3>5
            <4>3. Better(s, levelAt[ls[k]].price, levelAt[ls[m]].price)
                BY <1>3, <1>6, <1>13, <4>1, <4>2 DEF LevelsKnown
            <4> QED BY <1>4, <2>2, <3>1, <4>1, <4>2, <4>3
        <3> QED BY <3>3, <3>4, <3>5
    <2> QED BY <2>1, <2>2
<1>14. LevelsKnown'
    BY <1>10, <1>11, <1>12, <1>13 DEF LevelsKnown
<1>15. sideLevels' \in [Sides -> Seq(L)]
    <2>1. \A t \in Sides : sideLevels'[t] \in Seq(L)
        BY <1>1, <1>4, ListedLevels
    <2>2. sideLevels' = [t \in Sides |-> sideLevels'[t]]
        BY DEF LevelComes, TypeOK
    <2> QED BY <2>1, <2>2
<1>16. ASSUME sideLevels[s] # <<>>, Better(s, BestPrice(s), p)
       PROVE  sideLevels'[s] # <<>> /\ Head(sideLevels'[s]) = Head(sideLevels[s])
    <2>1. 1 \in 1 .. n /\ Head(ls) = ls[1]
        BY <1>3, <1>16 DEF n
    <2>2. 1 < place
        <3>1. Better(s, levelAt[ls[1]].price, p)
            BY <1>16, <2>1 DEF BestPrice
        <3>2. ~Better(s, p, levelAt[ls[1]].price)
            BY <1>3, <1>8, <2>1, <3>1, BetterOrders
        <3>3. ~(1 >= place)
            BY <1>2, <1>3, <2>1, <3>2
        <3> QED BY <1>2, <1>3, <3>3
    <2>3. r[1] = ls[1]
        BY <1>4, <2>1, <2>2 DEF Now
    <2>4. r # <<>> /\ Head(r) = r[1]
        BY <1>3, <1>4
    <2> QED BY <2>1, <2>3, <2>4
<1> QED BY <1>14, <1>15, <1>16

\* A level that goes.
LevelGoes(l, s, p) ==
    /\ levelAt' = [levelAt EXCEPT ![l] = None]
    /\ atPrice' = [atPrice EXCEPT ![PriceToIndex(p)] = Null]
    /\ sideLevels' = [sideLevels EXCEPT ![s] = Without(@, l)]

LEMMA LevelGoesKnown ==
    ASSUME TypeOK, LevelsKnown, NEW l \in Blocks(LevelBlocks), HasLevel(l),
           NEW s, s = levelAt[l].side, NEW p, p = levelAt[l].price, LevelGoes(l, s, p)
    PROVE  /\ LevelsKnown'
           /\ levelAt' \in [Blocks(LevelBlocks) -> Level \cup {None}]
           /\ atPrice' \in [0 .. PriceLevels - 1 -> Blocks(LevelBlocks) \cup {Null}]
           /\ sideLevels' \in [Sides -> Seq(Blocks(LevelBlocks))]
           /\ ~HasLevel(l)'
           /\ \A k \in Blocks(LevelBlocks) : k # l => levelAt'[k] = levelAt[k]
           /\ \A k \in 0 .. PriceLevels - 1 : k # PriceToIndex(p) => atPrice'[k] = atPrice[k]
           /\ \A t \in Sides : t # s => sideLevels'[t] = sideLevels[t]
           /\ Head(sideLevels[s]) # l =>
                  sideLevels'[s] # <<>> /\ Head(sideLevels'[s]) = Head(sideLevels[s])
<1> DEFINE ls == sideLevels[s]
           n == Len(ls)
           L == Blocks(LevelBlocks)
           r == sideLevels'[s]
           place == PlaceOf(l, ls)
           Was(k) == IF k < place THEN k ELSE k + 1
<1>1. /\ s \in Sides /\ p \in Prices /\ PriceToIndex(p) \in 0 .. PriceLevels - 1
      /\ Null \notin L
    BY TypeFacts, Basics, BlocksAssumption
<1>2. /\ ls \in Seq(L) /\ n \in Nat /\ DOMAIN ls = 1 .. n
      /\ \A i \in DOMAIN ls : ls[i] \in L /\ HasLevel(ls[i]) /\ levelAt[ls[i]].side = s
      /\ \A i, j \in DOMAIN ls : ls[i] = ls[j] => i = j
    BY <1>1, ListedLevels
<1>3. place \in 1 .. n /\ ls[place] = l
    <2>1. \E i \in DOMAIN ls : ls[i] = l
        BY DEF LevelsKnown
    <2> QED BY <1>2, <2>1, PlaceIs
<1>4. /\ levelAt' \in [L -> Level \cup {None}] /\ levelAt'[l] = None
      /\ \A k \in L : k # l => levelAt'[k] = levelAt[k]
    BY DEF TypeOK, LevelGoes
<1>5. /\ atPrice' \in [0 .. PriceLevels - 1 -> L \cup {Null}]
      /\ \A k \in 0 .. PriceLevels - 1 :
             atPrice'[k] = IF k = PriceToIndex(p) THEN Null ELSE atPrice[k]
    BY <1>1 DEF TypeOK, LevelGoes
<1>6. /\ r = Without(ls, l) /\ DOMAIN sideLevels' = Sides
      /\ \A t \in Sides : t # s => sideLevels'[t] = sideLevels[t]
    BY <1>1 DEF TypeOK, LevelGoes
<1>7. /\ r \in Seq(L) /\ Len(r) = n - 1 /\ DOMAIN r = 1 .. n - 1
      /\ \A k \in 1 .. n - 1 : r[k] = ls[Was(k)]
    <2>1. r = RemoveAt(ls, place) /\ place \in DOMAIN ls
        BY <1>2, <1>3, <1>6 DEF Without
    <2> DEFINE a == RemoveAt(ls, place)
    <2>2. /\ a \in Seq(L) /\ Len(a) = Len(ls) - 1 /\ DOMAIN a = 1 .. Len(ls) - 1
          /\ \A k \in 1 .. Len(ls) - 1 : a[k] = ls[IF k < place THEN k ELSE k + 1]
        <3>1. ls \in Seq(L) /\ place \in DOMAIN ls
            BY <1>2, <2>1
        <3> HIDE DEF place, ls, L
        <3> QED BY <3>1, Removal
    <2> QED BY <2>1, <2>2
<1> HIDE DEF n, place
<1>8. /\ \A k \in 1 .. n - 1 : Was(k) \in 1 .. n /\ Was(k) # place
      /\ \A i, j \in 1 .. n - 1 : i < j => Was(i) < Was(j)
    BY <1>2, <1>3
<1>9. ASSUME NEW i \in 1 .. n, i # place PROVE \E k \in 1 .. n - 1 : Was(k) = i
    <2>1. CASE i < place
        <3>1. i \in 1 .. n - 1 /\ Was(i) = i
            BY <1>2, <1>3, <2>1
        <3> QED BY <3>1
    <2>2. CASE ~(i < place)
        <3>1. i - 1 \in 1 .. n - 1 /\ Was(i - 1) = i
            BY <1>2, <1>3, <1>9, <2>2
        <3> QED BY <3>1
    <2> QED BY <2>1, <2>2
<1> HIDE DEF Was
<1>10. \A k \in 1 .. n - 1 : r[k] \in L /\ r[k] # l /\ HasLevel(r[k]) /\ levelAt[r[k]].side = s
    <2> SUFFICES ASSUME NEW k \in 1 .. n - 1
                 PROVE  r[k] \in L /\ r[k] # l /\ HasLevel(r[k]) /\ levelAt[r[k]].side = s
        OBVIOUS
    <2>1. r[k] = ls[Was(k)] /\ Was(k) \in DOMAIN ls /\ place \in DOMAIN ls /\ Was(k) # place
        BY <1>2, <1>3, <1>7, <1>8
    <2> QED BY <1>2, <1>3, <2>1
\* the blocks
<1>11. ASSUME NEW k \in L, HasLevel(k)'
       PROVE  /\ \E i \in DOMAIN sideLevels'[levelAt'[k].side] :
                     sideLevels'[levelAt'[k].side][i] = k
              /\ atPrice'[PriceToIndex(levelAt'[k].price)] = k
    <2> DEFINE t == levelAt[k].side
    <2>1. k # l /\ HasLevel(k) /\ levelAt'[k] = levelAt[k]
        BY <1>4, <1>11 DEF HasLevel
    <2>2. PICK i \in DOMAIN sideLevels[t] : sideLevels[t][i] = k
        BY <2>1 DEF LevelsKnown
    <2>3. /\ atPrice[PriceToIndex(levelAt[k].price)] = k
          /\ t \in Sides /\ PriceToIndex(levelAt[k].price) \in 0 .. PriceLevels - 1
        BY <2>1, TypeFacts, Basics DEF LevelsKnown
    <2>4. PriceToIndex(levelAt[k].price) # PriceToIndex(p)
        BY <2>1, <2>3 DEF LevelsKnown
    <2>5. \E m \in DOMAIN sideLevels'[t] : sideLevels'[t][m] = k
        <3>1. CASE t = s
            <4>1. i \in 1 .. n /\ i # place
                BY <1>2, <1>3, <2>1, <2>2, <3>1
            <4>2. PICK m \in 1 .. n - 1 : Was(m) = i
                BY <1>9, <4>1
            <4> QED BY <1>7, <2>2, <3>1, <4>2
        <3>2. CASE t # s
            BY <1>6, <2>2, <2>3, <3>2
        <3> QED BY <3>1, <3>2
    <2> QED BY <1>5, <2>1, <2>3, <2>4, <2>5
\* the lists
<1>12. ASSUME NEW t \in Sides, NEW i \in DOMAIN sideLevels'[t]
       PROVE  HasLevel(sideLevels[t][i])' /\ levelAt'[sideLevels'[t][i]].side = t
    <2> DEFINE k == sideLevels'[t][i]
    <2>1. k \in L /\ k # l /\ HasLevel(k) /\ levelAt[k].side = t
        <3>1. CASE t = s
            BY <1>7, <1>10, <3>1
        <3>2. CASE t # s
            BY <1>6, <3>2, ListedLevels
        <3> QED BY <3>1, <3>2
    <2>2. levelAt'[k] = levelAt[k]
        BY <1>4, <2>1
    <2> QED BY <2>1, <2>2 DEF HasLevel
\* the table
<1>13. ASSUME NEW k \in 0 .. PriceLevels - 1, atPrice'[k] # Null
       PROVE  HasLevel(atPrice[k])' /\ PriceToIndex(levelAt'[atPrice'[k]].price) = k
    <2>1. /\ k # PriceToIndex(p) /\ atPrice'[k] = atPrice[k] /\ atPrice[k] \in L
          /\ HasLevel(atPrice[k]) /\ PriceToIndex(levelAt[atPrice[k]].price) = k
        BY <1>5, <1>13, TypeFacts DEF LevelsKnown
    <2>2. atPrice[k] # l
        BY <2>1
    <2>3. levelAt'[atPrice[k]] = levelAt[atPrice[k]]
        BY <1>4, <2>1, <2>2
    <2> QED BY <2>1, <2>3 DEF HasLevel
\* the order
<1>14. ASSUME NEW t \in Sides, NEW i \in DOMAIN sideLevels'[t], NEW j \in DOMAIN sideLevels'[t],
              i < j
       PROVE  Better(t, levelAt'[sideLevels'[t][i]].price, levelAt'[sideLevels'[t][j]].price)
    <2>1. CASE t # s
        <3>1. /\ sideLevels'[t] = sideLevels[t]
              /\ sideLevels[t][i] \in L /\ sideLevels[t][i] # l
              /\ sideLevels[t][j] \in L /\ sideLevels[t][j] # l
            BY <1>6, <2>1, ListedLevels
        <3> QED BY <1>4, <1>14, <3>1 DEF LevelsKnown
    <2>2. CASE t = s
        <3>1. i \in 1 .. n - 1 /\ j \in 1 .. n - 1
            BY <1>7, <2>2
        <3>2. Better(s, levelAt[ls[Was(i)]].price, levelAt[ls[Was(j)]].price)
            BY <1>1, <1>2, <1>8, <1>14, <3>1 DEF LevelsKnown
        <3>3. /\ levelAt'[r[i]] = levelAt[r[i]] /\ r[i] = ls[Was(i)]
              /\ levelAt'[r[j]] = levelAt[r[j]] /\ r[j] = ls[Was(j)]
            BY <1>4, <1>7, <1>10, <3>1
        <3> QED BY <2>2, <3>2, <3>3
    <2> QED BY <2>1, <2>2
<1>15. LevelsKnown'
    BY <1>11, <1>12, <1>13, <1>14 DEF LevelsKnown
<1>16. sideLevels' \in [Sides -> Seq(L)]
    <2>1. \A t \in Sides : sideLevels'[t] \in Seq(L)
        BY <1>6, <1>7, ListedLevels
    <2>2. sideLevels' = [t \in Sides |-> sideLevels'[t]]
        BY DEF LevelGoes, TypeOK
    <2> QED BY <2>1, <2>2
<1>17. ASSUME Head(sideLevels[s]) # l
       PROVE  sideLevels'[s] # <<>> /\ Head(sideLevels'[s]) = Head(sideLevels[s])
    <2>1. 1 \in 1 .. n /\ Head(ls) = ls[1]
        BY <1>2, <1>3 DEF n
    <2>2. 1 < place /\ 1 \in 1 .. n - 1
        <3>1. place # 1
            BY <1>3, <1>17, <2>1
        <3> QED BY <1>2, <1>3, <3>1
    <2>3. r[1] = ls[1]
        BY <1>7, <2>2 DEF Was
    <2>4. r # <<>> /\ Head(r) = r[1]
        BY <1>7, <2>2
    <2> QED BY <2>1, <2>3, <2>4
<1> QED BY <1>4, <1>5, <1>6, <1>15, <1>16, <1>17 DEF HasLevel

\* A level whose queue changes.
QueueChanges(l, queue) ==
    /\ levelAt' = [levelAt EXCEPT ![l].queue = queue]
    /\ UNCHANGED <<atPrice, sideLevels>>

LEMMA QueueChangesKnown ==
    ASSUME TypeOK, LevelsKnown, NEW l \in Blocks(LevelBlocks), HasLevel(l),
           NEW queue \in Seq(Blocks(OrderBlocks)), QueueChanges(l, queue)
    PROVE  /\ LevelsKnown'
           /\ levelAt' \in [Blocks(LevelBlocks) -> Level \cup {None}]
           /\ levelAt'[l].queue = queue
           /\ \A k \in Blocks(LevelBlocks) : k # l => levelAt'[k] = levelAt[k]
           /\ \A k \in Blocks(LevelBlocks) :
                  /\ HasLevel(k)' <=> HasLevel(k)
                  /\ HasLevel(k) => /\ levelAt'[k].side = levelAt[k].side
                                    /\ levelAt'[k].price = levelAt[k].price
<1> DEFINE o == levelAt[l]
           r == [o EXCEPT !.queue = queue]
           L == Blocks(LevelBlocks)
<1>1. o \in Level
    BY TypeFacts
<1>2. r \in Level /\ r.side = o.side /\ r.price = o.price /\ r.queue = queue /\ r # None
    <2>1. r \in Level /\ r.side = o.side /\ r.price = o.price /\ r.queue = queue
        BY <1>1 DEF Level
    <2> QED BY <2>1, Basics
<1>3. DOMAIN levelAt' = L /\ \A k \in L : levelAt'[k] = IF k = l THEN r ELSE levelAt[k]
    BY DEF TypeOK, QueueChanges
<1>4. o.side = levelAt[l].side /\ o.price = levelAt[l].price
    OBVIOUS
<1> HIDE DEF r, o
<1>5. levelAt' \in [L -> Level \cup {None}]
    <2>1. \A k \in L : levelAt'[k] \in Level \cup {None}
        BY <1>2, <1>3 DEF TypeOK
    <2>2. levelAt' = [k \in L |-> levelAt'[k]]
        BY DEF QueueChanges, TypeOK
    <2> QED BY <2>1, <2>2
<1>6. \A k \in L : /\ HasLevel(k)' <=> HasLevel(k)
                   /\ HasLevel(k) => /\ levelAt'[k].side = levelAt[k].side
                                     /\ levelAt'[k].price = levelAt[k].price
    BY <1>2, <1>3, <1>4 DEF HasLevel
<1>7. atPrice' = atPrice /\ sideLevels' = sideLevels
    BY DEF QueueChanges
<1>8. ASSUME NEW k \in L, HasLevel(k)'
      PROVE  /\ \E i \in DOMAIN sideLevels'[levelAt'[k].side] :
                    sideLevels'[levelAt'[k].side][i] = k
             /\ atPrice'[PriceToIndex(levelAt'[k].price)] = k
    BY <1>6, <1>7, <1>8 DEF LevelsKnown
<1>9. ASSUME NEW t \in Sides, NEW i \in DOMAIN sideLevels'[t]
      PROVE  HasLevel(sideLevels[t][i])' /\ levelAt'[sideLevels'[t][i]].side = t
    <2> DEFINE k == sideLevels[t][i]
    <2>1. k \in L /\ HasLevel(k) /\ levelAt[k].side = t /\ sideLevels'[t][i] = k
        BY <1>7, ListedLevels
    <2>2. levelAt'[k] # None /\ levelAt'[k].side = t
        BY <1>6, <2>1 DEF HasLevel
    <2> QED BY <2>1, <2>2 DEF HasLevel
<1>10. ASSUME NEW k \in 0 .. PriceLevels - 1, atPrice'[k] # Null
       PROVE  HasLevel(atPrice[k])' /\ PriceToIndex(levelAt'[atPrice'[k]].price) = k
    <2> DEFINE m == atPrice[k]
    <2>1. m \in L /\ HasLevel(m) /\ PriceToIndex(levelAt[m].price) = k /\ atPrice'[k] = m
        BY <1>7, <1>10, TypeFacts DEF LevelsKnown
    <2>2. levelAt'[m] # None /\ levelAt'[m].price = levelAt[m].price
        BY <1>6, <2>1 DEF HasLevel
    <2> QED BY <2>1, <2>2 DEF HasLevel
<1>11. ASSUME NEW t \in Sides, NEW i \in DOMAIN sideLevels'[t], NEW j \in DOMAIN sideLevels'[t],
              i < j
       PROVE  Better(t, levelAt'[sideLevels'[t][i]].price, levelAt'[sideLevels'[t][j]].price)
    <2>1. /\ sideLevels'[t] = sideLevels[t]
          /\ sideLevels[t][i] \in L /\ HasLevel(sideLevels[t][i])
          /\ sideLevels[t][j] \in L /\ HasLevel(sideLevels[t][j])
        BY <1>7, ListedLevels
    <2>2. Better(t, levelAt[sideLevels[t][i]].price, levelAt[sideLevels[t][j]].price)
        BY <1>7, <1>11 DEF LevelsKnown
    <2> QED BY <1>6, <2>1, <2>2
<1>12. LevelsKnown'
    BY <1>8, <1>9, <1>10, <1>11 DEF LevelsKnown
<1> QED BY <1>2, <1>3, <1>5, <1>6, <1>12

-----------------------------------------------------------------------------
(* The queues.                                                             *)

\* What a level's queue has in it.
LEMMA QueueFacts ==
    ASSUME TypeOK, OrdersKnown, QueuesKnown, NEW l \in Blocks(LevelBlocks), HasLevel(l)
    PROVE  LET queue == levelAt[l].queue
           IN  /\ queue \in Seq(Blocks(OrderBlocks)) /\ Len(queue) \in Nat
               /\ DOMAIN queue = 1 .. Len(queue) /\ 1 \in DOMAIN queue
               /\ \A i \in DOMAIN queue :
                      /\ queue[i] \in Blocks(OrderBlocks) /\ HasOrder(queue[i])
                      /\ orderAt[queue[i]] \in Order
                      /\ orderAt[queue[i]].side = levelAt[l].side
                      /\ orderAt[queue[i]].price = levelAt[l].price
               /\ \A i, j \in DOMAIN queue : queue[i] = queue[j] => i = j
<1> DEFINE queue == levelAt[l].queue
           n == Len(queue)
<1>1. queue \in Seq(Blocks(OrderBlocks)) /\ QueueKnown(l)
    BY TypeFacts DEF QueuesKnown
<1>2. n \in Nat /\ DOMAIN queue = 1 .. n
    BY <1>1, LenProperties
<1>3. 1 \in DOMAIN queue
    <2>1. queue # <<>>
        BY <1>1 DEF QueueKnown
    <2>2. n # 0
        BY <1>1, <2>1, EmptySeq
    <2> QED BY <1>2, <2>2
<1>4. ASSUME NEW i \in DOMAIN queue
      PROVE  /\ queue[i] \in Blocks(OrderBlocks) /\ HasOrder(queue[i])
             /\ orderAt[queue[i]] \in Order
             /\ orderAt[queue[i]].side = levelAt[l].side
             /\ orderAt[queue[i]].price = levelAt[l].price
    <2>1. queue[i] \in Blocks(OrderBlocks)
        BY <1>1, <1>2, ElementOfSeq
    <2>2. /\ HasOrder(queue[i])
          /\ orderAt[queue[i]].side = levelAt[l].side
          /\ orderAt[queue[i]].price = levelAt[l].price
        BY <1>1 DEF QueueKnown
    <2> QED BY <2>1, <2>2, TypeFacts
<1>5. ASSUME NEW i \in DOMAIN queue, NEW j \in DOMAIN queue, queue[i] = queue[j], i # j
      PROVE  FALSE
    <2> DEFINE x == orderAt[queue[i]].oid
    <2>1. i < j \/ j < i
        BY <1>2, <1>5
    <2>2. Earlier(x, x)
        BY <1>1, <1>5, <2>1 DEF QueueKnown
    <2>3. PICK m \in DOMAIN live : live[m] = orderAt[queue[i]]
        BY <1>4 DEF OrdersKnown
    <2>4. m < m
        BY <2>2, <2>3 DEF Earlier
    <2> QED BY <2>3, <2>4, TypeFacts
<1> QED BY <1>1, <1>2, <1>3, <1>4, <1>5

\* An order is in one level, the one at its price.
LEMMA OrderHasLevel ==
    ASSUME TypeOK, OrdersKnown, LevelsKnown, QueuesKnown,
           NEW b \in Blocks(OrderBlocks), HasOrder(b),
           NEW l, l = atPrice[PriceToIndex(orderAt[b].price)]
    PROVE  /\ l \in Blocks(LevelBlocks) /\ HasLevel(l)
           /\ levelAt[l].side = orderAt[b].side /\ levelAt[l].price = orderAt[b].price
           /\ \E i \in DOMAIN levelAt[l].queue : levelAt[l].queue[i] = b
           /\ \A k \in Blocks(LevelBlocks) :
                  HasLevel(k) /\ (\E i \in DOMAIN levelAt[k].queue : levelAt[k].queue[i] = b)
                      => k = l
<1>1. /\ orderAt[b].price \in Prices
      /\ PriceToIndex(orderAt[b].price) \in 0 .. PriceLevels - 1
    BY TypeFacts, Basics DEF Order
<1>2. l # Null /\ \E i \in DOMAIN levelAt[l].queue : levelAt[l].queue[i] = b
    BY DEF QueuesKnown, IsQueued
<1>3. l \in Blocks(LevelBlocks) /\ HasLevel(l)
    BY <1>1, <1>2, TypeFacts DEF LevelsKnown
<1>4. ASSUME NEW k \in Blocks(LevelBlocks), HasLevel(k),
             NEW i \in DOMAIN levelAt[k].queue, levelAt[k].queue[i] = b
      PROVE  levelAt[k].side = orderAt[b].side /\ levelAt[k].price = orderAt[b].price /\ k = l
    <2>1. levelAt[k].side = orderAt[b].side /\ levelAt[k].price = orderAt[b].price
        BY <1>4, QueueFacts
    <2>2. atPrice[PriceToIndex(levelAt[k].price)] = k
        BY <1>4 DEF LevelsKnown
    <2> QED BY <2>1, <2>2
<1> QED BY <1>2, <1>3, <1>4

\* A queue stays known if nothing happens to its orders but to their quantities.
LEMMA QueueStays ==
    ASSUME NEW l, QueueKnown(l), levelAt'[l] = levelAt[l],
           \A i \in DOMAIN levelAt[l].queue :
               /\ HasOrder(levelAt[l].queue[i]) => orderAt'[levelAt[l].queue[i]] # None
               /\ orderAt'[levelAt[l].queue[i]].oid = orderAt[levelAt[l].queue[i]].oid
               /\ orderAt'[levelAt[l].queue[i]].side = orderAt[levelAt[l].queue[i]].side
               /\ orderAt'[levelAt[l].queue[i]].price = orderAt[levelAt[l].queue[i]].price,
           \A i, j \in DOMAIN levelAt[l].queue : \A x, y :
               /\ x = orderAt[levelAt[l].queue[i]].oid
               /\ y = orderAt[levelAt[l].queue[j]].oid
               /\ Earlier(x, y)
               => Earlier(x, y)'
    PROVE  QueueKnown(l)'
<1> DEFINE q == levelAt[l].queue
<1>1. levelAt'[l].queue = q
    OBVIOUS
<1>2. q # <<>>
    BY DEF QueueKnown
<1>3. ASSUME NEW i \in DOMAIN q
      PROVE  /\ orderAt'[q[i]] # None
             /\ orderAt'[q[i]].side = levelAt'[l].side
             /\ orderAt'[q[i]].price = levelAt'[l].price
    BY DEF QueueKnown
<1>4. ASSUME NEW i \in DOMAIN q, NEW j \in DOMAIN q, i < j,
             NEW x, x = orderAt'[q[i]].oid, NEW y, y = orderAt'[q[j]].oid
      PROVE  Earlier(x, y)'
    <2>1. x = orderAt[q[i]].oid /\ y = orderAt[q[j]].oid
        BY <1>4
    <2>2. Earlier(x, y)
        BY <1>4, <2>1 DEF QueueKnown
    <2> QED BY <2>1, <2>2
<1>5. ASSUME NEW i \in DOMAIN q, NEW j \in DOMAIN q, i < j
      PROVE  \A m, n \in DOMAIN live' :
                 live'[m].oid = orderAt'[q[i]].oid /\ live'[n].oid = orderAt'[q[j]].oid => m < n
    BY <1>4, <1>5 DEF Earlier
<1> QED BY <1>1, <1>2, <1>3, <1>5 DEF QueueKnown, HasOrder, Earlier

\* An order that arrives.
OrderComes(b, o) ==
    /\ ~HasOrder(b) /\ oidToOrder[o.oid] = Null
    /\ orderAt' = [orderAt EXCEPT ![b] = o]
    /\ live' = Append(live, o)

LEMMA OrderComesFacts ==
    ASSUME TypeOK, OrdersKnown, NEW b \in Blocks(OrderBlocks), NEW o \in Order,
           OrderComes(b, o)
    PROVE  /\ o # None /\ orderAt'[b] = o
           /\ \A c \in Blocks(OrderBlocks) : c # b => orderAt'[c] = orderAt[c]
           /\ \A c \in Blocks(OrderBlocks) :
                  HasOrder(c) => c # b /\ orderAt'[c] = orderAt[c] /\ orderAt[c].oid # o.oid
           /\ \A x, y : x # o.oid /\ y # o.oid /\ Earlier(x, y) => Earlier(x, y)'
           /\ \A x : x # o.oid => Earlier(x, o.oid)'
<1>1. o # None
    BY Basics
<1>2. orderAt'[b] = o /\ \A c \in Blocks(OrderBlocks) : c # b => orderAt'[c] = orderAt[c]
    BY DEF OrderComes, TypeOK
<1>3. \A c \in Blocks(OrderBlocks) :
          HasOrder(c) => c # b /\ orderAt'[c] = orderAt[c] /\ orderAt[c].oid # o.oid
    BY <1>2, NewId DEF OrderComes
<1>4. /\ \A x, y : x # o.oid /\ y # o.oid /\ Earlier(x, y) => Earlier(x, y)'
      /\ \A x : x # o.oid => Earlier(x, o.oid)'
    <2>1. ASSUME NEW x, x # o.oid
          PROVE  /\ \A y : y # o.oid /\ Earlier(x, y) => Earlier(x, y)'
                 /\ Earlier(x, o.oid)'
        BY <2>1, AddIsLater DEF OrderComes
    <2> QED BY <2>1
<1> QED BY <1>1, <1>2, <1>3, <1>4

LEMMA OtherQueuesStay ==
    ASSUME TypeOK, OrdersKnown, QueuesKnown,
           NEW b \in Blocks(OrderBlocks), NEW o \in Order, OrderComes(b, o),
           NEW k \in Blocks(LevelBlocks), HasLevel(k), levelAt'[k] = levelAt[k]
    PROVE  QueueKnown(k)'
<1>1. /\ \A c \in Blocks(OrderBlocks) :
             HasOrder(c) => orderAt'[c] = orderAt[c] /\ orderAt[c].oid # o.oid
      /\ \A x, y : x # o.oid /\ y # o.oid /\ Earlier(x, y) => Earlier(x, y)'
    BY OrderComesFacts
<1>2. QueueKnown(k)
    BY DEF QueuesKnown
<1>3. \A i \in DOMAIN levelAt[k].queue :
          levelAt[k].queue[i] \in Blocks(OrderBlocks) /\ HasOrder(levelAt[k].queue[i])
    BY QueueFacts
<1>4. \A i \in DOMAIN levelAt[k].queue :
          /\ orderAt'[levelAt[k].queue[i]] = orderAt[levelAt[k].queue[i]]
          /\ orderAt[levelAt[k].queue[i]] # None
          /\ orderAt[levelAt[k].queue[i]].oid # o.oid
    BY <1>1, <1>3 DEF HasOrder
<1> QED BY <1>1, <1>2, <1>4, QueueStays

LEMMA NewLevelQueues ==
    ASSUME TypeOK, OrdersKnown, LevelsKnown, QueuesKnown,
           NEW b \in Blocks(OrderBlocks), NEW o \in Order, OrderComes(b, o),
           NEW l \in Blocks(LevelBlocks), ~HasLevel(l),
           atPrice[PriceToIndex(o.price)] = Null, LevelComes(l, o.side, o.price, <<b>>)
    PROVE  QueuesKnown'
<1>1. /\ orderAt'[b] = o /\ o # None
      /\ \A c \in Blocks(OrderBlocks) : c # b => orderAt'[c] = orderAt[c]
    BY OrderComesFacts
<1>2. /\ HasLevel(l)' /\ levelAt'[l].side = o.side /\ levelAt'[l].price = o.price
      /\ levelAt'[l].queue = <<b>>
      /\ \A k \in Blocks(LevelBlocks) : k # l => levelAt'[k] = levelAt[k]
      /\ \A k \in 0 .. PriceLevels - 1 :
             atPrice'[k] = IF k = PriceToIndex(o.price) THEN l ELSE atPrice[k]
    <2> DEFINE s == o.side
               p == o.price
               queue == <<b>>
    <2>1. /\ s \in Sides /\ p \in Prices /\ queue \in Seq(Blocks(OrderBlocks))
          /\ LevelComes(l, s, p, queue)
        BY DEF Order
    <2> HIDE DEF s, p, queue
    <2>2. /\ HasLevel(l)' /\ levelAt'[l].side = s /\ levelAt'[l].price = p
          /\ levelAt'[l].queue = queue
          /\ \A k \in Blocks(LevelBlocks) : k # l => levelAt'[k] = levelAt[k]
          /\ \A k \in 0 .. PriceLevels - 1 :
                 atPrice'[k] = IF k = PriceToIndex(p) THEN l ELSE atPrice[k]
        BY <2>1, LevelComesFacts
    <2> QED BY <2>2 DEF s, p, queue
<1>3. ASSUME NEW k \in Blocks(LevelBlocks), HasLevel(k)' PROVE QueueKnown(k)'
    <2>1. CASE k = l
        <3> DEFINE queue == <<b>>
        <3>1. DOMAIN queue = {1} /\ queue[1] = b /\ queue # <<>>
            OBVIOUS
        <3> HIDE DEF queue
        <3>2. levelAt'[l].queue = queue
            BY <1>2 DEF queue
        <3>3. \A i \in DOMAIN queue :
                  /\ orderAt'[queue[i]] # None
                  /\ orderAt'[queue[i]].side = levelAt'[l].side
                  /\ orderAt'[queue[i]].price = levelAt'[l].price
            BY <1>1, <1>2, <3>1
        <3>4. \A i, j \in DOMAIN queue : ~(i < j)
            BY <3>1
        <3> QED BY <2>1, <3>1, <3>2, <3>3, <3>4 DEF QueueKnown, HasOrder
    <2>2. CASE k # l
        <3>1. levelAt'[k] = levelAt[k] /\ HasLevel(k)
            BY <1>2, <1>3, <2>2 DEF HasLevel
        <3> QED BY <3>1, OtherQueuesStay
    <2> QED BY <2>1, <2>2
<1>4. ASSUME NEW c \in Blocks(OrderBlocks), HasOrder(c)' PROVE IsQueued(c)'
    <2>1. CASE c = b
        <3>1. /\ atPrice'[PriceToIndex(orderAt'[c].price)] = l
              /\ 1 \in DOMAIN levelAt'[l].queue /\ levelAt'[l].queue[1] = c
            BY <1>1, <1>2, <2>1, Basics DEF Order
        <3> QED BY <3>1, Basics, BlocksAssumption DEF IsQueued
    <2>2. CASE c # b
        <3> DEFINE m == atPrice[PriceToIndex(orderAt[c].price)]
        <3>1. orderAt'[c] = orderAt[c] /\ HasOrder(c)
            BY <1>1, <1>4, <2>2 DEF HasOrder
        <3>2. /\ m \in Blocks(LevelBlocks) /\ HasLevel(m)
              /\ \E i \in DOMAIN levelAt[m].queue : levelAt[m].queue[i] = c
              /\ PriceToIndex(orderAt[c].price) \in 0 .. PriceLevels - 1
            <4>1. orderAt[c].price \in Prices
                BY <3>1, TypeFacts DEF Order
            <4> QED BY <3>1, <4>1, OrderHasLevel, Basics
        <3>3. m # Null /\ m # l
            BY <3>2, Basics, BlocksAssumption
        <3>4. atPrice'[PriceToIndex(orderAt'[c].price)] = m /\ levelAt'[m] = levelAt[m]
            BY <1>2, <3>1, <3>2, <3>3
        <3> HIDE DEF m
        <3> QED BY <3>2, <3>3, <3>4 DEF IsQueued
    <2> QED BY <2>1, <2>2
<1> QED BY <1>3, <1>4 DEF QueuesKnown

\* A queue that an order joins.
LEMMA JoinedQueues ==
    ASSUME TypeOK, OrdersKnown, LevelsKnown, QueuesKnown,
           NEW b \in Blocks(OrderBlocks), NEW o \in Order, OrderComes(b, o),
           NEW l \in Blocks(LevelBlocks), HasLevel(l),
           levelAt[l].side = o.side, levelAt[l].price = o.price,
           QueueChanges(l, Append(levelAt[l].queue, b))
    PROVE  QueuesKnown'
<1> DEFINE q == levelAt[l].queue
           n == Len(q)
           r == Append(q, b)
<1>1. /\ orderAt'[b] = o /\ o # None
      /\ \A c \in Blocks(OrderBlocks) : c # b => orderAt'[c] = orderAt[c]
      /\ \A c \in Blocks(OrderBlocks) :
             HasOrder(c) => c # b /\ orderAt'[c] = orderAt[c] /\ orderAt[c].oid # o.oid
      /\ \A x, y : x # o.oid /\ y # o.oid /\ Earlier(x, y) => Earlier(x, y)'
      /\ \A x : x # o.oid => Earlier(x, o.oid)'
    BY OrderComesFacts
<1>2. /\ q \in Seq(Blocks(OrderBlocks)) /\ n \in Nat /\ DOMAIN q = 1 .. n
      /\ \A i \in DOMAIN q : /\ q[i] \in Blocks(OrderBlocks) /\ HasOrder(q[i])
                             /\ orderAt[q[i]].side = o.side /\ orderAt[q[i]].price = o.price
    BY QueueFacts
<1>3. /\ r \in Seq(Blocks(OrderBlocks)) /\ DOMAIN r = 1 .. n + 1 /\ r[n + 1] = b /\ r # <<>>
      /\ \A i \in 1 .. n : r[i] = q[i]
    <2>1. r \in Seq(Blocks(OrderBlocks)) /\ Len(r) = n + 1 /\ r[n + 1] = b
          /\ \A i \in 1 .. n : r[i] = q[i]
        BY <1>2, AppendProperties
    <2>2. DOMAIN r = 1 .. n + 1 /\ n + 1 \in DOMAIN r
        BY <1>2, <2>1, LenProperties
    <2> HIDE DEF r, n
    <2>3. r # <<>>
        BY <1>2, <2>1, <2>2
    <2> QED BY <2>1, <2>2, <2>3
<1>4. /\ levelAt'[l].queue = r
      /\ \A k \in Blocks(LevelBlocks) : k # l => levelAt'[k] = levelAt[k]
      /\ \A k \in Blocks(LevelBlocks) :
             /\ HasLevel(k)' <=> HasLevel(k)
             /\ HasLevel(k) => /\ levelAt'[k].side = levelAt[k].side
                               /\ levelAt'[k].price = levelAt[k].price
      /\ atPrice' = atPrice
    BY <1>3, QueueChangesKnown DEF QueueChanges
<1> HIDE DEF n, r
<1>5. ASSUME NEW i \in DOMAIN r
      PROVE  /\ orderAt'[r[i]] # None
             /\ orderAt'[r[i]].side = o.side /\ orderAt'[r[i]].price = o.price
    <2>1. CASE i = n + 1
        BY <1>1, <1>3, <2>1
    <2>2. CASE i # n + 1
        <3>1. i \in DOMAIN q /\ r[i] = q[i]
            BY <1>2, <1>3, <2>2
        <3> QED BY <1>1, <1>2, <3>1 DEF HasOrder
    <2> QED BY <2>1, <2>2
<1>6. ASSUME NEW i \in DOMAIN r, NEW j \in DOMAIN r, i < j,
             NEW x, x = orderAt'[r[i]].oid, NEW y, y = orderAt'[r[j]].oid
      PROVE  Earlier(x, y)'
    <2>1. i \in DOMAIN q /\ r[i] = q[i]
        BY <1>2, <1>3, <1>6
    <2>2. x = orderAt[q[i]].oid /\ x # o.oid
        BY <1>1, <1>2, <1>6, <2>1
    <2>3. CASE j = n + 1
        <3>1. y = o.oid
            BY <1>1, <1>3, <1>6, <2>3
        <3> QED BY <1>1, <2>2, <3>1
    <2>4. CASE j # n + 1
        <3>1. j \in DOMAIN q /\ r[j] = q[j]
            BY <1>2, <1>3, <2>4
        <3>2. y = orderAt[q[j]].oid /\ y # o.oid
            BY <1>1, <1>2, <1>6, <3>1
        <3>3. Earlier(x, y)
            BY <1>6, <2>1, <2>2, <3>1, <3>2 DEF QueuesKnown, QueueKnown
        <3> QED BY <1>1, <2>2, <3>2, <3>3
    <2> QED BY <2>3, <2>4
<1>7. ASSUME NEW i \in DOMAIN r, NEW j \in DOMAIN r, i < j
      PROVE  \A m, k \in DOMAIN live' :
                 live'[m].oid = orderAt'[r[i]].oid /\ live'[k].oid = orderAt'[r[j]].oid => m < k
    BY <1>6, <1>7 DEF Earlier
<1>8. QueueKnown(l)'
    BY <1>3, <1>4, <1>5, <1>7 DEF QueueKnown, HasOrder, Earlier
<1>9. ASSUME NEW k \in Blocks(LevelBlocks), HasLevel(k)' PROVE QueueKnown(k)'
    <2>1. CASE k # l
        BY <1>4, <1>9, <2>1, OtherQueuesStay
    <2> QED BY <1>8, <2>1
<1>10. ASSUME NEW c \in Blocks(OrderBlocks), HasOrder(c)' PROVE IsQueued(c)'
    <2>1. CASE c = b
        <3>1. atPrice[PriceToIndex(o.price)] = l
            BY DEF LevelsKnown
        <3>2. atPrice'[PriceToIndex(orderAt'[c].price)] = l
            BY <1>1, <1>4, <2>1, <3>1
        <3>3. n + 1 \in DOMAIN levelAt'[l].queue /\ levelAt'[l].queue[n + 1] = c
            BY <1>2, <1>3, <1>4, <2>1
        <3> QED BY <3>2, <3>3, Basics, BlocksAssumption DEF IsQueued
    <2>2. CASE c # b
        <3> DEFINE m == atPrice[PriceToIndex(orderAt[c].price)]
        <3>1. orderAt'[c] = orderAt[c] /\ HasOrder(c)
            BY <1>1, <1>10, <2>2 DEF HasOrder
        <3>2. m \in Blocks(LevelBlocks) /\ HasLevel(m)
            BY <3>1, OrderHasLevel
        <3>3. PICK i \in DOMAIN levelAt[m].queue : levelAt[m].queue[i] = c
            BY <3>1, OrderHasLevel
        <3>4. m # Null /\ atPrice'[PriceToIndex(orderAt'[c].price)] = m
            BY <1>4, <3>1, <3>2, Basics, BlocksAssumption
        <3>5. i \in DOMAIN levelAt'[m].queue /\ levelAt'[m].queue[i] = c
            <4>1. CASE m = l
                <5>1. i \in 1 .. n /\ q[i] = c
                    BY <1>2, <3>3, <4>1
                <5>2. i \in DOMAIN r /\ r[i] = c
                    BY <1>2, <1>3, <5>1
                <5> QED BY <1>4, <4>1, <5>2
            <4>2. CASE m # l
                BY <1>4, <3>2, <3>3, <4>2
            <4> QED BY <4>1, <4>2
        <3> HIDE DEF m
        <3> QED BY <3>4, <3>5 DEF IsQueued
    <2> QED BY <2>1, <2>2
<1> QED BY <1>9, <1>10 DEF QueuesKnown

\* What is left of a sequence without duplicates when one element has gone.
Lacks(S, s, x, r) ==
    /\ r \in Seq(S)
    /\ \A k \in DOMAIN r : \E m \in DOMAIN s : r[k] = s[m] /\ s[m] # x
    /\ \A m \in DOMAIN s : s[m] # x => \E k \in DOMAIN r : r[k] = s[m]
    /\ \A i, j \in DOMAIN r :
           i < j => \E m, n \in DOMAIN s : m < n /\ r[i] = s[m] /\ r[j] = s[n]
    /\ s # <<x>> => r # <<>>

\* Without leaves out just that element.
LEMMA WithoutFacts ==
    ASSUME NEW S, NEW s \in Seq(S), NEW x, \E k \in DOMAIN s : s[k] = x,
           \A i, j \in DOMAIN s : s[i] = s[j] => i = j
    PROVE  Lacks(S, s, x, Without(s, x))
<1> DEFINE place == PlaceOf(x, s)
           n == Len(s)
           r == RemoveAt(s, place)
           Was(k) == IF k < place THEN k ELSE k + 1
<1>1. n \in Nat /\ DOMAIN s = 1 .. n /\ \A k \in 1 .. n : s[k] \in S
    BY LenProperties, ElementOfSeq
<1>2. place \in DOMAIN s /\ s[place] = x
    BY PlaceIs
<1>3. Without(s, x) = r
    BY DEF Without
<1> HIDE DEF place
<1>4. /\ r \in Seq(S) /\ Len(r) = n - 1 /\ DOMAIN r = 1 .. n - 1
      /\ \A k \in 1 .. n - 1 : r[k] = s[Was(k)]
    BY <1>2, Removal
<1> HIDE DEF r, n
<1>5. /\ \A k \in 1 .. n - 1 : Was(k) \in 1 .. n /\ Was(k) # place
      /\ \A i, j \in 1 .. n - 1 : i < j => Was(i) < Was(j)
    BY <1>1, <1>2
<1>6. ASSUME NEW m \in 1 .. n, m # place PROVE \E k \in 1 .. n - 1 : Was(k) = m
    <2>1. CASE m < place
        <3>1. m \in 1 .. n - 1 /\ Was(m) = m
            BY <1>1, <1>2, <2>1
        <3> QED BY <3>1
    <2>2. CASE ~(m < place)
        <3>1. m - 1 \in 1 .. n - 1 /\ Was(m - 1) = m
            BY <1>1, <1>2, <1>6, <2>2
        <3> QED BY <3>1
    <2> QED BY <2>1, <2>2
<1> HIDE DEF Was
<1>7. \A k \in DOMAIN r : \E m \in DOMAIN s : r[k] = s[m] /\ s[m] # x
    <2> SUFFICES ASSUME NEW k \in 1 .. n - 1
                 PROVE  \E m \in DOMAIN s : r[k] = s[m] /\ s[m] # x
        BY <1>4
    <2>1. Was(k) \in DOMAIN s /\ r[k] = s[Was(k)] /\ Was(k) # place
        BY <1>1, <1>4, <1>5
    <2>2. s[Was(k)] # x
        BY <1>2, <2>1
    <2> QED BY <2>1, <2>2
<1>8. \A m \in DOMAIN s : s[m] # x => \E k \in DOMAIN r : r[k] = s[m]
    <2> SUFFICES ASSUME NEW m \in 1 .. n, s[m] # x
                 PROVE  \E k \in DOMAIN r : r[k] = s[m]
        BY <1>1
    <2>1. PICK k \in 1 .. n - 1 : Was(k) = m
        BY <1>2, <1>6
    <2> QED BY <1>4, <2>1
<1>9. \A i, j \in DOMAIN r :
          i < j => \E m, k \in DOMAIN s : m < k /\ r[i] = s[m] /\ r[j] = s[k]
    <2> SUFFICES ASSUME NEW i \in 1 .. n - 1, NEW j \in 1 .. n - 1, i < j
                 PROVE  \E m, k \in DOMAIN s : m < k /\ r[i] = s[m] /\ r[j] = s[k]
        BY <1>4
    <2>1. /\ Was(i) \in DOMAIN s /\ Was(j) \in DOMAIN s /\ Was(i) < Was(j)
          /\ r[i] = s[Was(i)] /\ r[j] = s[Was(j)]
        BY <1>1, <1>4, <1>5
    <2> QED BY <2>1
<1>10. ASSUME s # <<x>> PROVE r # <<>>
    <2>1. n # 1
        <3> SUFFICES ASSUME n = 1 PROVE FALSE
            OBVIOUS
        <3>1. DOMAIN s = {1} /\ s[1] = x
            BY <1>1, <1>2
        <3>2. s \in Seq(S) /\ Len(s) = 1
            BY DEF n
        <3>3. s = [k \in 1 .. 1 |-> s[k]]
            BY <3>1, <3>2
        <3>4. s = <<x>>
            BY <3>1, <3>3
        <3> QED BY <1>10, <3>4
    <2>2. Len(r) # 0
        BY <1>1, <1>2, <1>4, <2>1
    <2> QED BY <2>2
<1> QED BY <1>3, <1>4, <1>7, <1>8, <1>9, <1>10 DEF Lacks

\* An order that goes.
OrderGoes(i, b) ==
    /\ b = oidToOrder[live[i].oid]
    /\ orderAt' = [orderAt EXCEPT ![b] = None]
    /\ live' = RemoveAt(live, i)

LEMMA OrderGoesFacts ==
    ASSUME TypeOK, OrdersKnown, NEW i \in DOMAIN live, NEW b, OrderGoes(i, b)
    PROVE  /\ b \in Blocks(OrderBlocks) /\ HasOrder(b) /\ orderAt[b] = live[i]
           /\ orderAt[b].side \in Sides /\ orderAt[b].price \in Prices
           /\ orderAt' \in [Blocks(OrderBlocks) -> Order \cup {None}]
           /\ ~HasOrder(b)'
           /\ \A c \in Blocks(OrderBlocks) :
                  c # b => orderAt'[c] = orderAt[c] /\ (HasOrder(c)' <=> HasOrder(c))
           /\ \A x, y : Earlier(x, y) => Earlier(x, y)'
<1>1. b \in Blocks(OrderBlocks) /\ HasOrder(b) /\ orderAt[b] = live[i]
    BY TypeFacts DEF OrdersKnown, OrderGoes
<1>2. orderAt[b].side \in Sides /\ orderAt[b].price \in Prices
    BY <1>1, TypeFacts
<1>3. /\ orderAt' \in [Blocks(OrderBlocks) -> Order \cup {None}] /\ orderAt'[b] = None
      /\ \A c \in Blocks(OrderBlocks) : c # b => orderAt'[c] = orderAt[c]
    BY <1>1 DEF TypeOK, OrderGoes
<1>4. \A x, y : Earlier(x, y) => Earlier(x, y)'
    BY CancelKeepsOrder DEF OrderGoes
<1> QED BY <1>1, <1>2, <1>3, <1>4 DEF HasOrder

LEMMA QueuesWithout ==
    ASSUME TypeOK, OrdersKnown, LevelsKnown, QueuesKnown,
           NEW i \in DOMAIN live, NEW b, OrderGoes(i, b),
           NEW k \in Blocks(LevelBlocks), HasLevel(k), levelAt'[k] = levelAt[k],
           k # atPrice[PriceToIndex(orderAt[b].price)]
    PROVE  QueueKnown(k)'
<1>1. /\ b \in Blocks(OrderBlocks) /\ HasOrder(b)
      /\ \A c \in Blocks(OrderBlocks) : c # b => orderAt'[c] = orderAt[c]
      /\ \A x, y : Earlier(x, y) => Earlier(x, y)'
    BY OrderGoesFacts
<1>2. QueueKnown(k)
    BY DEF QueuesKnown
<1>3. \A j \in DOMAIN levelAt[k].queue :
          /\ levelAt[k].queue[j] \in Blocks(OrderBlocks) /\ HasOrder(levelAt[k].queue[j])
          /\ levelAt[k].queue[j] # b
    BY <1>1, QueueFacts, OrderHasLevel
<1>4. \A j \in DOMAIN levelAt[k].queue :
          /\ orderAt'[levelAt[k].queue[j]] = orderAt[levelAt[k].queue[j]]
          /\ orderAt[levelAt[k].queue[j]] # None
    BY <1>1, <1>3 DEF HasOrder
<1> QED BY <1>1, <1>2, <1>4, QueueStays

\* The last order of a level goes, and the level with it.
LEMMA GoneLevelQueues ==
    ASSUME TypeOK, OrdersKnown, LevelsKnown, QueuesKnown,
           NEW i \in DOMAIN live, NEW b, OrderGoes(i, b),
           NEW l, l = atPrice[PriceToIndex(orderAt[b].price)], levelAt[l].queue = <<b>>,
           LevelGoes(l, orderAt[b].side, orderAt[b].price)
    PROVE  QueuesKnown'
<1> DEFINE s == orderAt[b].side
           p == orderAt[b].price
<1>1. /\ b \in Blocks(OrderBlocks) /\ HasOrder(b) /\ ~HasOrder(b)'
      /\ \A c \in Blocks(OrderBlocks) :
             c # b => orderAt'[c] = orderAt[c] /\ (HasOrder(c)' <=> HasOrder(c))
    BY OrderGoesFacts
<1>2. l \in Blocks(LevelBlocks) /\ HasLevel(l) /\ levelAt[l].side = s /\ levelAt[l].price = p
    BY <1>1, OrderHasLevel
<1>3. /\ ~HasLevel(l)'
      /\ \A k \in Blocks(LevelBlocks) : k # l => levelAt'[k] = levelAt[k]
      /\ \A k \in 0 .. PriceLevels - 1 : k # PriceToIndex(p) => atPrice'[k] = atPrice[k]
    <2>1. LevelGoes(l, s, p)
        OBVIOUS
    <2> HIDE DEF s, p
    <2> QED BY <1>2, <2>1, LevelGoesKnown
<1>4. ASSUME NEW k \in Blocks(LevelBlocks), HasLevel(k)' PROVE QueueKnown(k)'
    <2>1. k # l
        BY <1>3, <1>4
    <2>2. levelAt'[k] = levelAt[k] /\ HasLevel(k)
        BY <1>3, <1>4, <2>1 DEF HasLevel
    <2> QED BY <2>1, <2>2, QueuesWithout
<1>5. ASSUME NEW c \in Blocks(OrderBlocks), HasOrder(c)' PROVE IsQueued(c)'
    <2> DEFINE m == atPrice[PriceToIndex(orderAt[c].price)]
    <2>1. c # b /\ HasOrder(c) /\ orderAt'[c] = orderAt[c]
        BY <1>1, <1>5
    <2>2. m \in Blocks(LevelBlocks) /\ PriceToIndex(orderAt[c].price) \in 0 .. PriceLevels - 1
        <3>1. orderAt[c].price \in Prices
            BY <2>1, TypeFacts DEF Order
        <3> QED BY <2>1, <3>1, OrderHasLevel, Basics
    <2>3. PICK j \in DOMAIN levelAt[m].queue : levelAt[m].queue[j] = c
        <3>1. IsQueued(c)
            BY <2>1 DEF QueuesKnown
        <3> QED BY <3>1 DEF IsQueued
    <2>4. m # l
        <3> SUFFICES ASSUME m = l PROVE FALSE
            OBVIOUS
        <3>1. j \in DOMAIN <<b>> /\ <<b>>[j] = c
            BY <2>3
        <3> QED BY <2>1, <3>1
    <2>5. PriceToIndex(orderAt[c].price) # PriceToIndex(p)
        BY <2>4
    <2>6. atPrice'[PriceToIndex(orderAt'[c].price)] = m /\ levelAt'[m] = levelAt[m]
        BY <1>3, <2>1, <2>2, <2>4, <2>5
    <2>7. m # Null
        BY <2>2, Basics, BlocksAssumption
    <2> HIDE DEF m
    <2> QED BY <2>3, <2>6, <2>7 DEF IsQueued
<1> QED BY <1>4, <1>5 DEF QueuesKnown

\* An order goes from a queue that has others.
LEMMA LeftQueues ==
    ASSUME TypeOK, OrdersKnown, LevelsKnown, QueuesKnown,
           NEW i \in DOMAIN live, NEW b, OrderGoes(i, b),
           NEW l, l = atPrice[PriceToIndex(orderAt[b].price)], levelAt[l].queue # <<b>>,
           QueueChanges(l, Without(levelAt[l].queue, b))
    PROVE  /\ QueuesKnown'
           /\ Without(levelAt[l].queue, b) \in Seq(Blocks(OrderBlocks))
<1> DEFINE q == levelAt[l].queue
           r == Without(q, b)
<1>1. /\ b \in Blocks(OrderBlocks) /\ HasOrder(b) /\ ~HasOrder(b)'
      /\ \A c \in Blocks(OrderBlocks) :
             c # b => orderAt'[c] = orderAt[c] /\ (HasOrder(c)' <=> HasOrder(c))
      /\ \A x, y : Earlier(x, y) => Earlier(x, y)'
    BY OrderGoesFacts
<1>2. /\ l \in Blocks(LevelBlocks) /\ HasLevel(l)
      /\ \E k \in DOMAIN q : q[k] = b
    BY <1>1, OrderHasLevel
<1>3. /\ q \in Seq(Blocks(OrderBlocks))
      /\ \A k \in DOMAIN q : /\ q[k] \in Blocks(OrderBlocks) /\ HasOrder(q[k])
                             /\ orderAt[q[k]].side = levelAt[l].side
                             /\ orderAt[q[k]].price = levelAt[l].price
      /\ \A k, j \in DOMAIN q : q[k] = q[j] => k = j
    <2>1. l \in Blocks(LevelBlocks) /\ HasLevel(l)
        BY <1>2
    <2> HIDE DEF r
    <2>2. q \in Seq(Blocks(OrderBlocks))
        BY <2>1, QueueFacts
    <2>3. ASSUME NEW k \in DOMAIN q
          PROVE  /\ q[k] \in Blocks(OrderBlocks) /\ HasOrder(q[k])
                 /\ orderAt[q[k]].side = levelAt[l].side
                 /\ orderAt[q[k]].price = levelAt[l].price
        <3>1. QueueKnown(l)
            BY <2>1 DEF QueuesKnown
        <3>2. q[k] \in Blocks(OrderBlocks)
            <4> HIDE DEF q
            <4> QED BY <2>2, <2>3, ElementOfSeq, LenProperties
        <3> QED BY <3>1, <3>2 DEF QueueKnown
    <2>4. ASSUME NEW k \in DOMAIN q, NEW j \in DOMAIN q, q[k] = q[j]
          PROVE  k = j
        BY <2>1, <2>4, QueueFacts
    <2> QED BY <2>2, <2>3, <2>4
<1>4. /\ r \in Seq(Blocks(OrderBlocks)) /\ r # <<>>
      /\ \A k \in DOMAIN r : \E m \in DOMAIN q : r[k] = q[m] /\ q[m] # b
      /\ \A m \in DOMAIN q : q[m] # b => \E k \in DOMAIN r : r[k] = q[m]
      /\ \A k, j \in DOMAIN r :
             k < j => \E m, n \in DOMAIN q : m < n /\ r[k] = q[m] /\ r[j] = q[n]
    <2>1. q # <<b>>
        OBVIOUS
    <2>2. r = Without(q, b)
        OBVIOUS
    <2> HIDE DEF q, r
    <2>3. Lacks(Blocks(OrderBlocks), q, b, r)
        BY <1>2, <1>3, <2>2, WithoutFacts
    <2> QED BY <2>1, <2>3 DEF Lacks
<1> HIDE DEF r
<1>5. /\ levelAt'[l].queue = r
      /\ \A k \in Blocks(LevelBlocks) : k # l => levelAt'[k] = levelAt[k]
      /\ \A k \in Blocks(LevelBlocks) :
             /\ HasLevel(k)' <=> HasLevel(k)
             /\ HasLevel(k) => /\ levelAt'[k].side = levelAt[k].side
                               /\ levelAt'[k].price = levelAt[k].price
      /\ atPrice' = atPrice
    <2>1. QueueChanges(l, r)
        BY DEF r
    <2>2. atPrice' = atPrice
        BY <2>1 DEF QueueChanges
    <2>3. /\ levelAt'[l].queue = r
          /\ \A k \in Blocks(LevelBlocks) : k # l => levelAt'[k] = levelAt[k]
        BY <1>2, <1>4, <2>1, QueueChangesKnown
    <2>4. ASSUME NEW k \in Blocks(LevelBlocks)
          PROVE  /\ HasLevel(k)' <=> HasLevel(k)
                 /\ HasLevel(k) => /\ levelAt'[k].side = levelAt[k].side
                                   /\ levelAt'[k].price = levelAt[k].price
        BY <1>2, <1>4, <2>1, QueueChangesKnown
    <2> QED BY <2>2, <2>3, <2>4
<1>6. ASSUME NEW k \in DOMAIN r
      PROVE  /\ r[k] \in Blocks(OrderBlocks) /\ r[k] # b
             /\ orderAt'[r[k]] = orderAt[r[k]] /\ orderAt'[r[k]] # None
             /\ orderAt'[r[k]].side = levelAt[l].side /\ orderAt'[r[k]].price = levelAt[l].price
    <2>1. PICK m \in DOMAIN q : r[k] = q[m] /\ q[m] # b
        BY <1>4
    <2>2. /\ q[m] \in Blocks(OrderBlocks) /\ orderAt[q[m]] # None
          /\ orderAt[q[m]].side = levelAt[l].side /\ orderAt[q[m]].price = levelAt[l].price
        BY <1>3 DEF HasOrder
    <2>3. orderAt'[q[m]] = orderAt[q[m]]
        BY <1>1, <2>1, <2>2
    <2> HIDE DEF q
    <2> QED BY <2>1, <2>2, <2>3
<1>7. ASSUME NEW k \in DOMAIN r, NEW j \in DOMAIN r, k < j,
             NEW x, x = orderAt'[r[k]].oid, NEW y, y = orderAt'[r[j]].oid
      PROVE  Earlier(x, y)'
    <2>1. PICK m \in DOMAIN q, n \in DOMAIN q : m < n /\ r[k] = q[m] /\ r[j] = q[n]
        BY <1>4, <1>7
    <2>2. x = orderAt[q[m]].oid /\ y = orderAt[q[n]].oid
        BY <1>6, <1>7, <2>1
    <2>3. Earlier(x, y)
        BY <1>2, <2>1, <2>2 DEF QueuesKnown, QueueKnown
    <2> QED BY <1>1, <2>3
<1>8. ASSUME NEW k \in DOMAIN r, NEW j \in DOMAIN r, k < j
      PROVE  \A m, n \in DOMAIN live' :
                 live'[m].oid = orderAt'[r[k]].oid /\ live'[n].oid = orderAt'[r[j]].oid => m < n
    BY <1>7, <1>8 DEF Earlier
<1>9. QueueKnown(l)'
    <2>1. levelAt'[l].side = levelAt[l].side /\ levelAt'[l].price = levelAt[l].price
        BY <1>2, <1>5
    <2>2. \A k \in DOMAIN r : /\ orderAt'[r[k]] # None
                             /\ orderAt'[r[k]].side = levelAt'[l].side
                             /\ orderAt'[r[k]].price = levelAt'[l].price
        BY <1>6, <2>1
    <2>3. levelAt'[l].queue = r /\ r # <<>>
        BY <1>4, <1>5
    <2> DEFINE now == levelAt'[l].queue
    <2>4. /\ now # <<>>
          /\ \A k \in DOMAIN now : /\ orderAt'[now[k]] # None
                                    /\ orderAt'[now[k]].side = levelAt'[l].side
                                    /\ orderAt'[now[k]].price = levelAt'[l].price
        BY <2>2, <2>3
    <2>5. \A k, j \in DOMAIN now : k < j =>
              \A m, n \in DOMAIN live' :
                  live'[m].oid = orderAt'[now[k]].oid /\ live'[n].oid = orderAt'[now[j]].oid
                      => m < n
        BY <1>8, <2>3
    <2> QED BY <2>4, <2>5 DEF QueueKnown, HasOrder, Earlier
<1>10. ASSUME NEW k \in Blocks(LevelBlocks), HasLevel(k)' PROVE QueueKnown(k)'
    <2>1. CASE k # l
        BY <1>5, <1>10, <2>1, QueuesWithout
    <2> QED BY <1>9, <2>1
<1>11. ASSUME NEW c \in Blocks(OrderBlocks), HasOrder(c)' PROVE IsQueued(c)'
    <2> DEFINE m == atPrice[PriceToIndex(orderAt[c].price)]
    <2>1. c # b /\ HasOrder(c) /\ orderAt'[c] = orderAt[c]
        BY <1>1, <1>11
    <2>2. m \in Blocks(LevelBlocks) /\ \E j \in DOMAIN levelAt[m].queue : levelAt[m].queue[j] = c
        <3>1. PICK k : k = m
            OBVIOUS
        <3> QED BY <2>1, <3>1, OrderHasLevel
    <2>3. PICK j \in DOMAIN levelAt[m].queue : levelAt[m].queue[j] = c
        BY <2>2
    <2>4. m # Null /\ atPrice'[PriceToIndex(orderAt'[c].price)] = m
        BY <1>5, <2>1, <2>2, Basics, BlocksAssumption
    <2>5. \E k \in DOMAIN levelAt'[m].queue : levelAt'[m].queue[k] = c
        <3>1. CASE m = l
            <4>1. j \in DOMAIN q /\ q[j] = c /\ q[j] # b
                BY <2>1, <2>3, <3>1
            <4>2. \E k \in DOMAIN r : r[k] = c
                BY <1>4, <4>1
            <4> QED BY <1>5, <3>1, <4>2
        <3>2. CASE m # l
            BY <1>5, <2>2, <2>3, <3>2
        <3> QED BY <3>1, <3>2
    <2> HIDE DEF m
    <2> QED BY <2>4, <2>5 DEF IsQueued
<1> QED BY <1>4, <1>10, <1>11 DEF QueuesKnown, r

\* An order whose quantity changes keeps its place.
LEMMA ModifyQueues ==
    ASSUME TypeOK, OrdersKnown, LevelsKnown, QueuesKnown,
           NEW i \in DOMAIN live, NEW b, QtyChanges(i, b), UNCHANGED <<levelAt, atPrice>>
    PROVE  QueuesKnown'
<1>1. /\ DOMAIN live' = DOMAIN live
      /\ \A k \in DOMAIN live : live'[k].oid = live[k].oid
      /\ \A c \in Blocks(OrderBlocks) :
             /\ HasOrder(c)' <=> HasOrder(c)
             /\ HasOrder(c) => /\ orderAt'[c].oid = orderAt[c].oid
                               /\ orderAt'[c].side = orderAt[c].side
                               /\ orderAt'[c].price = orderAt[c].price
    BY DEF QtyChanges
<1>2. \A x, y : Earlier(x, y) => Earlier(x, y)'
    <2> SUFFICES ASSUME NEW x, NEW y, Earlier(x, y),
                        NEW m \in DOMAIN live', NEW n \in DOMAIN live',
                        live'[m].oid = x, live'[n].oid = y
                 PROVE  m < n
        BY DEF Earlier
    <2> QED BY <1>1 DEF Earlier
<1>3. ASSUME NEW k \in Blocks(LevelBlocks), HasLevel(k)' PROVE QueueKnown(k)'
    <2>1. HasLevel(k) /\ levelAt'[k] = levelAt[k]
        BY <1>3 DEF HasLevel
    <2>2. QueueKnown(k)
        BY <2>1 DEF QueuesKnown
    <2>3. \A j \in DOMAIN levelAt[k].queue :
              levelAt[k].queue[j] \in Blocks(OrderBlocks) /\ HasOrder(levelAt[k].queue[j])
        BY <2>1, QueueFacts
    <2>4. \A j \in DOMAIN levelAt[k].queue :
              /\ orderAt'[levelAt[k].queue[j]] # None
              /\ orderAt'[levelAt[k].queue[j]].oid = orderAt[levelAt[k].queue[j]].oid
              /\ orderAt'[levelAt[k].queue[j]].side = orderAt[levelAt[k].queue[j]].side
              /\ orderAt'[levelAt[k].queue[j]].price = orderAt[levelAt[k].queue[j]].price
        BY <1>1, <2>3 DEF HasOrder
    <2> QED BY <1>2, <2>1, <2>2, <2>4, QueueStays
<1>4. ASSUME NEW c \in Blocks(OrderBlocks), HasOrder(c)' PROVE IsQueued(c)'
    <2>1. HasOrder(c) /\ orderAt'[c].price = orderAt[c].price
        BY <1>1, <1>4
    <2>2. IsQueued(c)
        BY <2>1 DEF QueuesKnown
    <2> QED BY <2>1, <2>2 DEF IsQueued
<1> QED BY <1>3, <1>4 DEF QueuesKnown

-----------------------------------------------------------------------------
(* The best bid and offer.                                                 *)

\* The top of a side stays if its best level does, and the orders at it.
LEMMA TopStays ==
    ASSUME NEW s, sideLevels[s] # <<>>, sideLevels'[s] # <<>>,
           NEW h, h = Head(sideLevels[s]), h = Head(sideLevels'[s]),
           levelAt'[h] = levelAt[h],
           \A i \in DOMAIN levelAt[h].queue :
               orderAt'[levelAt[h].queue[i]] = orderAt[levelAt[h].queue[i]]
    PROVE  Top(s)' = Top(s)
<1> DEFINE q == levelAt[h].queue
           now == [i \in DOMAIN q |-> orderAt[q[i]]]
           next == [i \in DOMAIN levelAt'[h].queue |-> orderAt'[levelAt'[h].queue[i]]]
<1>1. now = next
    <2>1. levelAt'[h].queue = q
        OBVIOUS
    <2> QED BY <2>1
<1>2. Top(s) = [price |-> levelAt[h].price, qty |-> Total(now)]
    BY DEF Top, BestPrice, OrdersAt
<1>3. Top(s)' = [price |-> levelAt'[h].price, qty |-> Total(next)]
    BY DEF Top, BestPrice, OrdersAt
<1> QED BY <1>1, <1>2, <1>3

\* The top of a side, after a step, is a price and a quantity.
LEMMA TopType ==
    ASSUME orderAt' \in [Blocks(OrderBlocks) -> Order \cup {None}],
           levelAt' \in [Blocks(LevelBlocks) -> Level \cup {None}],
           sideLevels' \in [Sides -> Seq(Blocks(LevelBlocks))],
           LevelsKnown', QueuesKnown', NEW s \in Sides
    PROVE  Top(s)' \in [price : Prices, qty : Nat] \cup {None}
<1>1. CASE sideLevels'[s] = <<>>
    BY <1>1 DEF Top
<1>2. CASE sideLevels'[s] # <<>>
    <2>0. PICK h : h = sideLevels'[s][1]
        OBVIOUS
    <2> DEFINE q == levelAt'[h].queue
               next == [i \in DOMAIN q |-> orderAt'[q[i]]]
    <2>1. /\ sideLevels'[s] \in Seq(Blocks(LevelBlocks)) /\ 1 \in DOMAIN sideLevels'[s]
          /\ Head(sideLevels'[s]) = h /\ h \in Blocks(LevelBlocks)
        <3>1. sideLevels'[s] \in Seq(Blocks(LevelBlocks))
            OBVIOUS
        <3>2. 1 \in DOMAIN sideLevels'[s] /\ Head(sideLevels'[s]) = h
            BY <1>2, <2>0, <3>1
        <3> QED BY <2>0, <3>1, <3>2, ElementOfSeq
    <2>2. levelAt'[h] # None
        BY <2>0, <2>1 DEF LevelsKnown, HasLevel
    <2>3. levelAt'[h] \in Level
        BY <2>1, <2>2
    <2>4. levelAt'[h].price \in Prices /\ q \in Seq(Blocks(OrderBlocks))
        BY <2>3 DEF Level
    <2>5. DOMAIN q = 1 .. Len(q) /\ Len(q) \in Nat /\ \A i \in DOMAIN q : q[i] \in Blocks(OrderBlocks)
        BY <2>4, LenProperties, ElementOfSeq
    <2>6. QueueKnown(h)'
        BY <2>1, <2>2 DEF QueuesKnown, HasLevel
    <2>7. \A i \in DOMAIN q : orderAt'[q[i]] # None
        BY <2>6 DEF QueueKnown, HasOrder
    <2>8. \A i \in DOMAIN q : orderAt'[q[i]] \in Order
        BY <2>5, <2>7
    <2> HIDE DEF q
    <2>9. next \in Seq(Order)
        BY <2>5, <2>8
    <2>10. Total(next) \in Nat
        <3> HIDE DEF next
        <3> QED BY <2>9, TotalIsNat
    <2>11. Top(s)' = [price |-> levelAt'[h].price, qty |-> Total(next)]
        BY <1>2, <2>1 DEF Top, BestPrice, OrdersAt, q
    <2> HIDE DEF next
    <2> QED BY <2>4, <2>10, <2>11
<1> QED BY <1>1, <1>2

\* An update of the orders at price p of side s leaves the other levels as they are,
\* and the best of them where it is.
UpdatesAt(s, p) ==
    /\ \A k \in Blocks(LevelBlocks) :
           HasLevel(k) /\ (levelAt[k].side # s \/ levelAt[k].price # p) =>
               /\ levelAt'[k] = levelAt[k]
               /\ \A i \in DOMAIN levelAt[k].queue :
                      orderAt'[levelAt[k].queue[i]] = orderAt[levelAt[k].queue[i]]
    /\ \A t \in Sides :
           sideLevels[t] # <<>> /\ (t # s \/ Better(s, BestPrice(s), p)) =>
               sideLevels'[t] # <<>> /\ Head(sideLevels'[t]) = Head(sideLevels[t])

LEMMA BBOFollows ==
    ASSUME TypeOK, LevelsKnown, BBOIsTopOrAbsent,
           NEW s \in Sides, NEW p \in Prices, UpdatesAt(s, p), UpdateBBO(s, p),
           orderAt' \in [Blocks(OrderBlocks) -> Order \cup {None}],
           levelAt' \in [Blocks(LevelBlocks) -> Level \cup {None}],
           sideLevels' \in [Sides -> Seq(Blocks(LevelBlocks))],
           LevelsKnown', QueuesKnown'
    PROVE  /\ BBOIsTopOrAbsent'
           /\ bbo' \in [Sides -> [price : Prices, qty : Nat] \cup {None}]
<1> DEFINE T == [price : Prices, qty : Nat] \cup {None}
           Concerned(t) == t = s /\ UpdatesBBO(t, p)
<1>1. \A t \in Sides : bbo[t] \in T /\ bbo[t] \in {None, Top(t)}
    BY DEF TypeOK, BBOIsTopOrAbsent
<1>2. \A t \in Sides : Top(t)' \in T
    BY TopType
<1>3. /\ DOMAIN bbo' = Sides
      /\ \A t \in Sides : bbo'[t] = IF Concerned(t) THEN Top(t)' ELSE bbo[t]
    BY DEF UpdateBBO
<1>4. bbo' = [t \in Sides |-> bbo'[t]]
    BY DEF UpdateBBO
<1> HIDE DEF T
<1>5. bbo' \in [Sides -> T]
    <2>1. \A t \in Sides : bbo'[t] \in T
        BY <1>1, <1>2, <1>3
    <2> QED BY <1>4, <2>1
<1>6. ASSUME NEW t \in Sides PROVE bbo'[t] \in {None, Top(t)'}
    <2>1. CASE Concerned(t)
        BY <1>3, <2>1
    <2>2. CASE ~Concerned(t) /\ sideLevels[t] = <<>>
        <3>1. Top(t) = None
            BY <2>2 DEF Top
        <3> QED BY <1>1, <1>3, <2>2, <3>1
    <2>3. CASE ~Concerned(t) /\ sideLevels[t] # <<>>
        <3> DEFINE h == Head(sideLevels[t])
        <3>1. t # s \/ Better(s, BestPrice(s), p)
            BY <2>3 DEF UpdatesBBO
        <3>2. /\ h \in Blocks(LevelBlocks) /\ HasLevel(h)
              /\ levelAt[h].side = t /\ levelAt[h].price \in Nat
            <4>1. sideLevels[t] \in Seq(Blocks(LevelBlocks))
                BY DEF TypeOK
            <4>2. 1 \in DOMAIN sideLevels[t] /\ h = sideLevels[t][1]
                BY <2>3, <4>1
            <4> HIDE DEF h
            <4> QED BY <4>2, ListedLevels
        <3>3. levelAt[h].side # s \/ levelAt[h].price # p
            <4>1. ASSUME t = s, levelAt[h].price = p PROVE FALSE
                <5>1. Better(s, p, p) /\ p \in Nat
                    BY <3>1, <4>1, Basics DEF BestPrice
                <5> QED BY <5>1, BetterOrders
            <4> QED BY <3>2, <4>1
        <3>4. /\ sideLevels'[t] # <<>> /\ h = Head(sideLevels'[t])
              /\ levelAt'[h] = levelAt[h]
              /\ \A i \in DOMAIN levelAt[h].queue :
                     orderAt'[levelAt[h].queue[i]] = orderAt[levelAt[h].queue[i]]
            BY <2>3, <3>1, <3>2, <3>3 DEF UpdatesAt
        <3>5. Top(t)' = Top(t)
            BY <2>3, <3>4, TopStays
        <3> QED BY <1>1, <1>3, <2>3, <3>5
    <2> QED BY <2>1, <2>2, <2>3
<1>7. BBOIsTopOrAbsent'
    BY <1>6 DEF BBOIsTopOrAbsent
<1> QED BY <1>5, <1>7 DEF T

-----------------------------------------------------------------------------
(* The pools.                                                              *)

LEMMA OrderBlockTaken ==
    ASSUME TypeOK, OrderPoolKnown, CanAllocate(orderPool), orderPool' = Allocate(orderPool),
           NEW b, b = orderPool.next, HasOrder(b)',
           \A c \in Blocks(OrderBlocks) : c # b => (HasOrder(c)' <=> HasOrder(c))
    PROVE  OrderPoolKnown' /\ IsPool(orderPool', OrderBlocks)
<1>1. IsPool(orderPool, OrderBlocks) /\ OrderBlocks \in Nat \ {0}
    BY BlocksAssumption DEF TypeOK
<1>2. /\ IsPool(orderPool', OrderBlocks)
      /\ orderPool'.free = orderPool.free \ {orderPool.next}
      /\ orderPool'.next \in orderPool'.free
    <2> DEFINE p == orderPool
    <2>1. IsPool(p, OrderBlocks) /\ CanAllocate(p) /\ orderPool' = Allocate(p)
        BY <1>1
    <2> HIDE DEF p
    <2>2. /\ IsPool(orderPool', OrderBlocks)
          /\ orderPool'.free = p.free \ {p.next}
          /\ orderPool'.next \in orderPool'.free
        BY <1>1, <2>1, Allocation
    <2> QED BY <2>2 DEF p
<1>3. \A c \in Blocks(OrderBlocks) : c \in orderPool'.free <=> ~HasOrder(c)'
    BY <1>2 DEF OrderPoolKnown
<1> QED BY <1>2, <1>3 DEF OrderPoolKnown, HasOrder

LEMMA LevelBlockTaken ==
    ASSUME TypeOK, LevelPoolKnown, CanAllocate(levelPool), levelPool' = Allocate(levelPool),
           NEW l, l = levelPool.next, HasLevel(l)',
           \A c \in Blocks(LevelBlocks) : c # l => (HasLevel(c)' <=> HasLevel(c))
    PROVE  LevelPoolKnown' /\ IsPool(levelPool', LevelBlocks)
<1>1. IsPool(levelPool, LevelBlocks) /\ LevelBlocks \in Nat \ {0}
    BY BlocksAssumption DEF TypeOK
<1>2. /\ IsPool(levelPool', LevelBlocks)
      /\ levelPool'.free = levelPool.free \ {levelPool.next}
      /\ levelPool'.next \in levelPool'.free
    <2> DEFINE p == levelPool
    <2>1. IsPool(p, LevelBlocks) /\ CanAllocate(p) /\ levelPool' = Allocate(p)
        BY <1>1
    <2> HIDE DEF p
    <2>2. /\ IsPool(levelPool', LevelBlocks)
          /\ levelPool'.free = p.free \ {p.next}
          /\ levelPool'.next \in levelPool'.free
        BY <1>1, <2>1, Allocation
    <2> QED BY <2>2 DEF p
<1>3. \A c \in Blocks(LevelBlocks) : c \in levelPool'.free <=> ~HasLevel(c)'
    BY <1>2 DEF LevelPoolKnown
<1> QED BY <1>2, <1>3 DEF LevelPoolKnown, HasLevel

LEMMA OrderBlockGivenBack ==
    ASSUME TypeOK, OrderPoolKnown, NEW b \in Blocks(OrderBlocks),
           orderPool' = Deallocate(orderPool, {b}), ~HasOrder(b)',
           \A c \in Blocks(OrderBlocks) : c # b => (HasOrder(c)' <=> HasOrder(c))
    PROVE  OrderPoolKnown' /\ IsPool(orderPool', OrderBlocks)
<1>1. /\ IsPool(orderPool', OrderBlocks)
      /\ orderPool'.free = orderPool.free \cup {b}
      /\ orderPool'.next = orderPool.next
    <2>1. IsPool(orderPool, OrderBlocks) /\ {b} \in SUBSET Blocks(OrderBlocks)
        BY DEF TypeOK
    <2> QED BY <2>1, Deallocation
<1>2. \A c \in Blocks(OrderBlocks) : c \in orderPool'.free <=> ~HasOrder(c)'
    BY <1>1 DEF OrderPoolKnown
<1> QED BY <1>1, <1>2 DEF OrderPoolKnown, HasOrder

LEMMA LevelBlockGivenBack ==
    ASSUME TypeOK, LevelPoolKnown, NEW l \in Blocks(LevelBlocks),
           levelPool' = Deallocate(levelPool, {l}), ~HasLevel(l)',
           \A k \in Blocks(LevelBlocks) : k # l => (HasLevel(k)' <=> HasLevel(k))
    PROVE  LevelPoolKnown' /\ IsPool(levelPool', LevelBlocks)
<1>1. /\ IsPool(levelPool', LevelBlocks)
      /\ levelPool'.free = levelPool.free \cup {l}
      /\ levelPool'.next = levelPool.next
    <2>1. IsPool(levelPool, LevelBlocks) /\ {l} \in SUBSET Blocks(LevelBlocks)
        BY DEF TypeOK
    <2> QED BY <2>1, Deallocation
<1>2. \A k \in Blocks(LevelBlocks) : k \in levelPool'.free <=> ~HasLevel(k)'
    BY <1>1 DEF LevelPoolKnown
<1> QED BY <1>1, <1>2 DEF LevelPoolKnown, HasLevel

-----------------------------------------------------------------------------
(* The steps.                                                              *)

\* What an update does to the levels.
LevelsFollow(s, p) ==
    /\ LevelsKnown' /\ QueuesKnown' /\ LevelPoolKnown' /\ UpdatesAt(s, p)
    /\ levelAt' \in [Blocks(LevelBlocks) -> Level \cup {None}]
    /\ IsPool(levelPool', LevelBlocks)
    /\ sideLevels' \in [Sides -> Seq(Blocks(LevelBlocks))]
    /\ atPrice' \in [0 .. PriceLevels - 1 -> Blocks(LevelBlocks) \cup {Null}]

\* An order at a price that has no level brings one.
LEMMA AddWithLevel ==
    ASSUME IInv, NEW b \in Blocks(OrderBlocks), NEW o \in Order, OrderComes(b, o),
           NEW s, s = o.side, NEW p, p = o.price,
           CanAllocate(levelPool), levelPool' = Allocate(levelPool),
           NEW l, l = levelPool.next,
           atPrice[PriceToIndex(p)] = Null, LevelComes(l, s, p, <<b>>)
    PROVE  LevelsFollow(s, p)
<1>1. TypeOK /\ OrdersKnown /\ LevelsKnown /\ QueuesKnown /\ LevelPoolKnown
    BY DEF IInv, BookInv, PoolInv
<1>2. s \in Sides /\ p \in Prices /\ <<b>> \in Seq(Blocks(OrderBlocks))
    BY DEF Order
<1>3. l \in Blocks(LevelBlocks) /\ ~HasLevel(l)
    BY <1>1 DEF TypeOK, IsPool, LevelPoolKnown
<1>4. PICK queue : queue = <<b>>
    OBVIOUS
<1>5. /\ levelAt' \in [Blocks(LevelBlocks) -> Level \cup {None}]
      /\ atPrice' \in [0 .. PriceLevels - 1 -> Blocks(LevelBlocks) \cup {Null}]
      /\ HasLevel(l)'
      /\ \A k \in Blocks(LevelBlocks) : k # l => levelAt'[k] = levelAt[k]
      /\ \A t \in Sides : t # s => sideLevels'[t] = sideLevels[t]
    <2>1. queue \in Seq(Blocks(OrderBlocks)) /\ LevelComes(l, s, p, queue)
        BY <1>2, <1>4
    <2> QED BY <1>1, <1>2, <1>3, <2>1, LevelComesFacts
<1>6. /\ LevelsKnown'
      /\ sideLevels' \in [Sides -> Seq(Blocks(LevelBlocks))]
      /\ (sideLevels[s] # <<>> /\ Better(s, BestPrice(s), p)) =>
             sideLevels'[s] # <<>> /\ Head(sideLevels'[s]) = Head(sideLevels[s])
    <2>1. queue \in Seq(Blocks(OrderBlocks)) /\ LevelComes(l, s, p, queue)
        BY <1>2, <1>4
    <2> QED BY <1>1, <1>2, <1>3, <2>1, LevelComesKnown
<1>7. QueuesKnown'
    BY <1>1, <1>3, NewLevelQueues
<1>8. LevelPoolKnown' /\ IsPool(levelPool', LevelBlocks)
    <2>1. \A k \in Blocks(LevelBlocks) : k # l => (HasLevel(k)' <=> HasLevel(k))
        BY <1>5 DEF HasLevel
    <2> QED BY <1>1, <1>5, <2>1, LevelBlockTaken
<1>9. UpdatesAt(s, p)
    <2>1. ASSUME NEW k \in Blocks(LevelBlocks), HasLevel(k)
          PROVE  /\ levelAt'[k] = levelAt[k]
                 /\ \A i \in DOMAIN levelAt[k].queue :
                        orderAt'[levelAt[k].queue[i]] = orderAt[levelAt[k].queue[i]]
        <3>1. levelAt'[k] = levelAt[k]
            BY <1>3, <1>5, <2>1
        <3>2. \A i \in DOMAIN levelAt[k].queue :
                  levelAt[k].queue[i] \in Blocks(OrderBlocks) /\ HasOrder(levelAt[k].queue[i])
            BY <1>1, <2>1, QueueFacts
        <3>3. \A c \in Blocks(OrderBlocks) : HasOrder(c) => orderAt'[c] = orderAt[c]
            BY <1>1, OrderComesFacts
        <3> QED BY <3>1, <3>2, <3>3
    <2>2. ASSUME NEW t \in Sides, sideLevels[t] # <<>>, t # s \/ Better(s, BestPrice(s), p)
          PROVE  sideLevels'[t] # <<>> /\ Head(sideLevels'[t]) = Head(sideLevels[t])
        BY <1>5, <1>6, <2>2
    <2> QED BY <2>1, <2>2 DEF UpdatesAt
<1> QED BY <1>5, <1>6, <1>7, <1>8, <1>9 DEF LevelsFollow

\* An order at a price that has a level joins its queue.
LEMMA AddToLevel ==
    ASSUME PriceWindow, IInv,
           NEW b \in Blocks(OrderBlocks), NEW o \in Order, OrderComes(b, o),
           NEW s, s = o.side, NEW p, p = o.price,
           \A i \in DOMAIN live : live[i].side # s => live[i].price # p,
           NEW l, l = atPrice[PriceToIndex(p)], l # Null,
           QueueChanges(l, Append(levelAt[l].queue, b)), UNCHANGED levelPool
    PROVE  LevelsFollow(s, p)
<1>1. TypeOK /\ OrdersKnown /\ LevelsKnown /\ QueuesKnown /\ LevelPoolKnown
    BY DEF IInv, BookInv, PoolInv
<1>2. s \in Sides /\ p \in Prices /\ PriceToIndex(p) \in 0 .. PriceLevels - 1
    BY Basics DEF Order
<1>3. /\ l \in Blocks(LevelBlocks) /\ HasLevel(l)
      /\ PriceToIndex(levelAt[l].price) = PriceToIndex(p)
    BY <1>1, <1>2, TypeFacts DEF LevelsKnown
<1>4. levelAt[l].price = p
    <2>1. levelAt[l].price \in Prices
        BY <1>1, <1>3, TypeFacts
    <2> QED BY <1>2, <1>3, <2>1 DEF PriceWindow
<1>5. levelAt[l].side = s
    <2> DEFINE c == levelAt[l].queue[1]
    <2>1. /\ c \in Blocks(OrderBlocks) /\ HasOrder(c)
          /\ orderAt[c].side = levelAt[l].side /\ orderAt[c].price = levelAt[l].price
        BY <1>1, <1>3, QueueFacts
    <2>2. PICK i \in DOMAIN live : live[i] = orderAt[c]
        BY <1>1, <2>1 DEF OrdersKnown
    <2> QED BY <1>4, <2>1, <2>2
<1>6. PICK queue : queue = Append(levelAt[l].queue, b)
    OBVIOUS
<1>7. queue \in Seq(Blocks(OrderBlocks))
    <2>1. levelAt[l].queue \in Seq(Blocks(OrderBlocks))
        BY <1>1, <1>3, TypeFacts
    <2> QED BY <1>6, <2>1, AppendProperties
<1>8. /\ LevelsKnown'
      /\ levelAt' \in [Blocks(LevelBlocks) -> Level \cup {None}]
      /\ \A k \in Blocks(LevelBlocks) : k # l => levelAt'[k] = levelAt[k]
      /\ \A k \in Blocks(LevelBlocks) : HasLevel(k)' <=> HasLevel(k)
    <2>1. QueueChanges(l, queue)
        BY <1>6
    <2> QED BY <1>1, <1>3, <1>7, <2>1, QueueChangesKnown
<1>9. atPrice' = atPrice /\ sideLevels' = sideLevels
    BY DEF QueueChanges
<1>10. QueuesKnown'
    BY <1>1, <1>3, <1>4, <1>5, JoinedQueues
<1>11. LevelPoolKnown' /\ IsPool(levelPool', LevelBlocks)
    BY <1>1, <1>8 DEF LevelPoolKnown, TypeOK, HasLevel
<1>12. UpdatesAt(s, p)
    <2>1. ASSUME NEW k \in Blocks(LevelBlocks), HasLevel(k),
                 levelAt[k].side # s \/ levelAt[k].price # p
          PROVE  /\ levelAt'[k] = levelAt[k]
                 /\ \A i \in DOMAIN levelAt[k].queue :
                        orderAt'[levelAt[k].queue[i]] = orderAt[levelAt[k].queue[i]]
        <3>1. levelAt'[k] = levelAt[k]
            BY <1>4, <1>5, <1>8, <2>1
        <3>2. \A i \in DOMAIN levelAt[k].queue :
                  levelAt[k].queue[i] \in Blocks(OrderBlocks) /\ HasOrder(levelAt[k].queue[i])
            BY <1>1, <2>1, QueueFacts
        <3>3. \A c \in Blocks(OrderBlocks) : HasOrder(c) => orderAt'[c] = orderAt[c]
            BY <1>1, OrderComesFacts
        <3> QED BY <3>1, <3>2, <3>3
    <2> QED BY <1>9, <2>1 DEF UpdatesAt
<1> QED BY <1>1, <1>8, <1>9, <1>10, <1>11, <1>12 DEF LevelsFollow, TypeOK

LEMMA AddKeepsInv ==
    ASSUME PriceWindow, IInv, Add
    PROVE  IInv'
<1>1. /\ TypeOK /\ OrdersKnown /\ OneSideAPrice /\ LevelsKnown /\ QueuesKnown
      /\ OrderPoolKnown /\ LevelPoolKnown /\ BBOIsTopOrAbsent
    BY DEF IInv, BookInv, PoolInv
<1>2. PICK o \in Order :
          /\ oidToOrder[o.oid] = Null
          /\ \A i \in DOMAIN live : live[i].side # o.side => Better(o.side, live[i].price, o.price)
          /\ CanAllocate(orderPool) /\ CanAllocate(levelPool)
          /\ AddOrder(o)
          /\ UpdateBBO(o.side, o.price)
          /\ live' = Append(live, o)
    BY DEF Add
<1>3. PICK b, s, p, l : /\ b = orderPool.next /\ s = o.side /\ p = o.price
                        /\ l = IF atPrice[PriceToIndex(p)] = Null
                               THEN levelPool.next ELSE atPrice[PriceToIndex(p)]
    OBVIOUS
<1>4. /\ o.oid \in Oids /\ s \in Sides /\ p \in Prices
      /\ b \in Blocks(OrderBlocks) /\ ~HasOrder(b)
    BY <1>1, <1>3 DEF Order, TypeOK, IsPool, OrderPoolKnown
<1>5. /\ orderAt' = [orderAt EXCEPT ![b] = o]
      /\ oidToOrder' = [oidToOrder EXCEPT ![o.oid] = b]
      /\ orderPool' = Allocate(orderPool)
    BY <1>2, <1>3 DEF AddOrder
<1>6. OrderComes(b, o)
    BY <1>2, <1>4, <1>5 DEF OrderComes
<1>7. \A i \in DOMAIN live : live[i].side # s => live[i].price # p
    <2> SUFFICES ASSUME NEW i \in DOMAIN live, live[i].side # s, live[i].price = p PROVE FALSE
        OBVIOUS
    <2>1. Better(s, p, p) /\ p \in Nat
        BY <1>2, <1>3, <1>4, Basics
    <2> QED BY <1>4, <2>1, BetterOrders
<1>8. OrdersKnown' /\ OneSideAPrice'
    BY <1>1, <1>2, <1>3, <1>4, <1>5, <1>7, AddKnowsOrders
<1>9. /\ orderAt' \in [Blocks(OrderBlocks) -> Order \cup {None}]
      /\ oidToOrder' \in [Oids -> Blocks(OrderBlocks) \cup {Null}]
      /\ live' \in Seq(Order)
    <2>1. live' \in Seq(Order)
        BY <1>1, <1>2, LiveAppends
    <2> QED BY <1>1, <1>4, <1>5, <2>1 DEF TypeOK
<1>10. OrderPoolKnown' /\ IsPool(orderPool', OrderBlocks)
    <2>1. /\ HasOrder(b)'
          /\ \A c \in Blocks(OrderBlocks) : c # b => (HasOrder(c)' <=> HasOrder(c))
        BY <1>1, <1>4, <1>6, OrderComesFacts DEF HasOrder
    <2> QED BY <1>1, <1>2, <1>3, <1>5, <2>1, OrderBlockTaken
<1>11. LevelsFollow(s, p)
    <2>1. CASE atPrice[PriceToIndex(p)] = Null
        <3>1. LevelComes(l, s, p, <<b>>) /\ levelPool' = Allocate(levelPool) /\ l = levelPool.next
            BY <1>2, <1>3, <2>1 DEF AddOrder, LevelComes
        <3> QED BY <1>2, <1>3, <1>4, <1>6, <2>1, <3>1, AddWithLevel
    <2>2. CASE atPrice[PriceToIndex(p)] # Null
        <3>1. l = atPrice[PriceToIndex(p)]
            BY <1>3, <2>2
        <3>2. QueueChanges(l, Append(levelAt[l].queue, b)) /\ UNCHANGED levelPool
            BY <1>2, <1>3, <2>2, <3>1 DEF AddOrder, QueueChanges, Queued
        <3> QED BY <1>3, <1>4, <1>6, <1>7, <2>2, <3>1, <3>2, AddToLevel
    <2> QED BY <2>1, <2>2
<1>12. /\ BBOIsTopOrAbsent'
       /\ bbo' \in [Sides -> [price : Prices, qty : Nat] \cup {None}]
    BY <1>1, <1>2, <1>3, <1>4, <1>9, <1>11, BBOFollows DEF LevelsFollow
<1>13. TypeOK'
    BY <1>9, <1>10, <1>11, <1>12 DEF TypeOK, LevelsFollow
<1> QED BY <1>8, <1>10, <1>11, <1>12, <1>13 DEF IInv, BookInv, PoolInv, LevelsFollow

\* The last order of a level takes it along.
LEMMA CancelWithLevel ==
    ASSUME IInv, NEW i \in DOMAIN live, NEW b, OrderGoes(i, b),
           NEW s, s = orderAt[b].side, NEW p, p = orderAt[b].price,
           NEW l, l = atPrice[PriceToIndex(p)], levelAt[l].queue = <<b>>,
           LevelGoes(l, s, p), levelPool' = Deallocate(levelPool, {l})
    PROVE  LevelsFollow(s, p)
<1>1. TypeOK /\ OrdersKnown /\ LevelsKnown /\ QueuesKnown /\ LevelPoolKnown
    BY DEF IInv, BookInv, PoolInv
<1>2. /\ b \in Blocks(OrderBlocks) /\ HasOrder(b) /\ s \in Sides /\ p \in Prices
      /\ \A c \in Blocks(OrderBlocks) : c # b => orderAt'[c] = orderAt[c]
    BY <1>1, OrderGoesFacts
<1>3. l \in Blocks(LevelBlocks) /\ HasLevel(l) /\ levelAt[l].side = s /\ levelAt[l].price = p
    BY <1>1, <1>2, OrderHasLevel
<1>4. /\ LevelsKnown'
      /\ levelAt' \in [Blocks(LevelBlocks) -> Level \cup {None}]
      /\ atPrice' \in [0 .. PriceLevels - 1 -> Blocks(LevelBlocks) \cup {Null}]
      /\ sideLevels' \in [Sides -> Seq(Blocks(LevelBlocks))]
      /\ ~HasLevel(l)'
      /\ \A k \in Blocks(LevelBlocks) : k # l => levelAt'[k] = levelAt[k]
      /\ \A t \in Sides : t # s => sideLevels'[t] = sideLevels[t]
      /\ Head(sideLevels[s]) # l =>
             sideLevels'[s] # <<>> /\ Head(sideLevels'[s]) = Head(sideLevels[s])
    BY <1>1, <1>3, LevelGoesKnown
<1>5. QueuesKnown'
    BY <1>1, GoneLevelQueues
<1>6. LevelPoolKnown' /\ IsPool(levelPool', LevelBlocks)
    <2>1. \A k \in Blocks(LevelBlocks) : k # l => (HasLevel(k)' <=> HasLevel(k))
        BY <1>4 DEF HasLevel
    <2> QED BY <1>1, <1>3, <1>4, <2>1, LevelBlockGivenBack
<1>7. UpdatesAt(s, p)
    <2>1. ASSUME NEW k \in Blocks(LevelBlocks), HasLevel(k),
                 levelAt[k].side # s \/ levelAt[k].price # p
          PROVE  /\ levelAt'[k] = levelAt[k]
                 /\ \A j \in DOMAIN levelAt[k].queue :
                        orderAt'[levelAt[k].queue[j]] = orderAt[levelAt[k].queue[j]]
        <3>1. k # l /\ levelAt'[k] = levelAt[k]
            BY <1>3, <1>4, <2>1
        <3>2. \A j \in DOMAIN levelAt[k].queue :
                  levelAt[k].queue[j] \in Blocks(OrderBlocks) /\ levelAt[k].queue[j] # b
            <4> SUFFICES ASSUME NEW j \in DOMAIN levelAt[k].queue,
                                NEW c, c = levelAt[k].queue[j]
                         PROVE  c \in Blocks(OrderBlocks) /\ c # b
                OBVIOUS
            <4>1. /\ c \in Blocks(OrderBlocks)
                  /\ orderAt[c].side = levelAt[k].side /\ orderAt[c].price = levelAt[k].price
                BY <1>1, <2>1, QueueFacts
            <4> QED BY <2>1, <4>1
        <3> QED BY <1>2, <3>1, <3>2
    <2>2. ASSUME NEW t \in Sides, sideLevels[t] # <<>>, t # s \/ Better(s, BestPrice(s), p)
          PROVE  sideLevels'[t] # <<>> /\ Head(sideLevels'[t]) = Head(sideLevels[t])
        <3>1. CASE t # s
            BY <1>4, <2>2, <3>1
        <3>2. CASE t = s
            <4>1. ASSUME Head(sideLevels[s]) = l PROVE FALSE
                <5>1. Better(s, p, p) /\ p \in Nat
                    BY <1>2, <1>3, <2>2, <3>2, <4>1, Basics DEF BestPrice
                <5> QED BY <1>2, <5>1, BetterOrders
            <4> QED BY <1>4, <3>2, <4>1
        <3> QED BY <3>1, <3>2
    <2> QED BY <2>1, <2>2 DEF UpdatesAt
<1> QED BY <1>4, <1>5, <1>6, <1>7 DEF LevelsFollow

\* Another order leaves its queue.
LEMMA CancelFromLevel ==
    ASSUME IInv, NEW i \in DOMAIN live, NEW b, OrderGoes(i, b),
           NEW s, s = orderAt[b].side, NEW p, p = orderAt[b].price,
           NEW l, l = atPrice[PriceToIndex(p)], levelAt[l].queue # <<b>>,
           QueueChanges(l, Without(levelAt[l].queue, b)), UNCHANGED levelPool
    PROVE  LevelsFollow(s, p)
<1>1. TypeOK /\ OrdersKnown /\ LevelsKnown /\ QueuesKnown /\ LevelPoolKnown
    BY DEF IInv, BookInv, PoolInv
<1>2. /\ b \in Blocks(OrderBlocks) /\ HasOrder(b) /\ s \in Sides /\ p \in Prices
      /\ \A c \in Blocks(OrderBlocks) : c # b => orderAt'[c] = orderAt[c]
    BY <1>1, OrderGoesFacts
<1>3. l \in Blocks(LevelBlocks) /\ HasLevel(l) /\ levelAt[l].side = s /\ levelAt[l].price = p
    BY <1>1, <1>2, OrderHasLevel
<1>4. QueuesKnown' /\ Without(levelAt[l].queue, b) \in Seq(Blocks(OrderBlocks))
    BY <1>1, LeftQueues
<1>5. /\ LevelsKnown'
      /\ levelAt' \in [Blocks(LevelBlocks) -> Level \cup {None}]
      /\ \A k \in Blocks(LevelBlocks) : k # l => levelAt'[k] = levelAt[k]
      /\ \A k \in Blocks(LevelBlocks) : HasLevel(k)' <=> HasLevel(k)
    <2>1. PICK queue : queue = Without(levelAt[l].queue, b)
        OBVIOUS
    <2>2. queue \in Seq(Blocks(OrderBlocks)) /\ QueueChanges(l, queue)
        BY <1>4, <2>1
    <2> QED BY <1>1, <1>3, <2>2, QueueChangesKnown
<1>6. atPrice' = atPrice /\ sideLevels' = sideLevels
    BY DEF QueueChanges
<1>7. LevelPoolKnown' /\ IsPool(levelPool', LevelBlocks)
    BY <1>1, <1>5 DEF LevelPoolKnown, TypeOK, HasLevel
<1>8. UpdatesAt(s, p)
    <2>1. ASSUME NEW k \in Blocks(LevelBlocks), HasLevel(k),
                 levelAt[k].side # s \/ levelAt[k].price # p
          PROVE  /\ levelAt'[k] = levelAt[k]
                 /\ \A j \in DOMAIN levelAt[k].queue :
                        orderAt'[levelAt[k].queue[j]] = orderAt[levelAt[k].queue[j]]
        <3>1. k # l /\ levelAt'[k] = levelAt[k]
            BY <1>3, <1>5, <2>1
        <3>2. \A j \in DOMAIN levelAt[k].queue :
                  levelAt[k].queue[j] \in Blocks(OrderBlocks) /\ levelAt[k].queue[j] # b
            <4> SUFFICES ASSUME NEW j \in DOMAIN levelAt[k].queue,
                                NEW c, c = levelAt[k].queue[j]
                         PROVE  c \in Blocks(OrderBlocks) /\ c # b
                OBVIOUS
            <4>1. /\ c \in Blocks(OrderBlocks)
                  /\ orderAt[c].side = levelAt[k].side /\ orderAt[c].price = levelAt[k].price
                BY <1>1, <2>1, QueueFacts
            <4> QED BY <2>1, <4>1
        <3> QED BY <1>2, <3>1, <3>2
    <2> QED BY <1>6, <2>1 DEF UpdatesAt
<1> QED BY <1>1, <1>4, <1>5, <1>6, <1>7, <1>8 DEF LevelsFollow, TypeOK

LEMMA CancelKeepsInv ==
    ASSUME IInv, Cancel
    PROVE  IInv'
<1>1. /\ TypeOK /\ OrdersKnown /\ OneSideAPrice /\ LevelsKnown /\ QueuesKnown
      /\ OrderPoolKnown /\ LevelPoolKnown /\ BBOIsTopOrAbsent
    BY DEF IInv, BookInv, PoolInv
<1>2. PICK i \in DOMAIN live :
          /\ RemoveOrder(oidToOrder[live[i].oid])
          /\ UpdateBBO(live[i].side, live[i].price)
          /\ live' = RemoveAt(live, i)
    BY DEF Cancel
<1>3. PICK b, s, p, l : /\ b = oidToOrder[live[i].oid]
                        /\ s = orderAt[b].side /\ p = orderAt[b].price
                        /\ l = atPrice[PriceToIndex(p)]
    OBVIOUS
<1>4. /\ OrderGoes(i, b)
      /\ oidToOrder' = [oidToOrder EXCEPT ![orderAt[b].oid] = Null]
      /\ orderPool' = Deallocate(orderPool, {b})
    BY <1>2, <1>3 DEF RemoveOrder, OrderGoes
<1>5. /\ b \in Blocks(OrderBlocks) /\ orderAt[b] = live[i]
      /\ s \in Sides /\ p \in Prices
      /\ orderAt' \in [Blocks(OrderBlocks) -> Order \cup {None}]
      /\ ~HasOrder(b)'
      /\ \A c \in Blocks(OrderBlocks) : c # b => (HasOrder(c)' <=> HasOrder(c))
    BY <1>1, <1>3, <1>4, OrderGoesFacts
<1>6. oidToOrder' = [oidToOrder EXCEPT ![live[i].oid] = Null]
    BY <1>4, <1>5
<1>7. OrdersKnown' /\ OneSideAPrice'
    BY <1>1, <1>2, <1>4, <1>6, CancelKnowsOrders DEF OrderGoes
<1>8. oidToOrder' \in [Oids -> Blocks(OrderBlocks) \cup {Null}] /\ live' \in Seq(Order)
    <2>1. live' \in Seq(Order)
        BY <1>1, <1>2, LiveRemoves
    <2>2. live[i].oid \in Oids
        BY <1>1, TypeFacts
    <2> QED BY <1>1, <1>6, <2>1, <2>2 DEF TypeOK
<1>9. OrderPoolKnown' /\ IsPool(orderPool', OrderBlocks)
    BY <1>1, <1>4, <1>5, OrderBlockGivenBack
<1>10. LevelsFollow(s, p)
    <2>1. CASE levelAt[l].queue = <<b>>
        <3>1. LevelGoes(l, s, p) /\ levelPool' = Deallocate(levelPool, {l})
            BY <1>2, <1>3, <2>1 DEF RemoveOrder, RemoveLevel, LevelGoes
        <3> QED BY <1>3, <1>4, <2>1, <3>1, CancelWithLevel
    <2>2. CASE levelAt[l].queue # <<b>>
        <3>1. QueueChanges(l, Without(levelAt[l].queue, b)) /\ UNCHANGED levelPool
            BY <1>2, <1>3, <2>2 DEF RemoveOrder, QueueChanges
        <3> QED BY <1>3, <1>4, <2>2, <3>1, CancelFromLevel
    <2> QED BY <2>1, <2>2
<1>11. UpdateBBO(s, p)
    BY <1>2, <1>3, <1>5
<1>12. /\ BBOIsTopOrAbsent'
       /\ bbo' \in [Sides -> [price : Prices, qty : Nat] \cup {None}]
    BY <1>1, <1>5, <1>10, <1>11, BBOFollows DEF LevelsFollow
<1>13. TypeOK'
    BY <1>5, <1>8, <1>9, <1>10, <1>12 DEF TypeOK, LevelsFollow
<1> QED BY <1>7, <1>9, <1>10, <1>12, <1>13 DEF IInv, BookInv, PoolInv, LevelsFollow

LEMMA ModifyKeepsInv ==
    ASSUME IInv, Modify
    PROVE  IInv'
<1>1. /\ TypeOK /\ OrdersKnown /\ OneSideAPrice /\ LevelsKnown /\ QueuesKnown
      /\ OrderPoolKnown /\ LevelPoolKnown /\ BBOIsTopOrAbsent
    BY DEF IInv, BookInv, PoolInv
<1>2. PICK i \in DOMAIN live, q \in Qtys :
          /\ orderAt' = [orderAt EXCEPT ![oidToOrder[live[i].oid]].qty = q]
          /\ UNCHANGED <<orderPool, levelAt, levelPool, lists>>
          /\ UpdateBBO(live[i].side, live[i].price)
          /\ live' = [live EXCEPT ![i].qty = q]
    BY DEF Modify
<1>3. PICK b, s, p : b = oidToOrder[live[i].oid] /\ s = live[i].side /\ p = live[i].price
    OBVIOUS
<1>4. QtyChanges(i, b)
    BY <1>1, <1>2, <1>3, ModifyIsQty
<1>5. /\ b \in Blocks(OrderBlocks) /\ orderAt[b] = live[i]
      /\ orderAt' \in [Blocks(OrderBlocks) -> Order \cup {None}]
      /\ live' \in Seq(Order)
      /\ \A c \in Blocks(OrderBlocks) : c # b => orderAt'[c] = orderAt[c]
      /\ \A c \in Blocks(OrderBlocks) : HasOrder(c)' <=> HasOrder(c)
    BY <1>4 DEF QtyChanges
<1>6. s \in Sides /\ p \in Prices /\ live[i] # None
    BY <1>1, <1>3, TypeFacts, Basics
<1>7. /\ levelAt' = levelAt /\ levelPool' = levelPool /\ sideLevels' = sideLevels
      /\ atPrice' = atPrice /\ oidToOrder' = oidToOrder /\ orderPool' = orderPool
    BY <1>2 DEF lists
<1>8. OrdersKnown' /\ OneSideAPrice'
    BY <1>1, <1>3, <1>4, <1>7, ModifyKnowsOrders
<1>9. QueuesKnown'
    BY <1>1, <1>4, <1>7, ModifyQueues
<1>10. LevelsKnown' /\ LevelPoolKnown' /\ IsPool(levelPool', LevelBlocks)
    BY <1>1, <1>7 DEF LevelsKnown, HasLevel, LevelPoolKnown, TypeOK
<1>11. OrderPoolKnown' /\ IsPool(orderPool', OrderBlocks)
    BY <1>1, <1>5, <1>7 DEF OrderPoolKnown, HasOrder, TypeOK
<1>12. UpdatesAt(s, p)
    <2>1. ASSUME NEW k \in Blocks(LevelBlocks), HasLevel(k),
                 levelAt[k].side # s \/ levelAt[k].price # p,
                 NEW j \in DOMAIN levelAt[k].queue
          PROVE  orderAt'[levelAt[k].queue[j]] = orderAt[levelAt[k].queue[j]]
        <3>1. /\ levelAt[k].queue[j] \in Blocks(OrderBlocks)
              /\ orderAt[levelAt[k].queue[j]].side = levelAt[k].side
              /\ orderAt[levelAt[k].queue[j]].price = levelAt[k].price
            BY <1>1, <2>1, QueueFacts
        <3>2. levelAt[k].queue[j] # b
            BY <1>3, <1>5, <2>1, <3>1
        <3> QED BY <1>5, <3>1, <3>2
    <2> QED BY <1>7, <2>1 DEF UpdatesAt
<1>13. /\ BBOIsTopOrAbsent'
       /\ bbo' \in [Sides -> [price : Prices, qty : Nat] \cup {None}]
    <2>1. UpdateBBO(s, p)
        BY <1>2, <1>3
    <2>2. /\ levelAt' \in [Blocks(LevelBlocks) -> Level \cup {None}]
          /\ sideLevels' \in [Sides -> Seq(Blocks(LevelBlocks))]
        BY <1>1, <1>7 DEF TypeOK
    <2> QED BY <1>1, <1>5, <1>6, <1>9, <1>10, <1>12, <2>1, <2>2, BBOFollows
<1>14. TypeOK'
    BY <1>1, <1>5, <1>7, <1>13 DEF TypeOK
<1> QED BY <1>8, <1>9, <1>10, <1>11, <1>13, <1>14 DEF IInv, BookInv, PoolInv

\* A CLEAR that meets no order changes nothing.
LEMMA ClearOfNothing ==
    ASSUME IInv, ~Recovers, Clear
    PROVE  UNCHANGED vars
<1>1. /\ TypeOK /\ OrdersKnown /\ LevelsKnown /\ QueuesKnown
    BY DEF IInv, BookInv
<1>2. live = <<>> /\ live' = live
    BY DEF Clear
<1>3. \A b \in Blocks(OrderBlocks) : ~HasOrder(b)
    BY <1>1, <1>2 DEF OrdersKnown
<1>4. \A l \in Blocks(LevelBlocks) : ~HasLevel(l)
    <2> SUFFICES ASSUME NEW l \in Blocks(LevelBlocks), HasLevel(l) PROVE FALSE
        OBVIOUS
    <2>1. levelAt[l].queue[1] \in Blocks(OrderBlocks) /\ HasOrder(levelAt[l].queue[1])
        BY <1>1, QueueFacts
    <2> QED BY <1>3, <2>1
<1>5. \A oid \in Oids : oidToOrder[oid] = Null
    BY <1>1, <1>3, TypeFacts DEF OrdersKnown
<1>6. \A s \in Sides : sideLevels[s] = <<>>
    <2> SUFFICES ASSUME NEW s \in Sides, sideLevels[s] # <<>> PROVE FALSE
        OBVIOUS
    <2>1. sideLevels[s] \in Seq(Blocks(LevelBlocks))
        BY <1>1 DEF TypeOK
    <2>2. 1 \in DOMAIN sideLevels[s]
        BY <2>1
    <2> QED BY <1>1, <1>4, <2>2, ListedLevels
<1>7. oidToOrder' = oidToOrder /\ sideLevels' = sideLevels
    BY <1>1, <1>5, <1>6 DEF Clear, TypeOK
<1>8. orderPool' = Deallocate(orderPool, {}) /\ levelPool' = Deallocate(levelPool, {})
    <2>1. Range(oidToOrder) \ {Null} = {}
        BY <1>1, <1>5 DEF Range, TypeOK
    <2>2. \A s \in Sides : Range(sideLevels[s]) = {}
        BY <1>6 DEF Range
    <2>3. UNION {Range(sideLevels[s]) : s \in Sides} = {}
        BY <2>2
    <2> QED BY <2>1, <2>3 DEF Clear
<1>9. orderPool' = orderPool /\ levelPool' = levelPool
    BY <1>1, <1>8 DEF Deallocate, TypeOK, IsPool
<1> QED BY <1>2, <1>7, <1>9 DEF Clear, vars, pools, lists

LEMMA UnchangedKeepsInv ==
    ASSUME IInv, UNCHANGED vars
    PROVE  IInv'
<1>1. TypeOK /\ BookInv /\ PoolInv /\ BBOIsTopOrAbsent
    BY DEF IInv
<1>2. /\ orderAt' = orderAt /\ orderPool' = orderPool /\ levelAt' = levelAt
      /\ levelPool' = levelPool /\ sideLevels' = sideLevels /\ atPrice' = atPrice
      /\ oidToOrder' = oidToOrder /\ bbo' = bbo /\ live' = live
    BY DEF vars, pools, lists
<1>3. TypeOK'
    BY <1>1, <1>2 DEF TypeOK
<1>4. OrdersKnown' /\ OneSideAPrice'
    BY <1>1, <1>2 DEF BookInv, OrdersKnown, OneSideAPrice, HasOrder
<1>5. LevelsKnown'
    BY <1>1, <1>2 DEF BookInv, LevelsKnown, HasLevel
<1>6. QueuesKnown'
    BY <1>1, <1>2 DEF BookInv, QueuesKnown, QueueKnown, IsQueued, Earlier, HasOrder, HasLevel
<1>7. PoolInv'
    BY <1>1, <1>2 DEF PoolInv, OrderPoolKnown, LevelPoolKnown, HasOrder, HasLevel
<1>8. BBOIsTopOrAbsent'
    BY <1>1, <1>2 DEF BBOIsTopOrAbsent, Top, BestPrice, OrdersAt
<1> QED BY <1>3, <1>4, <1>5, <1>6, <1>7, <1>8 DEF IInv, BookInv

LEMMA InitIInv == Init => IInv
<1> SUFFICES ASSUME Init PROVE IInv
    OBVIOUS
<1>1. /\ \A n \in Nat \ {0} : IsPool(NewPool(n), n) /\ NewPool(n).free = Blocks(n)
                              /\ NewPool(n).next \in NewPool(n).free
      /\ \A n \in Nat : Null \notin Blocks(n)
    BY DEF IsPool, NewPool, Blocks, Null
<1>2. /\ IsPool(orderPool, OrderBlocks) /\ orderPool.free = Blocks(OrderBlocks)
      /\ orderPool.next \in orderPool.free
      /\ IsPool(levelPool, LevelBlocks) /\ levelPool.free = Blocks(LevelBlocks)
      /\ levelPool.next \in levelPool.free
    BY <1>1, BlocksAssumption DEF Init
<1>3. TypeOK
    BY <1>2 DEF Init, TypeOK
<1>4. /\ \A b \in Blocks(OrderBlocks) : ~HasOrder(b)
      /\ \A l \in Blocks(LevelBlocks) : ~HasLevel(l)
    BY DEF Init, HasOrder, HasLevel
<1>5. OrdersKnown /\ OneSideAPrice
    BY <1>4 DEF Init, OrdersKnown, OneSideAPrice
<1>6. LevelsKnown
    BY <1>4 DEF Init, LevelsKnown
<1>7. QueuesKnown /\ OrderPoolKnown /\ LevelPoolKnown
    BY <1>2, <1>4 DEF QueuesKnown, OrderPoolKnown, LevelPoolKnown
<1>8. BBOIsTopOrAbsent
    BY DEF Init, BBOIsTopOrAbsent
<1> QED BY <1>3, <1>5, <1>6, <1>7, <1>8 DEF IInv, BookInv, PoolInv

LEMMA StepIInv == PriceWindow /\ ~Recovers /\ IInv /\ [Next]_vars => IInv'
<1> SUFFICES ASSUME PriceWindow, ~Recovers, IInv, [Next]_vars PROVE IInv'
    OBVIOUS
<1>1. CASE Add
    BY <1>1, AddKeepsInv
<1>2. CASE Modify
    BY <1>2, ModifyKeepsInv
<1>3. CASE Cancel
    BY <1>3, CancelKeepsInv
<1>4. CASE Trade
    BY <1>4, UnchangedKeepsInv DEF Trade
<1>5. CASE Clear
    BY <1>5, ClearOfNothing, UnchangedKeepsInv
<1>6. CASE UNCHANGED vars
    BY <1>6, UnchangedKeepsInv
<1> QED BY <1>1, <1>2, <1>3, <1>4, <1>5, <1>6 DEF Next

LEMMA Invariant == PriceWindow /\ ~Recovers => (Spec => []IInv)
<1> SUFFICES ASSUME PriceWindow, ~Recovers PROVE Spec => []IInv
    OBVIOUS
<1>1. IInv /\ [Next]_vars => IInv'
    BY StepIInv
<1> QED BY <1>1, InitIInv, PTL DEF Spec

-----------------------------------------------------------------------------
(* The theorems: as long as no two prices share a place in the table of    *)
(* levels, and no CLEAR comes while there are orders, which is when no     *)
(* message is lost.                                                        *)

\* The client's book, the two pools and the best bid and offer stay within their
\* types, whatever the updates.
THEOREM TypeCorrect == PriceWindow /\ ~Recovers => (Spec => []TypeOK)
<1> SUFFICES ASSUME PriceWindow, ~Recovers PROVE Spec => []TypeOK
    OBVIOUS
<1>1. IInv => TypeOK
    BY DEF IInv
<1> QED BY <1>1, Invariant, PTL

\* The lists, the table of levels and the table of orders hold what the updates have
\* said, in price and time priority.
THEOREM BookFollowsStream == PriceWindow /\ ~Recovers => (Spec => []BookIsStream)
<1> SUFFICES ASSUME PriceWindow, ~Recovers PROVE Spec => []BookIsStream
    OBVIOUS
<1>1. ASSUME IInv PROVE BookIsStream
    <2>1. TypeOK /\ OrdersKnown /\ LevelsKnown /\ QueuesKnown
        BY <1>1 DEF IInv, BookInv
    <2> SUFFICES ASSUME NEW s \in Sides,
                        NEW ls, ls = sideLevels[s],
                        NEW side, side = {o \in Range(live) : o.side = s}
                 PROVE  /\ {levelAt[ls[i]].price : i \in DOMAIN ls} = {o.price : o \in side}
                        /\ \A i \in DOMAIN ls :
                               /\ Range(OrdersAt(ls[i])) = {o \in side : o.price = levelAt[ls[i]].price}
                               /\ AsArrived(OrdersAt(ls[i]))
                        /\ \A i, j \in DOMAIN ls :
                               i < j => Better(s, levelAt[ls[i]].price, levelAt[ls[j]].price)
        BY DEF BookIsStream
    <2>2. \A i \in DOMAIN ls : /\ ls[i] \in Blocks(LevelBlocks) /\ HasLevel(ls[i])
                               /\ levelAt[ls[i]].side = s
        BY <2>1, ListedLevels
    <2>3. \A o : o \in side <=> \E m \in DOMAIN live : live[m] = o /\ o.side = s
        BY DEF Range
    \* the orders of a level are those of the stream
    <2>4. ASSUME NEW i \in DOMAIN ls, NEW j \in DOMAIN levelAt[ls[i]].queue,
                 NEW o, o = orderAt[levelAt[ls[i]].queue[j]]
          PROVE  o \in side /\ o.price = levelAt[ls[i]].price
        <3>1. /\ levelAt[ls[i]].queue[j] \in Blocks(OrderBlocks)
              /\ HasOrder(levelAt[ls[i]].queue[j])
              /\ o.side = s /\ o.price = levelAt[ls[i]].price
            BY <2>1, <2>2, <2>4, QueueFacts
        <3>2. \E m \in DOMAIN live : live[m] = o
            <4>1. \A b \in Blocks(OrderBlocks) :
                      HasOrder(b) => \E m \in DOMAIN live : live[m] = orderAt[b]
                BY <2>1 DEF OrdersKnown
            <4> QED BY <2>4, <3>1, <4>1
        <3> QED BY <2>3, <3>1, <3>2
    \* those of the stream are in a level
    <2>5. ASSUME NEW o \in side
          PROVE  \E i \in DOMAIN ls : /\ levelAt[ls[i]].price = o.price
                                      /\ \E j \in DOMAIN levelAt[ls[i]].queue :
                                             orderAt[levelAt[ls[i]].queue[j]] = o
        <3>1. PICK m \in DOMAIN live : live[m] = o /\ o.side = s
            BY <2>3
        <3>2. PICK b \in Blocks(OrderBlocks) : HasOrder(b) /\ orderAt[b] = o
            <4>1. /\ oidToOrder[live[m].oid] # Null
                  /\ orderAt[oidToOrder[live[m].oid]] = live[m]
                  /\ live[m].oid \in Oids
                BY <2>1, TypeFacts DEF OrdersKnown
            <4>2. oidToOrder[live[m].oid] \in Blocks(OrderBlocks)
                BY <2>1, <4>1, TypeFacts
            <4>3. HasOrder(oidToOrder[live[m].oid])
                BY <2>1, <4>1 DEF OrdersKnown
            <4> QED BY <3>1, <4>1, <4>2, <4>3
        <3>3. PICK l : l = atPrice[PriceToIndex(orderAt[b].price)]
            OBVIOUS
        <3>4. /\ l \in Blocks(LevelBlocks) /\ HasLevel(l)
              /\ levelAt[l].side = s /\ levelAt[l].price = o.price
              /\ \E j \in DOMAIN levelAt[l].queue : levelAt[l].queue[j] = b
            BY <2>1, <3>1, <3>2, <3>3, OrderHasLevel
        <3>5. PICK i \in DOMAIN ls : ls[i] = l
            BY <2>1, <3>4 DEF LevelsKnown
        <3> QED BY <3>2, <3>4, <3>5
    <2>6. {levelAt[ls[i]].price : i \in DOMAIN ls} = {o.price : o \in side}
        <3>1. ASSUME NEW i \in DOMAIN ls
              PROVE  \E o \in side : o.price = levelAt[ls[i]].price
            <4>1. 1 \in DOMAIN levelAt[ls[i]].queue
                BY <2>1, <2>2, QueueFacts
            <4> QED BY <2>4, <4>1
        <3> QED BY <2>5, <3>1
    <2>7. \A i, j \in DOMAIN ls :
              i < j => Better(s, levelAt[ls[i]].price, levelAt[ls[j]].price)
        BY <2>1 DEF LevelsKnown
    \* a price has one level
    <2>8. ASSUME NEW i \in DOMAIN ls, NEW j \in DOMAIN ls,
                 levelAt[ls[i]].price = levelAt[ls[j]].price
          PROVE  ls[i] = ls[j]
        BY <2>1, <2>2, <2>8 DEF LevelsKnown
    <2>9. ASSUME NEW i \in DOMAIN ls, NEW q, q = levelAt[ls[i]].queue,
                 NEW os, os = OrdersAt(ls[i])
          PROVE  /\ DOMAIN os = DOMAIN q /\ \A j \in DOMAIN q : os[j] = orderAt[q[j]]
                 /\ Range(os) = {o \in side : o.price = levelAt[ls[i]].price}
        <3>1. DOMAIN os = DOMAIN q /\ \A j \in DOMAIN q : os[j] = orderAt[q[j]]
            BY <2>9 DEF OrdersAt
        <3>2. \A j \in DOMAIN q : os[j] \in side /\ os[j].price = levelAt[ls[i]].price
            BY <2>4, <2>9, <3>1
        <3>3. ASSUME NEW o \in side, o.price = levelAt[ls[i]].price
              PROVE  \E j \in DOMAIN q : os[j] = o
            <4>1. PICK k \in DOMAIN ls :
                      /\ levelAt[ls[k]].price = o.price
                      /\ \E j \in DOMAIN levelAt[ls[k]].queue :
                             orderAt[levelAt[ls[k]].queue[j]] = o
                BY <2>5
            <4>2. ls[k] = ls[i]
                BY <2>8, <3>3, <4>1
            <4> QED BY <2>9, <3>1, <4>1, <4>2
        <3> QED BY <3>1, <3>2, <3>3 DEF Range
    <2>10. ASSUME NEW i \in DOMAIN ls PROVE AsArrived(OrdersAt(ls[i]))
        <3>1. PICK q, os : q = levelAt[ls[i]].queue /\ os = OrdersAt(ls[i])
            OBVIOUS
        <3>2. DOMAIN os = DOMAIN q /\ \A j \in DOMAIN q : os[j] = orderAt[q[j]]
            BY <3>1 DEF OrdersAt
        <3> SUFFICES ASSUME NEW m \in DOMAIN q, NEW n \in DOMAIN q, m < n
                     PROVE  PlaceOf(os[m], live) < PlaceOf(os[n], live)
            BY <3>1, <3>2 DEF AsArrived
        <3>3. /\ \E k \in DOMAIN live : live[k] = os[m]
              /\ \E k \in DOMAIN live : live[k] = os[n]
            BY <2>3, <2>4, <3>1, <3>2
        <3>4. /\ PlaceOf(os[m], live) \in DOMAIN live /\ live[PlaceOf(os[m], live)] = os[m]
              /\ PlaceOf(os[n], live) \in DOMAIN live /\ live[PlaceOf(os[n], live)] = os[n]
            BY <3>3, PlaceIs
        <3>5. Earlier(os[m].oid, os[n].oid)
            BY <2>1, <2>2, <3>1, <3>2 DEF QueuesKnown, QueueKnown
        <3> QED BY <3>4, <3>5 DEF Earlier
    <2>11. \A i \in DOMAIN ls :
               Range(OrdersAt(ls[i])) = {o \in side : o.price = levelAt[ls[i]].price}
        BY <2>9
    <2> QED BY <2>6, <2>7, <2>10, <2>11
<1> QED BY <1>1, Invariant, PTL

\* UpdateBBO decides on the book before the update whether the best bid and offer are
\* to be brought up to date, and never leaves a wrong one.
THEOREM BBOIsRight == PriceWindow /\ ~Recovers => (Spec => []BBOIsTopOrAbsent)
<1> SUFFICES ASSUME PriceWindow, ~Recovers PROVE Spec => []BBOIsTopOrAbsent
    OBVIOUS
<1>1. IInv => BBOIsTopOrAbsent
    BY DEF IInv
<1> QED BY <1>1, Invariant, PTL

\* No block of the pools is lost or handed out twice, and the next one to be handed
\* out is always free.
THEOREM BlocksAccounted == PriceWindow /\ ~Recovers => (Spec => []PoolsAccount)
<1> SUFFICES ASSUME PriceWindow, ~Recovers PROVE Spec => []PoolsAccount
    OBVIOUS
<1>1. ASSUME IInv PROVE PoolsAccount
    <2>1. TypeOK /\ OrdersKnown /\ LevelsKnown /\ OrderPoolKnown /\ LevelPoolKnown
        BY <1>1 DEF IInv, BookInv, PoolInv
    <2>2. \A b \in Blocks(OrderBlocks) : HasOrder(b) <=> b \in Range(oidToOrder)
        <3>1. ASSUME NEW b \in Blocks(OrderBlocks), HasOrder(b) PROVE b \in Range(oidToOrder)
            <4>1. orderAt[b].oid \in Oids /\ oidToOrder[orderAt[b].oid] = b
                BY <2>1, <3>1, TypeFacts DEF OrdersKnown, Order
            <4> QED BY <2>1, <4>1 DEF Range, TypeOK
        <3>2. ASSUME NEW b \in Blocks(OrderBlocks), b \in Range(oidToOrder) PROVE HasOrder(b)
            <4>1. PICK oid \in Oids : oidToOrder[oid] = b
                BY <2>1, <3>2 DEF Range, TypeOK
            <4>2. b # Null
                BY Basics, BlocksAssumption
            <4> QED BY <2>1, <4>1, <4>2 DEF OrdersKnown
        <3> QED BY <3>1, <3>2
    <2>3. \A l \in Blocks(LevelBlocks) :
              HasLevel(l) <=> l \in UNION {Range(sideLevels[s]) : s \in Sides}
        <3>1. ASSUME NEW l \in Blocks(LevelBlocks), HasLevel(l)
              PROVE  \E s \in Sides : l \in Range(sideLevels[s])
            <4>1. levelAt[l].side \in Sides
                BY <2>1, <3>1, TypeFacts
            <4>2. PICK i \in DOMAIN sideLevels[levelAt[l].side] :
                      sideLevels[levelAt[l].side][i] = l
                BY <2>1, <3>1 DEF LevelsKnown
            <4> QED BY <4>1, <4>2 DEF Range
        <3>2. ASSUME NEW l \in Blocks(LevelBlocks), NEW s \in Sides, l \in Range(sideLevels[s])
              PROVE  HasLevel(l)
            <4>1. PICK i \in DOMAIN sideLevels[s] : sideLevels[s][i] = l
                BY <3>2 DEF Range
            <4> QED BY <2>1, <4>1, ListedLevels
        <3> QED BY <3>1, <3>2
    <2>4. orderPool.free \subseteq Blocks(OrderBlocks) /\ levelPool.free \subseteq Blocks(LevelBlocks)
        BY <2>1 DEF TypeOK, IsPool
    <2> DEFINE used == UNION {Range(sideLevels[s]) : s \in Sides}
    <2> HIDE DEF used
    <2>5. levelPool.free = Blocks(LevelBlocks) \ used
        BY <2>1, <2>3, <2>4 DEF LevelPoolKnown, used
    <2>6. orderPool.free = Blocks(OrderBlocks) \ Range(oidToOrder)
        BY <2>1, <2>2, <2>4 DEF OrderPoolKnown
    <2> QED BY <2>1, <2>5, <2>6 DEF PoolsAccount, OrderPoolKnown, LevelPoolKnown, used
<1> QED BY <1>1, Invariant, PTL
=============================================================================
