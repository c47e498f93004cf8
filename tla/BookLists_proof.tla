-------------------------- MODULE BookLists_proof --------------------------
(***************************************************************************)
(* The linked lists of an order book are a price-time book, for any number *)
(* of orders and prices and wherever they are added and removed, and the   *)
(* search for a new level's place passes each level once.                  *)
(***************************************************************************)
EXTENDS BookLists, SequencesExt, SequenceTheorems, FiniteSetTheorems,
        WellFoundedInduction, TLAPS

-----------------------------------------------------------------------------
(* The inductive invariant: each side is a sequence of levels, and each    *)
(* level a sequence of orders, of which the pointers are the rings.        *)

\* The places after and before place i in a ring of n.
After(i, n)  == IF i = n THEN 1 ELSE i + 1
Before(i, n) == IF i = 1 THEN n ELSE i - 1

\* The pointers of q's elements lead round q.
Linked(q, node) ==
    \A i \in 1 .. Len(q) : /\ node[q[i]].next = q[After(i, Len(q))]
                           /\ node[q[i]].prev = q[Before(i, Len(q))]

Distinct(q) == \A i, j \in 1 .. Len(q) : q[i] = q[j] => i = j
Has(q, x)   == \E i \in 1 .. Len(q) : q[i] = x

\* Of two versions of the nodes, the second has node e linked in as element k of q,
LinkedIn(S, q, k, e, f, g) ==
    LET b == q[IF k = 1 THEN Len(q) ELSE k - 1]
        t == q[IF k = Len(q) + 1 THEN 1 ELSE k]
    IN  /\ g[e].prev = b /\ g[e].next = t /\ g[b].next = e /\ g[t].prev = e
        /\ \A x \in S : x # e /\ x # b => g[x].next = f[x].next
        /\ \A x \in S : x # e /\ x # t => g[x].prev = f[x].prev

\* or the neighbours of element k of q linked to each other.
LinkedOut(S, q, k, f, g) ==
    LET b == q[Before(k, Len(q))]
        t == q[After(k, Len(q))]
    IN  /\ g[b].next = t /\ g[t].prev = b
        /\ \A x \in S : x # q[k] /\ x # b => g[x].next = f[x].next
        /\ \A x \in S : x # q[k] /\ x # t => g[x].prev = f[x].prev

\* The levels of side s but the one whose place is looked for, better ones first.
SideShape(s, q) ==
    /\ \A p \in Prices : Has(q, p) <=> level[p].side = s /\ p # walk.new
    /\ \A i, j \in 1 .. Len(q) : i < j => Behind(s, q[j], q[i])
    /\ Linked(q, level)
    /\ best[s] = IF q = <<>> THEN Null ELSE q[1]

\* The orders at price p, which has a level if there are any.
QueueShape(p, q) ==
    /\ \A o \in Orders : Has(q, o) <=> order[o] # NoOrder /\ order[o].price = p
    /\ Distinct(q)
    /\ Linked(q, order)
    /\ level[p] = NoLevel <=> q = <<>>
    /\ q # <<>> => level[p].first = q[1]

\* The new level ranks behind the one before the target, unless it goes to the
\* front, and before the target if that is where it goes.
WalkShape(L, Q) ==
    LET s == level[walk.new].side
        q == L[s]
    IN  walk # NoWalk =>
            /\ s \in Sides
            /\ Len(Q[walk.new]) = 1
            /\ \E k \in 1 .. Len(q) :
                   /\ walk.target = q[k]
                   /\ walk.after \/ k # 1 => Behind(s, walk.new, q[Before(k, Len(q))])
                   /\ ~walk.after => ~Behind(s, walk.new, q[k])

OrdersKnowSides ==
    \A o \in Orders : order[o] # NoOrder => order[o].side = level[order[o].price].side

Shape(L, Q) ==
    /\ \A s \in Sides : SideShape(s, L[s])
    /\ \A p \in Prices : QueueShape(p, Q[p])
    /\ OrdersKnowSides
    /\ WalkShape(L, Q)

IInv ==
    /\ TypeOK
    /\ \E L \in [Sides -> Seq(Prices)], Q \in [Prices -> Seq(Orders)] : Shape(L, Q)

-----------------------------------------------------------------------------
(* Sequences and rings.                                                    *)

\* A set of numbers that is not empty has a least one.
LEMMA LeastNumber ==
    ASSUME NEW T \in SUBSET Nat, T # {}
    PROVE  \E x \in T : \A y \in T : x <= y
<1> DEFINE R == {s \in Nat \X Nat : s[1] < s[2]}
<1>1. IsWellFoundedOn(R, Nat)
    BY NatLessThanWellFounded DEF OpToRel
<1> HIDE DEF R
<1>2. PICK x \in T : \A y \in T : ~(<<y, x>> \in R)
    BY <1>1, WFMin
<1>3. ASSUME NEW y \in T PROVE x <= y
    <2>1. y \in Nat /\ x \in Nat
        OBVIOUS
    <2>2. ~(y < x)
        BY <1>2, <2>1 DEF R
    <2> QED BY <2>1, <2>2
<1> QED BY <1>3

\* A sequence from which one place was taken.
LEMMA Removal ==
    ASSUME NEW S, NEW s \in Seq(S), NEW i \in DOMAIN s
    PROVE  LET r == RemoveAt(s, i)
           IN  /\ r \in Seq(S) /\ Len(r) = Len(s) - 1 /\ DOMAIN r = 1 .. Len(s) - 1
               /\ \A k \in 1 .. Len(s) - 1 : r[k] = s[IF k < i THEN k ELSE k + 1]
<1> DEFINE n == Len(s)
           a == SubSeq(s, 1, i - 1)
           b == SubSeq(s, i + 1, n)
<1>1. n \in Nat /\ DOMAIN s = 1 .. n /\ i \in 1 .. n
    BY LenProperties
<1>2. \A k \in 1 .. n : s[k] \in S
    BY ElementOfSeq
<1> HIDE DEF n
<1>3. a \in Seq(S) /\ Len(a) = i - 1 /\ \A k \in 1 .. i - 1 : a[k] = s[k]
    BY <1>1, <1>2, SubSeqProperties DEF n
<1>4. b \in Seq(S) /\ Len(b) = n - i /\ \A k \in 1 .. n - i : b[k] = s[i + k]
    BY <1>1, <1>2, SubSeqProperties DEF n
<1> DEFINE r == a \o b
<1>5. RemoveAt(s, i) = r
    BY DEF RemoveAt, n
<1> HIDE DEF a, b
<1>6. /\ r \in Seq(S) /\ Len(r) = Len(a) + Len(b)
      /\ \A k \in 1 .. Len(a) + Len(b) : r[k] = IF k <= Len(a) THEN a[k] ELSE b[k - Len(a)]
    BY <1>3, <1>4, ConcatProperties
<1>7. DOMAIN r = 1 .. Len(r)
    BY <1>6, LenProperties
<1> HIDE DEF r
<1>8. Len(a) + Len(b) = n - 1
    BY <1>1, <1>3, <1>4
<1>9. ASSUME NEW k \in 1 .. n - 1 PROVE r[k] = s[IF k < i THEN k ELSE k + 1]
    <2>1. CASE k < i
        <3>1. k \in 1 .. i - 1 /\ k <= i - 1
            BY <1>1, <2>1
        <3> QED BY <1>3, <1>6, <1>8, <2>1, <3>1
    <2>2. CASE ~(k < i)
        <3>1. k - (i - 1) \in 1 .. n - i /\ i + (k - (i - 1)) = k + 1 /\ ~(k <= i - 1)
            BY <1>1, <2>2
        <3>2. r[k] = b[k - (i - 1)]
            BY <1>3, <1>6, <1>8, <3>1
        <3>3. b[k - (i - 1)] = s[k + 1]
            BY <1>4, <3>1
        <3> QED BY <2>2, <3>2, <3>3
    <2> QED BY <2>1, <2>2
<1> QED BY <1>5, <1>6, <1>7, <1>8, <1>9 DEF n

\* A sequence into which one element was put.
LEMMA Insertion ==
    ASSUME NEW S, NEW s \in Seq(S), NEW i \in 1 .. Len(s) + 1, NEW e \in S
    PROVE  LET r == InsertAt(s, i, e)
           IN  /\ r \in Seq(S) /\ Len(r) = Len(s) + 1 /\ DOMAIN r = 1 .. Len(s) + 1
               /\ r[i] = e
               /\ \A k \in 1 .. Len(s) : r[IF k < i THEN k ELSE k + 1] = s[k]
<1> DEFINE n == Len(s)
           a == SubSeq(s, 1, i - 1)
           c == <<e>>
           b == SubSeq(s, i, n)
<1>1. n \in Nat /\ DOMAIN s = 1 .. n /\ i \in 1 .. n + 1
    BY LenProperties
<1>2. \A k \in 1 .. n : s[k] \in S
    BY ElementOfSeq
<1> HIDE DEF n
<1>3. a \in Seq(S) /\ Len(a) = i - 1 /\ \A k \in 1 .. i - 1 : a[k] = s[k]
    BY <1>1, <1>2, SubSeqProperties DEF n
<1>4. b \in Seq(S) /\ Len(b) = n - i + 1 /\ \A k \in 1 .. n - i + 1 : b[k] = s[i + k - 1]
    BY <1>1, <1>2, SubSeqProperties DEF n
<1>5. c \in Seq(S) /\ Len(c) = 1 /\ c[1] = e
    OBVIOUS
<1> DEFINE d == a \o c
           r == d \o b
<1>6. InsertAt(s, i, e) = r
    BY DEF InsertAt, n
<1> HIDE DEF a, b, c
<1>7. /\ d \in Seq(S) /\ Len(d) = Len(a) + Len(c)
      /\ \A k \in 1 .. Len(a) + Len(c) : d[k] = IF k <= Len(a) THEN a[k] ELSE c[k - Len(a)]
    BY <1>3, <1>5, ConcatProperties
<1> HIDE DEF d
<1>8. /\ r \in Seq(S) /\ Len(r) = Len(d) + Len(b)
      /\ \A k \in 1 .. Len(d) + Len(b) : r[k] = IF k <= Len(d) THEN d[k] ELSE b[k - Len(d)]
    <2>1. d \in Seq(S) /\ b \in Seq(S)
        BY <1>4, <1>7
    <2> QED BY <2>1, ConcatProperties
<1>9. DOMAIN r = 1 .. Len(r)
    BY <1>8, LenProperties
<1> HIDE DEF r
<1>10. Len(a) = i - 1 /\ Len(c) = 1 /\ Len(d) = i /\ Len(d) + Len(b) = n + 1
    BY <1>1, <1>3, <1>4, <1>5, <1>7
<1>11. r[i] = e
    <2>1. i \in 1 .. i /\ ~(i <= i - 1) /\ i - (i - 1) = 1 /\ i \in 1 .. n + 1 /\ i <= i
          /\ (i - 1) + 1 = i
        BY <1>1
    <2>2. d[i] = c[1]
        BY <1>7, <1>10, <2>1
    <2> QED BY <1>5, <1>8, <1>10, <2>1, <2>2
<1>12. ASSUME NEW k \in 1 .. n PROVE r[IF k < i THEN k ELSE k + 1] = s[k]
    <2>1. CASE k < i
        <3>1. k \in 1 .. n + 1 /\ k \in 1 .. i - 1 /\ k <= i /\ k <= i - 1 /\ k \in 1 .. (i - 1) + 1
            BY <1>1, <2>1
        <3>2. r[k] = d[k] /\ d[k] = a[k]
            BY <1>7, <1>8, <1>10, <3>1
        <3> QED BY <1>3, <2>1, <3>1, <3>2
    <2>2. CASE ~(k < i)
        <3>1. /\ k + 1 \in 1 .. n + 1 /\ ~(k + 1 <= i)
              /\ (k + 1) - i \in 1 .. n - i + 1 /\ i + ((k + 1) - i) - 1 = k
            BY <1>1, <2>2
        <3>2. r[k + 1] = b[(k + 1) - i]
            BY <1>8, <1>10, <3>1
        <3>3. b[(k + 1) - i] = s[k]
            BY <1>4, <3>1
        <3> QED BY <2>2, <3>2, <3>3
    <2> QED BY <2>1, <2>2
<1> QED BY <1>6, <1>8, <1>9, <1>10, <1>11, <1>12 DEF n

\* The same, place by place.
PutAt(S, s, i, e, r) ==
    /\ r \in Seq(S) /\ Len(r) = Len(s) + 1
    /\ \A k \in 1 .. Len(s) + 1 :
           r[k] = IF k < i THEN s[k] ELSE IF k = i THEN e ELSE s[k - 1]

\* InsertAt puts the element there.
LEMMA InsertionAt ==
    ASSUME NEW S, NEW s \in Seq(S), NEW i \in 1 .. Len(s) + 1, NEW e \in S
    PROVE  PutAt(S, s, i, e, InsertAt(s, i, e))
<1> DEFINE r == InsertAt(s, i, e)
           n == Len(s)
<1>1. n \in Nat /\ i \in 1 .. n + 1
    BY LenProperties
<1>2. /\ r \in Seq(S) /\ Len(r) = n + 1 /\ r[i] = e
      /\ \A k \in 1 .. n : r[IF k < i THEN k ELSE k + 1] = s[k]
    BY Insertion
<1> HIDE DEF r, n
<1>3. ASSUME NEW k \in 1 .. n + 1
      PROVE  r[k] = IF k < i THEN s[k] ELSE IF k = i THEN e ELSE s[k - 1]
    <2>1. CASE k < i
        <3>1. k \in 1 .. n
            BY <1>1, <2>1
        <3> QED BY <1>2, <2>1, <3>1
    <2>2. CASE k = i
        BY <1>1, <1>2, <2>2
    <2>3. CASE k > i
        <3>1. k - 1 \in 1 .. n /\ ~(k - 1 < i) /\ (k - 1) + 1 = k /\ ~(k < i) /\ k # i
            BY <1>1, <2>3
        <3> QED BY <1>2, <3>1
    <2> QED BY <1>1, <2>1, <2>2, <2>3
<1> QED BY <1>2, <1>3 DEF r, n, PutAt

\* Linking a node in between two neighbours of a ring.
LEMMA LinkedInsert ==
    ASSUME NEW S, NEW q \in Seq(S), q # <<>>, Distinct(q),
           NEW k \in 1 .. Len(q) + 1, NEW e \in S, ~Has(q, e),
           NEW f, NEW g, Linked(q, f), LinkedIn(S, q, k, e, f, g)
    PROVE  Linked(InsertAt(q, k, e), g) /\ Distinct(InsertAt(q, k, e))
<1> DEFINE r == InsertAt(q, k, e)
           n == Len(q)
<1>1. n \in Nat \ {0} /\ DOMAIN q = 1 .. n /\ k \in 1 .. n + 1
    BY LenProperties, EmptySeq
<1>2. \A i \in 1 .. n : q[i] \in S
    BY <1>1, ElementOfSeq
<1>3. /\ r \in Seq(S) /\ Len(r) = n + 1
      /\ \A i \in 1 .. n + 1 :
             r[i] = IF i < k THEN q[i] ELSE IF i = k THEN e ELSE q[i - 1]
    <2>1. PutAt(S, q, k, e, r)
        BY InsertionAt
    <2> HIDE DEF r
    <2> QED BY <2>1 DEF PutAt
<1>4. /\ \A i, j \in 1 .. n : q[i] = q[j] => i = j
      /\ \A i \in 1 .. n : q[i] # e
      /\ \A i \in 1 .. n : /\ f[q[i]].next = q[After(i, n)]
                           /\ f[q[i]].prev = q[Before(i, n)]
    BY DEF Distinct, Has, Linked
<1> DEFINE b == q[IF k = 1 THEN n ELSE k - 1]
           t == q[IF k = n + 1 THEN 1 ELSE k]
<1>5. /\ g[e].prev = b /\ g[e].next = t /\ g[b].next = e /\ g[t].prev = e
      /\ \A x \in S : x # e /\ x # b => g[x].next = f[x].next
      /\ \A x \in S : x # e /\ x # t => g[x].prev = f[x].prev
    BY DEF LinkedIn
<1> HIDE DEF r, n
<1>6. ASSUME NEW i \in 1 .. n + 1 PROVE g[r[i]].next = r[After(i, n + 1)]
    <2>1. CASE i = k
        BY <1>1, <1>5, <1>3, <2>1 DEF After
    <2>2. CASE r[i] = b /\ i # k
        <3>1. i = IF k = 1 THEN n + 1 ELSE k - 1
            BY <1>1, <1>4, <1>5, <1>3, <2>2
        <3>2. After(i, n + 1) = k
            BY <1>1, <3>1 DEF After
        <3> QED BY <1>1, <1>3, <1>5, <2>2, <3>2
    <2>3. CASE r[i] # b /\ i # k
        <3>1. PICK j \in 1 .. n : r[i] = q[j] /\ i = IF j < k THEN j ELSE j + 1
            BY <1>1, <1>3, <2>3
        <3>2. g[r[i]].next = q[After(j, n)]
            BY <1>2, <1>4, <1>5, <2>3, <3>1
        <3>3. j # IF k = 1 THEN n ELSE k - 1
            BY <1>5, <2>3, <3>1
        <3>4. /\ After(j, n) \in 1 .. n
              /\ After(i, n + 1) = IF After(j, n) < k THEN After(j, n) ELSE After(j, n) + 1
            BY <1>1, <3>1, <3>3 DEF After
        <3>5. r[After(i, n + 1)] = q[After(j, n)]
            BY <1>1, <1>3, <3>4
        <3> QED BY <3>2, <3>5
    <2> QED BY <2>1, <2>2, <2>3
<1>7. ASSUME NEW i \in 1 .. n + 1 PROVE g[r[i]].prev = r[Before(i, n + 1)]
    <2>1. CASE i = k
        BY <1>1, <1>5, <1>3, <2>1 DEF Before
    <2>2. CASE r[i] = t /\ i # k
        <3>1. i = IF k = n + 1 THEN 1 ELSE k + 1
            BY <1>1, <1>4, <1>5, <1>3, <2>2
        <3>2. Before(i, n + 1) = k
            BY <1>1, <3>1 DEF Before
        <3> QED BY <1>1, <1>3, <1>5, <2>2, <3>2
    <2>3. CASE r[i] # t /\ i # k
        <3>1. PICK j \in 1 .. n : r[i] = q[j] /\ i = IF j < k THEN j ELSE j + 1
            BY <1>1, <1>3, <2>3
        <3>2. g[r[i]].prev = q[Before(j, n)]
            BY <1>2, <1>4, <1>5, <2>3, <3>1
        <3>3. j # IF k = n + 1 THEN 1 ELSE k
            BY <1>5, <2>3, <3>1
        <3>4. /\ Before(j, n) \in 1 .. n
              /\ Before(i, n + 1) = IF Before(j, n) < k THEN Before(j, n) ELSE Before(j, n) + 1
            BY <1>1, <3>1, <3>3 DEF Before
        <3>5. r[Before(i, n + 1)] = q[Before(j, n)]
            BY <1>1, <1>3, <3>4
        <3> QED BY <3>2, <3>5
    <2> QED BY <2>1, <2>2, <2>3
<1>8. \A i, j \in 1 .. n + 1 : r[i] = r[j] => i = j
    BY <1>1, <1>4, <1>3
<1> QED BY <1>3, <1>6, <1>7, <1>8 DEF r, Linked, Distinct

\* Taking a node out from between its neighbours.
LEMMA LinkedRemove ==
    ASSUME NEW S, NEW q \in Seq(S), Distinct(q), NEW k \in 1 .. Len(q), Len(q) # 1,
           NEW f, NEW g, Linked(q, f), LinkedOut(S, q, k, f, g)
    PROVE  Linked(RemoveAt(q, k), g) /\ Distinct(RemoveAt(q, k))
<1> DEFINE r == RemoveAt(q, k)
           n == Len(q)
<1>1. n \in Nat /\ DOMAIN q = 1 .. n /\ k \in 1 .. n /\ n >= 2
    <2>1. n \in Nat /\ DOMAIN q = 1 .. n
        BY LenProperties
    <2> QED BY <2>1
<1>2. \A i \in 1 .. n : q[i] \in S
    BY <1>1, ElementOfSeq
<1>3. /\ r \in Seq(S) /\ Len(r) = n - 1
      /\ \A i \in 1 .. n - 1 : r[i] = q[IF i < k THEN i ELSE i + 1]
    BY <1>1, Removal
<1>4. /\ \A i, j \in 1 .. n : q[i] = q[j] => i = j
      /\ \A i \in 1 .. n : /\ f[q[i]].next = q[After(i, n)]
                           /\ f[q[i]].prev = q[Before(i, n)]
    BY DEF Distinct, Linked
<1> DEFINE b == q[Before(k, n)]
           t == q[After(k, n)]
<1>5. /\ g[b].next = t /\ g[t].prev = b
      /\ \A x \in S : x # q[k] /\ x # b => g[x].next = f[x].next
      /\ \A x \in S : x # q[k] /\ x # t => g[x].prev = f[x].prev
    BY DEF LinkedOut
<1> HIDE DEF r, n
<1>6. ASSUME NEW i \in 1 .. n - 1 PROVE g[r[i]].next = r[After(i, n - 1)]
    <2> DEFINE j == IF i < k THEN i ELSE i + 1
    <2>1. j \in 1 .. n /\ r[i] = q[j] /\ j # k
        BY <1>1, <1>3
    <2>2. CASE j = Before(k, n)
        BY <1>1, <1>3, <1>5, <2>1, <2>2 DEF After, Before
    <2>3. CASE j # Before(k, n)
        <3>1. Before(k, n) \in 1 .. n
            BY <1>1 DEF Before
        <3>2. r[i] # b /\ r[i] # q[k] /\ r[i] \in S
            BY <1>1, <1>2, <1>4, <1>5, <2>1, <2>3, <3>1
        <3>3. g[r[i]].next = q[After(j, n)]
            BY <1>4, <1>5, <2>1, <3>2
        <3>4. r[After(i, n - 1)] = q[After(j, n)]
            BY <1>1, <1>3, <2>3 DEF After, Before
        <3> QED BY <3>3, <3>4
    <2> QED BY <2>2, <2>3
<1>7. ASSUME NEW i \in 1 .. n - 1 PROVE g[r[i]].prev = r[Before(i, n - 1)]
    <2> DEFINE j == IF i < k THEN i ELSE i + 1
    <2>1. j \in 1 .. n /\ r[i] = q[j] /\ j # k
        BY <1>1, <1>3
    <2>2. CASE j = After(k, n)
        BY <1>1, <1>3, <1>5, <2>1, <2>2 DEF After, Before
    <2>3. CASE j # After(k, n)
        <3>1. After(k, n) \in 1 .. n
            BY <1>1 DEF After
        <3>2. r[i] # t /\ r[i] # q[k] /\ r[i] \in S
            BY <1>1, <1>2, <1>4, <1>5, <2>1, <2>3, <3>1
        <3>3. g[r[i]].prev = q[Before(j, n)]
            BY <1>4, <1>5, <2>1, <3>2
        <3>4. r[Before(i, n - 1)] = q[Before(j, n)]
            BY <1>1, <1>3, <2>3 DEF After, Before
        <3> QED BY <3>3, <3>4
    <2> QED BY <2>2, <2>3
<1>8. \A i, j \in 1 .. n - 1 : r[i] = r[j] => i = j
    BY <1>1, <1>3, <1>4
<1> QED BY <1>3, <1>6, <1>7, <1>8 DEF r, Linked, Distinct

-----------------------------------------------------------------------------
(* What a sequence has after an element came or went.                      *)

\* r is q with e put in as element k,
Inserted(S, q, k, e, r) ==
    /\ r \in Seq(S) /\ r # <<>> /\ Len(r) = Len(q) + 1
    /\ \A i \in 1 .. Len(q) + 1 :
           r[i] = IF i < k THEN q[i] ELSE IF i = k THEN e ELSE q[i - 1]
    /\ \A x : Has(r, x) <=> Has(q, x) \/ x = e
    /\ r[1] = IF k = 1 THEN e ELSE q[1]

\* or without its element k.
Removed(S, q, k, r) ==
    /\ r \in Seq(S) /\ Len(r) = Len(q) - 1
    /\ r = <<>> <=> Len(q) = 1
    /\ \A i \in 1 .. Len(q) - 1 : r[i] = q[IF i < k THEN i ELSE i + 1]
    /\ \A x : Has(r, x) <=> Has(q, x) /\ x # q[k]
    /\ Len(q) # 1 => r[1] = IF k = 1 THEN q[2] ELSE q[1]

LEMMA HasInsert ==
    ASSUME NEW S, NEW q \in Seq(S), NEW k \in 1 .. Len(q) + 1, NEW e \in S
    PROVE  Inserted(S, q, k, e, InsertAt(q, k, e))
<1> DEFINE r == InsertAt(q, k, e)
           n == Len(q)
<1>1. n \in Nat /\ k \in 1 .. n + 1
    BY LenProperties
<1>2. /\ r \in Seq(S) /\ Len(r) = n + 1
      /\ \A i \in 1 .. n + 1 :
             r[i] = IF i < k THEN q[i] ELSE IF i = k THEN e ELSE q[i - 1]
    <2>1. PutAt(S, q, k, e, r)
        BY InsertionAt
    <2> HIDE DEF r
    <2> QED BY <2>1 DEF PutAt
<1>3. r[k] = e /\ \A i \in 1 .. n : r[IF i < k THEN i ELSE i + 1] = q[i]
    BY Insertion
<1> HIDE DEF r, n
<1>4. ASSUME NEW x, Has(r, x) PROVE Has(q, x) \/ x = e
    <2>1. PICK i \in 1 .. n + 1 : r[i] = x
        BY <1>2, <1>4 DEF Has
    <2>2. CASE i = k
        BY <1>3, <2>1, <2>2
    <2>3. CASE i # k
        <3>1. PICK j \in 1 .. n : x = q[j]
            BY <1>1, <1>2, <2>1, <2>3
        <3> QED BY <3>1 DEF Has, n
    <2> QED BY <2>2, <2>3
<1>5. ASSUME NEW x, Has(q, x) \/ x = e PROVE Has(r, x)
    <2>1. CASE x = e
        BY <1>1, <1>2, <1>3, <2>1 DEF Has
    <2>2. CASE Has(q, x)
        <3>1. PICK i \in 1 .. n : q[i] = x
            BY <2>2 DEF Has, n
        <3>2. (IF i < k THEN i ELSE i + 1) \in 1 .. n + 1
            BY <1>1
        <3> QED BY <1>2, <1>3, <3>1, <3>2 DEF Has
    <2> QED BY <1>5, <2>1, <2>2
<1>6. r # <<>>
    BY <1>1, <1>2, EmptySeq
<1>7. r[1] = IF k = 1 THEN e ELSE q[1]
    BY <1>1, <1>2
<1> QED BY <1>2, <1>4, <1>5, <1>6, <1>7 DEF r, n, Inserted

LEMMA HasRemove ==
    ASSUME NEW S, NEW q \in Seq(S), NEW k \in 1 .. Len(q), Distinct(q)
    PROVE  Removed(S, q, k, RemoveAt(q, k))
<1> DEFINE r == RemoveAt(q, k)
           n == Len(q)
<1>1. n \in Nat /\ DOMAIN q = 1 .. n
    BY LenProperties
<1>2. /\ r \in Seq(S) /\ Len(r) = n - 1
      /\ \A i \in 1 .. n - 1 : r[i] = q[IF i < k THEN i ELSE i + 1]
    BY <1>1, Removal
<1>3. \A i, j \in 1 .. n : q[i] = q[j] => i = j
    BY DEF Distinct
<1>4. k \in 1 .. n
    OBVIOUS
<1> HIDE DEF r, n
<1>5. ASSUME NEW x, Has(r, x) PROVE Has(q, x) /\ x # q[k]
    <2>1. PICK i \in 1 .. n - 1 : r[i] = x
        BY <1>2, <1>5 DEF Has
    <2>2. PICK j \in 1 .. n : x = q[j] /\ j # k
        BY <1>1, <1>2, <1>4, <2>1
    <2> QED BY <1>3, <1>4, <2>2 DEF Has, n
<1>6. ASSUME NEW x, Has(q, x), x # q[k] PROVE Has(r, x)
    <2>1. PICK j \in 1 .. n : q[j] = x
        BY <1>6 DEF Has, n
    <2>2. PICK i \in 1 .. n - 1 : j = IF i < k THEN i ELSE i + 1
        <3>1. CASE j < k
            <4>1. j \in 1 .. n - 1
                BY <1>1, <1>4, <3>1
            <4> QED BY <3>1, <4>1
        <3>2. CASE j > k
            <4>1. j - 1 \in 1 .. n - 1 /\ ~(j - 1 < k) /\ j = (j - 1) + 1
                BY <1>1, <1>4, <3>2
            <4> QED BY <4>1
        <3> QED BY <1>1, <1>4, <1>6, <2>1, <3>1, <3>2
    <2> QED BY <1>2, <2>1, <2>2 DEF Has
<1>7. r = <<>> <=> n = 1
    BY <1>1, <1>2, EmptySeq
<1>8. n # 1 => r[1] = IF k = 1 THEN q[2] ELSE q[1]
    BY <1>1, <1>2, <1>4
<1> QED BY <1>2, <1>5, <1>6, <1>7, <1>8 DEF r, n, Removed

\* Behind the last element is a place as well.
LEMMA AppendIsInsert ==
    ASSUME NEW S, NEW q \in Seq(S), NEW e \in S
    PROVE  \E k \in 1 .. Len(q) + 1 : k = Len(q) + 1 /\ Append(q, e) = InsertAt(q, k, e)
<1>1. Len(q) \in Nat
    BY LenProperties
<1>2. PICK k \in 1 .. Len(q) + 1 : k = Len(q) + 1
    BY <1>1
<1> DEFINE r == InsertAt(q, k, e)
           a == Append(q, e)
<1>3. /\ r \in Seq(S) /\ Len(r) = Len(q) + 1
      /\ \A i \in 1 .. Len(q) + 1 :
             r[i] = IF i < k THEN q[i] ELSE IF i = k THEN e ELSE q[i - 1]
    <2>1. PutAt(S, q, k, e, r)
        BY <1>2, InsertionAt
    <2> HIDE DEF r
    <2> QED BY <2>1 DEF PutAt
<1>4. /\ a \in Seq(S) /\ Len(a) = Len(q) + 1
      /\ \A i \in 1 .. Len(q) : a[i] = q[i]
      /\ a[k] = e
    BY <1>2, AppendProperties
<1> HIDE DEF r, a
<1>5. \A i \in 1 .. Len(q) + 1 : a[i] = r[i]
    BY <1>1, <1>2, <1>3, <1>4
<1>6. a = r
    BY <1>3, <1>4, <1>5, SeqEqual
<1> QED BY <1>2, <1>6 DEF r, a

\* Nodes that are not on the ring are left alone.
Untouched(S, q, e, f, g) ==
    \A x \in S : x # e /\ ~Has(q, x) => g[x].next = f[x].next /\ g[x].prev = f[x].prev

LEMMA LinkedInOthers ==
    ASSUME NEW S, NEW q \in Seq(S), q # <<>>, NEW k \in 1 .. Len(q) + 1, NEW e,
           NEW f, NEW g, LinkedIn(S, q, k, e, f, g)
    PROVE  Untouched(S, q, e, f, g)
<1>1. Len(q) \in Nat \ {0}
    BY LenProperties, EmptySeq
<1>2. /\ (IF k = 1 THEN Len(q) ELSE k - 1) \in 1 .. Len(q)
      /\ (IF k = Len(q) + 1 THEN 1 ELSE k) \in 1 .. Len(q)
    BY <1>1
<1>3. ASSUME NEW x \in S, x # e, ~Has(q, x)
      PROVE  g[x].next = f[x].next /\ g[x].prev = f[x].prev
    <2> DEFINE b == q[IF k = 1 THEN Len(q) ELSE k - 1]
               t == q[IF k = Len(q) + 1 THEN 1 ELSE k]
    <2>1. x # b /\ x # t
        BY <1>2, <1>3 DEF Has
    <2> QED BY <1>3, <2>1 DEF LinkedIn
<1> QED BY <1>3 DEF Untouched

LEMMA LinkedOutOthers ==
    ASSUME NEW S, NEW q \in Seq(S), NEW k \in 1 .. Len(q),
           NEW f, NEW g, LinkedOut(S, q, k, f, g)
    PROVE  Untouched(S, q, q[k], f, g)
<1>1. Len(q) \in Nat
    BY LenProperties
<1>2. Before(k, Len(q)) \in 1 .. Len(q) /\ After(k, Len(q)) \in 1 .. Len(q)
    BY <1>1 DEF Before, After
<1>3. ASSUME NEW x \in S, ~Has(q, x)
      PROVE  g[x].next = f[x].next /\ g[x].prev = f[x].prev
    <2> DEFINE b == q[Before(k, Len(q))]
               t == q[After(k, Len(q))]
    <2>1. x # b /\ x # t /\ x # q[k]
        BY <1>2, <1>3 DEF Has
    <2> QED BY <1>3, <2>1 DEF LinkedOut
<1> QED BY <1>3 DEF Untouched

-----------------------------------------------------------------------------
(* What is met on a ring, when it is followed, is the ring.                *)

\* Going round: the place i steps on.
Place(i, n) == ((i - 1) % n) + 1

LEMMA ModIs ==
    ASSUME NEW n \in Nat \ {0}, NEW d \in Nat, NEW m \in 0 .. n - 1
    PROVE  (n * d + m) % n = m
BY SMTT(30)

LEMMA DivIs ==
    ASSUME NEW n \in Nat \ {0}, NEW a \in Nat
    PROVE  a = n * (a \div n) + (a % n) /\ a % n \in 0 .. n - 1 /\ a \div n \in Nat
BY SMTT(30)

LEMMA PlaceFacts ==
    ASSUME NEW n \in Nat \ {0}, NEW i \in Nat \ {0}
    PROVE  /\ Place(i, n) \in 1 .. n
           /\ i <= n => Place(i, n) = i
           /\ i = n + 1 => Place(i, n) = 1
           /\ Place(i + 1, n) = After(Place(i, n), n)
<1>1. PICK a \in Nat : i = a + 1 /\ a = i - 1 /\ (i + 1) - 1 = a + 1
    BY SMT
<1>2. PICK d \in Nat, m \in 0 .. n - 1 : a = n * d + m /\ a % n = m
    BY <1>1, DivIs
<1>3. Place(i, n) = m + 1 /\ Place(i + 1, n) = ((a + 1) % n) + 1
    BY <1>1, <1>2 DEF Place
<1>4. ASSUME m = n - 1 PROVE Place(i + 1, n) = After(Place(i, n), n)
    <2>1. a + 1 = n * (d + 1) + 0 /\ d + 1 \in Nat /\ 0 \in 0 .. n - 1
        <3>1. n * (d + 1) = n * d + n
            <4>1. \A x, y \in Int : x * (y + 1) = x * y + x
                OBVIOUS
            <4>2. n \in Int /\ d \in Int
                BY <1>2
            <4> QED BY <4>1, <4>2, Zenon
        <3>2. n * d \in Nat /\ d + 1 \in Nat /\ 0 \in 0 .. n - 1
            BY <1>2
        <3> DEFINE c == n * d
                   e == n * (d + 1)
        <3>3. a = c + m /\ e = c + n /\ c \in Nat
            BY <1>2, <3>1, <3>2
        <3> HIDE DEF c, e
        <3>4. a + 1 = e + 0
            BY <1>1, <1>2, <1>4, <3>3
        <3> QED BY <3>2, <3>4 DEF e
    <2>2. (a + 1) % n = 0
        BY <2>1, ModIs
    <2> QED BY <1>3, <1>4, <2>2 DEF After
<1>5. ASSUME m # n - 1 PROVE Place(i + 1, n) = After(Place(i, n), n)
    <2>1. a + 1 = n * d + (m + 1) /\ m + 1 \in 0 .. n - 1
        <3> DEFINE c == n * d
        <3>1. c \in Nat /\ a = c + m
            BY <1>2
        <3> HIDE DEF c
        <3>2. a + 1 = c + (m + 1) /\ m + 1 \in 0 .. n - 1
            BY <1>2, <1>5, <3>1
        <3> QED BY <3>2 DEF c
    <2>2. (a + 1) % n = m + 1
        <3>1. (n * d + (m + 1)) % n = m + 1
            BY <1>2, <2>1, ModIs
        <3> QED BY <2>1, <3>1, Zenon
    <2> QED BY <1>3, <1>5, <2>2 DEF After
<1>6. Place(i + 1, n) = After(Place(i, n), n)
    BY <1>4, <1>5
<1>7. i <= n => Place(i, n) = i
    <2>1. i <= n => i - 1 = n * 0 + (i - 1) /\ i - 1 \in 0 .. n - 1
        BY SMT
    <2>2. i <= n => (i - 1) % n = i - 1
        BY <2>1, ModIs
    <2> QED BY <2>2 DEF Place
<1>8. i = n + 1 => Place(i, n) = 1
    <2>1. i = n + 1 => i - 1 = n * 1 + 0 /\ 0 \in 0 .. n - 1
        BY SMT
    <2>2. i = n + 1 => (i - 1) % n = 0
        BY <2>1, ModIs
    <2> QED BY <2>2 DEF Place
<1>9. Place(i, n) \in 1 .. n
    BY <1>3
<1> QED BY <1>6, <1>7, <1>8, <1>9

\* No more different things than there are.
LEMMA DistinctIsShort ==
    ASSUME NEW S, IsFiniteSet(S), NEW x, x \notin S, NEW q \in Seq(S), Distinct(q)
    PROVE  Cardinality(S \cup {x}) \in Nat /\ Len(q) + 1 <= Cardinality(S \cup {x})
<1> DEFINE n == Len(q)
           r == [i \in 1 .. n + 1 |-> IF i = n + 1 THEN x ELSE q[i]]
           T == S \cup {x}
<1>1. n \in Nat /\ \A i \in 1 .. n : q[i] \in S
    BY LenProperties, ElementOfSeq
<1>2. \A i, j \in 1 .. n : q[i] = q[j] => i = j
    BY DEF Distinct
<1>3. IsFiniteSet(T) /\ Cardinality(T) \in Nat
    BY FS_AddElement, FS_CardinalityType
<1> HIDE DEF n
<1>4. r \in [1 .. n + 1 -> T]
    BY <1>1
<1>5. \A i, j \in 1 .. n + 1 : r[i] = r[j] => i = j
    BY <1>1, <1>2
<1> HIDE DEF r, T
<1>6. r \in Injection(1 .. n + 1, T)
    BY <1>4, <1>5 DEF Injection, IsInjective
<1>7. Cardinality(1 .. n + 1) <= Cardinality(T)
    BY <1>3, <1>6, FS_Injection
<1>8. Cardinality(1 .. n + 1) = n + 1
    <2>1. 1 \in Int /\ n + 1 \in Int /\ ~(1 > n + 1) /\ (n + 1) - 1 + 1 = n + 1
        BY <1>1
    <2> QED BY <2>1, FS_Interval
<1> QED BY <1>3, <1>7, <1>8 DEF T, n

\* The places of a ring that are met before it comes round are all of them, once.
LEMMA RingIs ==
    ASSUME NEW S, IsFiniteSet(S), Null \notin S, NEW q \in Seq(S), Distinct(q),
           NEW next, DOMAIN next = S \cup {Null}, next[Null] = Null,
           \A i \in 1 .. Len(q) : next[q[i]] = q[After(i, Len(q))],
           NEW start, start = IF q = <<>> THEN Null ELSE q[1]
    PROVE  Ring(start, next) = q
<1> DEFINE N == Cardinality(S \cup {Null})
           n == Len(q)
           Step(f) == [i \in 1 .. N |-> IF i = 1 THEN start ELSE next[f[i - 1]]]
           node == CHOOSE f : f = Step(f)
           met == {i \in DOMAIN node : /\ start # Null
                                       /\ \A j \in 2 .. i : node[j] \notin {start, Null}}
<1>1. /\ n \in Nat /\ DOMAIN q = 1 .. n /\ q = [i \in 1 .. n |-> q[i]]
      /\ n = 0 <=> q = <<>>
      /\ \A i \in 1 .. n : q[i] \in S
    BY LenProperties, ElementOfSeq, EmptySeq
<1>2. N \in Nat /\ n + 1 <= N
    BY DistinctIsShort
<1>3. Ring(start, next) = [i \in met |-> node[i]]
    BY SMT DEF Ring
<1>4. \A i \in 1 .. n : next[q[i]] = q[After(i, n)]
    OBVIOUS
<1>5. \A i, j \in 1 .. n : q[i] = q[j] => i = j
    BY DEF Distinct
<1> HIDE DEF N, n
<1>6. \E f : f = Step(f)
    <2>1. CASE n = 0
        <3> DEFINE g == [i \in 1 .. N |-> Null]
        <3>1. g = Step(g)
            <4>1. ASSUME NEW i \in 1 .. N PROVE g[i] = Step(g)[i]
                <5>1. i # 1 => i - 1 \in 1 .. N
                    BY <1>2
                <5> QED BY <1>1, <2>1, <5>1
            <4> QED BY <4>1
        <3> QED BY <3>1
    <2>2. CASE n # 0
        <3> DEFINE g == [i \in 1 .. N |-> q[Place(i, n)]]
        <3>1. ASSUME NEW i \in 1 .. N PROVE g[i] = Step(g)[i]
            <4>1. CASE i = 1
                <5>1. Place(i, n) = 1
                    BY <1>1, <2>2, <4>1, PlaceFacts
                <5> QED BY <1>1, <2>2, <4>1, <5>1
            <4>2. CASE i # 1
                <5>1. PICK j \in 1 .. N : i = j + 1 /\ i - 1 = j
                    BY <1>2, <4>2
                <5>2. Place(j, n) \in 1 .. n /\ Place(i, n) = After(Place(j, n), n)
                    <6>1. n \in Nat \ {0} /\ j \in Nat \ {0}
                        BY <1>1, <1>2, <2>2
                    <6>2. Place(j, n) \in 1 .. n /\ Place(j + 1, n) = After(Place(j, n), n)
                        BY <6>1, PlaceFacts
                    <6> QED BY <5>1, <6>2
                <5>3. g[j] = q[Place(j, n)] /\ g[i] = q[Place(i, n)]
                    BY <5>1
                <5> HIDE DEF g
                <5>4. next[g[j]] = g[i]
                    BY <1>4, <5>2, <5>3
                <5> QED BY <4>2, <5>1, <5>4
            <4> QED BY <4>1, <4>2
        <3>2. g = Step(g)
            BY <3>1
        <3> QED BY <3>2
    <2> QED BY <2>1, <2>2
<1>7. node = Step(node)
    BY <1>6
<1> HIDE DEF node
<1>8. /\ DOMAIN node = 1 .. N
      /\ node[1] = start
      /\ \A i \in 1 .. N : i # 1 => node[i] = next[node[i - 1]]
    <2>1. DOMAIN node = DOMAIN Step(node) /\ \A i \in 1 .. N : node[i] = Step(node)[i]
        BY <1>7, Zenon
    <2>2. 1 \in 1 .. N
        BY <1>1, <1>2
    <2> QED BY <2>1, <2>2, Zenon
<1>9. ASSUME n # 0 PROVE \A i \in 1 .. n : node[i] = q[i]
    <2> SUFFICES ASSUME \E i \in 1 .. n : node[i] # q[i] PROVE FALSE
        OBVIOUS
    <2> DEFINE T == {i \in 1 .. n : node[i] # q[i]}
    <2>1. T \in SUBSET Nat /\ T # {}
        OBVIOUS
    <2>2. PICK i \in T : \A j \in T : i <= j
        BY <2>1, LeastNumber
    <2>3. i \in 1 .. n /\ node[i] # q[i]
        OBVIOUS
    <2>4. i # 1
        BY <1>1, <1>8, <1>9, <2>3
    <2>5. PICK j \in 1 .. n : i = j + 1 /\ i - 1 = j
        BY <1>1, <2>3, <2>4
    <2>6. node[j] = q[j]
        BY <1>1, <2>2, <2>5
    <2>7. After(j, n) = i
        BY <1>1, <2>3, <2>5 DEF After
    <2>8. i \in 1 .. N
        BY <1>1, <1>2, <2>3
    <2> QED BY <1>4, <1>8, <2>3, <2>4, <2>5, <2>6, <2>7, <2>8
<1>10. met = 1 .. n
    <2>1. CASE n = 0
        BY <1>1, <2>1
    <2>2. CASE n # 0
        <3>1. start = q[1] /\ 1 \in 1 .. n
            BY <1>1, <2>2
        <3>2. ASSUME NEW i \in 1 .. n PROVE i \in met
            <4>1. i \in 1 .. N
                BY <1>1, <1>2
            <4>2. ASSUME NEW j \in 2 .. i PROVE node[j] \notin {start, Null}
                <5>1. j \in 1 .. n /\ j # 1
                    BY <1>1
                <5> QED BY <1>1, <1>5, <1>9, <2>2, <3>1, <5>1
            <4> QED BY <1>1, <1>8, <3>1, <4>1, <4>2
        <3>3. ASSUME NEW i \in met, i \notin 1 .. n PROVE FALSE
            <4>1. i \in 1 .. N /\ \A j \in 2 .. i : node[j] # start
                BY <1>8
            <4>2. n + 1 \in 2 .. i /\ n + 1 \in 1 .. N /\ n \in 1 .. n /\ n + 1 # 1
                  /\ (n + 1) - 1 = n
                BY <1>1, <1>2, <2>2, <3>3, <4>1
            <4>3. node[n + 1] = next[node[n]]
                BY <1>8, <4>2
            <4>4. node[n + 1] = q[1]
                BY <1>4, <1>9, <2>2, <4>2, <4>3 DEF After
            <4> QED BY <3>1, <4>1, <4>2, <4>4
        <3>4. met \subseteq 1 .. n
            BY <3>3
        <3> QED BY <3>2, <3>4
    <2> QED BY <2>1, <2>2
<1> HIDE DEF met
<1>11. [i \in 1 .. n |-> node[i]] = [i \in 1 .. n |-> q[i]]
    <2>1. CASE n = 0
        BY <2>1
    <2>2. CASE n # 0
        BY <1>9, <2>2
    <2> QED BY <2>1, <2>2
<1> QED BY <1>1, <1>3, <1>10, <1>11

-----------------------------------------------------------------------------
(* One assignment to a pointer.                                            *)

LevelRec == [side : Sides, first : Orders, prev : Prices \cup {Null},
             next : Prices \cup {Null}]
OrderRec == [side : Sides, price : Prices, prev : Orders, next : Orders]

Levels == [Prices -> LevelRec \cup {NoLevel}]
Blocks == [Orders -> OrderRec \cup {NoOrder}]

LEMMA Records ==
    /\ NoLevel \notin LevelRec /\ NoOrder \notin OrderRec
    /\ NoLevel.side \notin Sides /\ NoOrder.side \notin Sides
BY DEF LevelRec, OrderRec, NoLevel, NoOrder, Sides

\* From f to g, node x got a new pointer and nothing else changed.
NextSet(S, f, x, v, g) ==
    \A y \in S : /\ g[y].next = IF y = x THEN v ELSE f[y].next
                 /\ g[y].prev = f[y].prev
PrevSet(S, f, x, v, g) ==
    \A y \in S : /\ g[y].prev = IF y = x THEN v ELSE f[y].prev
                 /\ g[y].next = f[y].next

\* What is in use, and where else it belongs, is as it was.
SameLevel(a, b) == a.side = b.side /\ a.first = b.first /\ (a = NoLevel <=> b = NoLevel)
SameOrder(a, b) == a.side = b.side /\ a.price = b.price /\ (a = NoOrder <=> b = NoOrder)

SameLevels(f, g) == \A y \in Prices : SameLevel(g[y], f[y])
SameOrders(f, g) == \A y \in Orders : SameOrder(g[y], f[y])

LEMMA SetLevelNext ==
    ASSUME NEW f \in Levels, NEW x \in Prices, f[x] # NoLevel,
           NEW v \in Prices \cup {Null}, NEW g, g = [f EXCEPT ![x].next = v]
    PROVE  /\ g \in Levels
           /\ SameLevels(f, g) /\ NextSet(Prices, f, x, v, g)
<1>1. f[x] \in LevelRec
    BY DEF Levels
<1> DEFINE r == [f[x] EXCEPT !.next = v]
<1>2. /\ r \in LevelRec /\ r.side = f[x].side /\ r.first = f[x].first
      /\ r.next = v /\ r.prev = f[x].prev
    BY <1>1 DEF LevelRec
<1>3. g = [f EXCEPT ![x] = r]
    OBVIOUS
<1> HIDE DEF r
<1> QED BY <1>1, <1>2, <1>3, Records DEF Levels, SameLevel, SameLevels, NextSet, PrevSet

LEMMA SetLevelPrev ==
    ASSUME NEW f \in Levels, NEW x \in Prices, f[x] # NoLevel,
           NEW v \in Prices \cup {Null}, NEW g, g = [f EXCEPT ![x].prev = v]
    PROVE  /\ g \in Levels
           /\ SameLevels(f, g) /\ PrevSet(Prices, f, x, v, g)
<1>1. f[x] \in LevelRec
    BY DEF Levels
<1> DEFINE r == [f[x] EXCEPT !.prev = v]
<1>2. /\ r \in LevelRec /\ r.side = f[x].side /\ r.first = f[x].first
      /\ r.prev = v /\ r.next = f[x].next
    BY <1>1 DEF LevelRec
<1>3. g = [f EXCEPT ![x] = r]
    OBVIOUS
<1> HIDE DEF r
<1> QED BY <1>1, <1>2, <1>3, Records DEF Levels, SameLevel, SameLevels, NextSet, PrevSet

LEMMA SetOrderNext ==
    ASSUME NEW f \in Blocks, NEW x \in Orders, f[x] # NoOrder,
           NEW v \in Orders, NEW g, g = [f EXCEPT ![x].next = v]
    PROVE  /\ g \in Blocks
           /\ SameOrders(f, g) /\ NextSet(Orders, f, x, v, g)
<1>1. f[x] \in OrderRec
    BY DEF Blocks
<1> DEFINE r == [f[x] EXCEPT !.next = v]
<1>2. /\ r \in OrderRec /\ r.side = f[x].side /\ r.price = f[x].price
      /\ r.next = v /\ r.prev = f[x].prev
    BY <1>1 DEF OrderRec
<1>3. g = [f EXCEPT ![x] = r]
    OBVIOUS
<1> HIDE DEF r
<1> QED BY <1>1, <1>2, <1>3, Records DEF Blocks, SameOrder, SameOrders, NextSet, PrevSet

LEMMA SetOrderPrev ==
    ASSUME NEW f \in Blocks, NEW x \in Orders, f[x] # NoOrder,
           NEW v \in Orders, NEW g, g = [f EXCEPT ![x].prev = v]
    PROVE  /\ g \in Blocks
           /\ SameOrders(f, g) /\ PrevSet(Orders, f, x, v, g)
<1>1. f[x] \in OrderRec
    BY DEF Blocks
<1> DEFINE r == [f[x] EXCEPT !.prev = v]
<1>2. /\ r \in OrderRec /\ r.side = f[x].side /\ r.price = f[x].price
      /\ r.prev = v /\ r.next = f[x].next
    BY <1>1 DEF OrderRec
<1>3. g = [f EXCEPT ![x] = r]
    OBVIOUS
<1> HIDE DEF r
<1> QED BY <1>1, <1>2, <1>3, Records DEF Blocks, SameOrder, SameOrders, NextSet, PrevSet

\* Two of them at once.
LEMMA TwoPointers ==
    ASSUME NEW f, NEW x, NEW v, NEW w, NEW h, h = [f EXCEPT ![x].prev = v]
    PROVE  [f EXCEPT ![x].prev = v, ![x].next = w] = [h EXCEPT ![x].next = w]
BY Zenon

-----------------------------------------------------------------------------
(* What the actions do to the pointers.                                    *)

\* Prices are compared.
LEMMA BehindFacts ==
    ASSUME NEW s
    PROVE  /\ \A p, q \in Prices : Behind(s, p, q) \in BOOLEAN
           /\ \A p, q \in Prices : p # q => (Behind(s, p, q) <=> ~Behind(s, q, p))
           /\ \A p, q, r \in Prices : Behind(s, p, q) /\ Behind(s, q, r) => Behind(s, p, r)
<1>1. ASSUME NEW p \in Prices, NEW q \in Prices
      PROVE  /\ Behind(s, p, q) \in BOOLEAN
             /\ p # q => (Behind(s, p, q) <=> ~Behind(s, q, p))
    <2>1. p \in Nat /\ q \in Nat
        BY PricesAssumption
    <2>2. CASE s = "SELL"
        BY <2>1, <2>2 DEF Behind
    <2>3. CASE s # "SELL"
        BY <2>1, <2>3 DEF Behind
    <2> QED BY <2>2, <2>3
<1>2. ASSUME NEW p \in Prices, NEW q \in Prices, NEW r \in Prices,
             Behind(s, p, q), Behind(s, q, r)
      PROVE  Behind(s, p, r)
    <2>1. p \in Nat /\ q \in Nat /\ r \in Nat
        BY PricesAssumption
    <2> QED BY <1>2, <2>1 DEF Behind
<1> QED BY <1>1, <1>2

LEMMA TypeFacts ==
    TypeOK <=> /\ best \in [Sides -> Prices \cup {Null}]
               /\ level \in Levels
               /\ order \in Blocks
               /\ walk \in [new : Prices, target : Prices, after : BOOLEAN] \cup {NoWalk}
BY DEF TypeOK, Levels, Blocks, LevelRec, OrderRec

\* A ring whose nodes were left alone is still one.
LEMMA StillLinked ==
    ASSUME NEW q, NEW f, NEW g, Linked(q, f),
           \A i \in 1 .. Len(q) : /\ g[q[i]].next = f[q[i]].next
                                  /\ g[q[i]].prev = f[q[i]].prev
    PROVE  Linked(q, g)
BY DEF Linked

\* A ring's first and last are each other's neighbours.
LEMMA EndsOfRing ==
    ASSUME NEW S, NEW q \in Seq(S), q # <<>>, NEW f, Linked(q, f)
    PROVE  /\ Len(q) \in Nat \ {0} /\ 1 \in 1 .. Len(q) /\ Len(q) \in 1 .. Len(q)
           /\ q[1] \in S /\ q[Len(q)] \in S
           /\ f[q[1]].prev = q[Len(q)] /\ f[q[Len(q)]].next = q[1]
<1>1. Len(q) \in Nat \ {0}
    BY LenProperties, EmptySeq
<1>2. 1 \in 1 .. Len(q) /\ Len(q) \in 1 .. Len(q)
    BY <1>1
<1>3. q[1] \in S /\ q[Len(q)] \in S
    BY <1>2, ElementOfSeq
<1>4. f[q[1]].prev = q[Before(1, Len(q))] /\ f[q[Len(q)]].next = q[After(Len(q), Len(q))]
    BY <1>2 DEF Linked
<1> QED BY <1>1, <1>2, <1>3, <1>4 DEF After, Before

NewOrder(o, s, p) == [side |-> s, price |-> p, prev |-> o, next |-> o]

LEMMA NewOrderFacts ==
    ASSUME NEW o \in Orders, NEW s \in Sides, NEW p \in Prices
    PROVE  /\ NewOrder(o, s, p) \in OrderRec /\ NewOrder(o, s, p) # NoOrder
           /\ NewOrder(o, s, p).side = s /\ NewOrder(o, s, p).price = p
           /\ NewOrder(o, s, p).prev = o /\ NewOrder(o, s, p).next = o
<1>1. NewOrder(o, s, p) \in OrderRec
    BY DEF NewOrder, OrderRec
<1> QED BY <1>1, Records DEF NewOrder

LEMMA AppendLinks ==
    ASSUME TypeOK, NEW o \in Orders, NEW s \in Sides, NEW p \in Prices,
           AppendOrder(o, s, p),
           NEW q \in Seq(Orders), QueueShape(p, q), q # <<>>,
           NEW k, k = Len(q) + 1
    PROVE  /\ order' \in Blocks
           /\ order'[o].side = s /\ order'[o].price = p /\ order'[o] # NoOrder
           /\ \A x \in Orders \ {o} : SameOrder(order'[x], order[x])
           /\ LinkedIn(Orders, q, k, o, order, order')
<1> DEFINE f == level[p].first
           l0 == [order EXCEPT ![o] = NewOrder(o, s, p)]
           b == l0[f].prev
           l1 == [l0 EXCEPT ![b].next = o]
           c == l1[f].prev
           h == [l1 EXCEPT ![o].prev = c]
           l2 == [h EXCEPT ![o].next = f]
           l3 == [l2 EXCEPT ![f].prev = o]
<1>1. order' = l3
    <2>1. order' = [[l1 EXCEPT ![o].prev = c, ![o].next = f] EXCEPT ![f].prev = o]
        BY Zenon DEF AppendOrder, NewOrder
    <2>2. [l1 EXCEPT ![o].prev = c, ![o].next = f] = l2
        BY TwoPointers, Zenon
    <2> QED BY <2>1, <2>2, Zenon
<1>2. order \in Blocks /\ order[o] = NoOrder
    BY TypeFacts DEF AppendOrder
<1>3. /\ f = q[1] /\ f \in Orders /\ f # o
      /\ q[Len(q)] \in Orders /\ q[Len(q)] # o
      /\ order[f].prev = q[Len(q)] /\ order[f] # NoOrder /\ order[q[Len(q)]] # NoOrder
    <2>1. /\ f = q[1] /\ Linked(q, order)
          /\ \A x \in Orders : Has(q, x) => order[x] # NoOrder
        BY DEF QueueShape
    <2>2. /\ 1 \in 1 .. Len(q) /\ Len(q) \in 1 .. Len(q)
          /\ q[1] \in Orders /\ q[Len(q)] \in Orders
          /\ order[q[1]].prev = q[Len(q)]
        BY <2>1, EndsOfRing
    <2>3. order[q[1]] # NoOrder /\ order[q[Len(q)]] # NoOrder
        BY <2>1, <2>2 DEF Has
    <2> QED BY <1>2, <2>1, <2>2, <2>3
<1> HIDE DEF l3
<1>4. /\ l0 \in Blocks /\ l0[o] = NewOrder(o, s, p)
      /\ \A x \in Orders \ {o} : l0[x] = order[x]
    BY <1>2, NewOrderFacts DEF Blocks
<1>5. b = q[Len(q)] /\ l0[b] # NoOrder
    BY <1>3, <1>4
<1> HIDE DEF f, l0, b
<1>6. /\ l1 \in Blocks
      /\ SameOrders(l0, l1) /\ NextSet(Orders, l0, b, o, l1)
    <2>1. l0 \in Blocks /\ b \in Orders /\ l0[b] # NoOrder
        BY <1>3, <1>4, <1>5
    <2>2. l1 = [l0 EXCEPT ![b].next = o]
        OBVIOUS
    <2> HIDE DEF l1
    <2> QED BY <2>1, <2>2, SetOrderNext
<1> HIDE DEF l1
<1>7. c = b /\ c \in Orders /\ l1[o] # NoOrder
    BY <1>3, <1>4, <1>5, <1>6, NewOrderFacts DEF SameOrder, SameOrders, NextSet, PrevSet, b
<1> HIDE DEF c
<1>8. /\ h \in Blocks
      /\ SameOrders(l1, h) /\ PrevSet(Orders, l1, o, c, h)
    <2>1. l1 \in Blocks /\ c \in Orders /\ l1[o] # NoOrder
        BY <1>6, <1>7
    <2>2. h = [l1 EXCEPT ![o].prev = c]
        OBVIOUS
    <2> HIDE DEF h
    <2> QED BY <2>1, <2>2, SetOrderPrev
<1> HIDE DEF h
<1>9. /\ l2 \in Blocks
      /\ SameOrders(h, l2) /\ NextSet(Orders, h, o, f, l2)
    BY <1>3, <1>7, <1>8, SetOrderNext DEF SameOrder, SameOrders, NextSet, PrevSet
<1> HIDE DEF l2
<1>10. /\ l3 \in Blocks
       /\ SameOrders(l2, l3) /\ PrevSet(Orders, l2, f, o, l3)
    <2>1. l2[f] # NoOrder
        BY <1>3, <1>4, <1>6, <1>8, <1>9 DEF SameOrder, SameOrders, NextSet, PrevSet
    <2>2. l2 \in Blocks /\ f \in Orders
        BY <1>3, <1>9
    <2>3. l3 = [l2 EXCEPT ![f].prev = o]
        BY DEF l3
    <2> QED BY <2>1, <2>2, <2>3, SetOrderPrev
<1>11. l3[o].side = s /\ l3[o].price = p /\ l3[o] # NoOrder
    BY <1>4, <1>6, <1>8, <1>9, <1>10, NewOrderFacts DEF SameOrder, SameOrders, NextSet, PrevSet
<1>12. \A x \in Orders \ {o} : SameOrder(l3[x], order[x])
    BY <1>4, <1>6, <1>8, <1>9, <1>10 DEF SameOrder, SameOrders, NextSet, PrevSet
<1>13. /\ l3[o].prev = b /\ l3[o].next = f /\ l3[b].next = o /\ l3[f].prev = o
       /\ \A x \in Orders : x # o /\ x # b => l3[x].next = order[x].next
       /\ \A x \in Orders : x # o /\ x # f => l3[x].prev = order[x].prev
    BY <1>3, <1>4, <1>5, <1>6, <1>7, <1>8, <1>9, <1>10 DEF NextSet, PrevSet
<1>14. LinkedIn(Orders, q, k, o, order, l3)
    <2>1. Len(q) \in Nat \ {0}
        BY LenProperties, EmptySeq
    <2>2. k = Len(q) + 1 /\ k # 1 /\ k - 1 = Len(q)
        BY <2>1
    <2> QED BY <1>3, <1>5, <1>13, <2>2 DEF LinkedIn
<1> QED BY <1>1, <1>10, <1>11, <1>12, <1>14

-----------------------------------------------------------------------------
(* AddOrder at a price that has a level.                                   *)

\* A level's orders are as they were, if only blocks of another price changed.
LEMMA QueueStays ==
    ASSUME NEW r \in Prices, NEW q \in Seq(Orders), QueueShape(r, q),
           level'[r] = level[r] \/ SameLevel(level'[r], level[r]),
           \A x \in Orders :
               /\ order'[x] # NoOrder /\ order'[x].price = r
                      <=> order[x] # NoOrder /\ order[x].price = r
               /\ Has(q, x) => /\ order'[x].next = order[x].next
                               /\ order'[x].prev = order[x].prev
    PROVE  QueueShape(r, q)'
<1>1. \A i \in 1 .. Len(q) : q[i] \in Orders /\ Has(q, q[i])
    BY LenProperties, ElementOfSeq DEF Has
<1>2. Linked(q, order) /\ Distinct(q)
    BY DEF QueueShape
<1>3. Linked(q, order')
    BY <1>1, <1>2, StillLinked
<1>4. \A x \in Orders : Has(q, x) <=> order'[x] # NoOrder /\ order'[x].price = r
    BY DEF QueueShape
<1>5. level'[r].first = level[r].first /\ (level'[r] = NoLevel <=> level[r] = NoLevel)
    BY DEF SameLevel
<1>6. /\ level'[r] = NoLevel <=> q = <<>>
      /\ q # <<>> => level'[r].first = q[1]
    BY <1>5 DEF QueueShape
<1> QED BY <1>2, <1>3, <1>4, <1>6 DEF QueueShape

LEMMA AppendShape ==
    ASSUME TypeOK, NEW L \in [Sides -> Seq(Prices)], NEW Q \in [Prices -> Seq(Orders)],
           Shape(L, Q),
           NEW o \in Orders, NEW s \in Sides, NEW p \in Prices, AppendOrder(o, s, p),
           NEW M, M = [Q EXCEPT ![p] = Append(Q[p], o)]
    PROVE  /\ TypeOK'
           /\ M \in [Prices -> Seq(Orders)]
           /\ Shape(L, M)'
           /\ Has(L[s], p)
<1> DEFINE q == Q[p]
<1>1. /\ walk = NoWalk /\ order[o] = NoOrder /\ level[p].side = s
      /\ best' = best /\ level' = level /\ walk' = walk
    BY DEF AppendOrder
<1>2. q \in Seq(Orders) /\ QueueShape(p, q)
    BY DEF Shape
<1>3. q # <<>> /\ level[p] # NoLevel
    BY <1>1, <1>2, Records DEF QueueShape
<1> HIDE DEF q
<1>4. PICK k \in 1 .. Len(q) + 1 : k = Len(q) + 1 /\ Append(q, o) = InsertAt(q, k, o)
    BY <1>2, AppendIsInsert
<1>5. /\ order' \in Blocks
      /\ order'[o].side = s /\ order'[o].price = p /\ order'[o] # NoOrder
      /\ \A x \in Orders \ {o} : SameOrder(order'[x], order[x])
      /\ LinkedIn(Orders, q, k, o, order, order')
    BY <1>2, <1>3, <1>4, AppendLinks
<1>6. \A r \in Prices : ~Has(Q[r], o) /\ QueueShape(r, Q[r]) /\ Q[r] \in Seq(Orders)
    BY <1>1 DEF Shape, QueueShape
<1>7. TypeOK'
    BY <1>1, <1>5, TypeFacts DEF TypeOK, Levels, LevelRec, Blocks, OrderRec
<1>8. M \in [Prices -> Seq(Orders)] /\ M[p] = Append(q, o) /\ \A r \in Prices \ {p} : M[r] = Q[r]
    BY <1>2, AppendProperties DEF q
<1>9. QueueShape(p, M[p])'
    <2>1. M[p] = InsertAt(q, k, o)
        BY <1>8, <1>4
    <2>2. Linked(q, order) /\ Distinct(q) /\ ~Has(q, o)
        BY <1>2, <1>6 DEF QueueShape, q
    <2>3. Linked(M[p], order') /\ Distinct(M[p])
        BY <1>2, <1>3, <1>5, <2>1, <2>2, LinkedInsert
    <2>4. /\ \A x : Has(M[p], x) <=> Has(q, x) \/ x = o
          /\ M[p] # <<>> /\ M[p][1] = q[1]
        <3>1. k # 1
            BY <1>2, <1>3, <1>4, LenProperties, EmptySeq
        <3>2. Inserted(Orders, q, k, o, InsertAt(q, k, o))
            BY <1>2, HasInsert
        <3> QED BY <2>1, <3>1, <3>2 DEF Inserted
    <2>5. \A x \in Orders : Has(M[p], x) <=> order'[x] # NoOrder /\ order'[x].price = p
        BY <1>1, <1>2, <1>5, <2>4 DEF QueueShape, SameOrder
    <2>6. level'[p] # NoLevel /\ level'[p].first = M[p][1]
        BY <1>1, <1>2, <1>3, <2>4 DEF QueueShape
    <2> QED BY <2>3, <2>4, <2>5, <2>6 DEF QueueShape
<1>10. ASSUME NEW r \in Prices, r # p PROVE QueueShape(r, M[r])'
    <2>1. M[r] = Q[r] /\ QueueShape(r, Q[r]) /\ Q[r] \in Seq(Orders) /\ ~Has(Q[r], o)
        BY <1>6, <1>8, <1>10
    <2>2. \A x \in Orders : order'[x] # NoOrder /\ order'[x].price = r
                                <=> order[x] # NoOrder /\ order[x].price = r
        BY <1>1, <1>5, <1>10 DEF SameOrder
    <2>3. ASSUME NEW x \in Orders, Has(Q[r], x)
          PROVE  order'[x].next = order[x].next /\ order'[x].prev = order[x].prev
        <3>1. order[x].price = r
            BY <2>1, <2>3 DEF QueueShape
        <3>2. ~Has(q, x)
            BY <1>2, <1>10, <3>1 DEF QueueShape
        <3>3. x # o
            BY <2>1, <2>3
        <3>4. Untouched(Orders, q, o, order, order')
            BY <1>2, <1>3, <1>5, LinkedInOthers
        <3> QED BY <3>2, <3>3, <3>4 DEF Untouched
    <2> QED BY <1>1, <2>1, <2>2, <2>3, QueueStays
<1>11. \A t \in Sides : SideShape(t, L[t])'
    BY <1>1 DEF Shape, SideShape
<1>12. OrdersKnowSides'
    BY <1>1, <1>5 DEF Shape, OrdersKnowSides, SameOrder
<1>13. WalkShape(L, M)'
    BY <1>1 DEF WalkShape
<1>14. Has(L[s], p)
    <2>1. Null \notin Prices
        BY NullAssumption
    <2> QED BY <1>1, <2>1 DEF Shape, SideShape, NoWalk
<1> QED BY <1>7, <1>8, <1>9, <1>10, <1>11, <1>12, <1>13, <1>14 DEF Shape

-----------------------------------------------------------------------------
(* AddOrder at a price that has no level.                                  *)

\* A side's levels are as they were, if only those of the other side changed.
LEMMA SideStays ==
    ASSUME NEW t \in Sides, NEW q \in Seq(Prices), SideShape(t, q),
           best'[t] = best[t],
           \A x \in Prices :
               /\ level'[x].side = t /\ x # walk'.new <=> level[x].side = t /\ x # walk.new
               /\ Has(q, x) => /\ level'[x].next = level[x].next
                               /\ level'[x].prev = level[x].prev
    PROVE  SideShape(t, q)'
<1>1. \A i \in 1 .. Len(q) : q[i] \in Prices /\ Has(q, q[i])
    BY LenProperties, ElementOfSeq DEF Has
<1>2. Linked(q, level)
    BY DEF SideShape
<1>3. Linked(q, level')
    BY <1>1, <1>2, StillLinked
<1>4. \A x \in Prices : Has(q, x) <=> level'[x].side = t /\ x # walk'.new
    BY DEF SideShape
<1>5. /\ \A i, j \in 1 .. Len(q) : i < j => Behind(t, q[j], q[i])
      /\ best'[t] = IF q = <<>> THEN Null ELSE q[1]
    BY DEF SideShape
<1> QED BY <1>3, <1>4, <1>5 DEF SideShape

\* A ring of one.
LEMMA Single ==
    ASSUME NEW S, NEW e \in S
    PROVE  /\ <<e>> \in Seq(S) /\ Len(<<e>>) = 1 /\ <<e>>[1] = e /\ <<e>> # <<>>
           /\ \A x : Has(<<e>>, x) <=> x = e
           /\ Distinct(<<e>>)
           /\ \A f : f[e].next = e /\ f[e].prev = e => Linked(<<e>>, f)
<1>1. <<e>> \in Seq(S) /\ Len(<<e>>) = 1 /\ <<e>>[1] = e /\ <<e>> # <<>>
    OBVIOUS
<1>2. \A i \in 1 .. Len(<<e>>) : i = 1
    BY <1>1
<1>3. 1 \in 1 .. Len(<<e>>)
    BY <1>1
<1>4. After(1, 1) = 1 /\ Before(1, 1) = 1
    BY DEF After, Before
<1> DEFINE q == <<e>>
<1> HIDE DEF q
<1>5. \A x : Has(q, x) <=> x = e
    BY <1>1, <1>2, <1>3 DEF Has, q
<1>6. Distinct(q)
    BY <1>2 DEF Distinct, q
<1>7. \A f : f[e].next = e /\ f[e].prev = e => Linked(q, f)
    <2>1. Len(q) = 1 /\ q[1] = e /\ \A i \in 1 .. Len(q) : i = 1
        BY <1>1, <1>2 DEF q
    <2> QED BY <1>4, <2>1 DEF Linked
<1> QED BY <1>1, <1>5, <1>6, <1>7 DEF q

\* The new level has its order, and the other levels have theirs.
Created(L, Q, M, o, s, p) ==
    /\ M \in [Prices -> Seq(Orders)] /\ M[p] = <<o>>
    /\ order' \in Blocks /\ level' \in Levels
    /\ level'[p].side = s
    /\ \A x \in Prices \ {p} : level'[x] = level[x]
    /\ \A r \in Prices : QueueShape(r, M[r])'
    /\ OrdersKnowSides'
    /\ \A t \in Sides : ~Has(L[t], p)
    /\ \A r \in Prices : ~Has(Q[r], o)

LEMMA CreateQueues ==
    ASSUME TypeOK, NEW L \in [Sides -> Seq(Prices)], NEW Q \in [Prices -> Seq(Orders)],
           Shape(L, Q),
           NEW o \in Orders, NEW s \in Sides, NEW p \in Prices, CreateLevel(o, s, p),
           NEW M, M = [Q EXCEPT ![p] = <<o>>]
    PROVE  Created(L, Q, M, o, s, p)
<1> DEFINE link == IF best[s] = Null THEN p ELSE Null
           new == [side |-> s, first |-> o, prev |-> link, next |-> link]
<1>1. /\ walk = NoWalk /\ order[o] = NoOrder /\ level[p] = NoLevel
      /\ order' = [order EXCEPT ![o] = NewOrder(o, s, p)]
      /\ level' = [level EXCEPT ![p] = new]
    BY Zenon DEF CreateLevel, NewOrder
<1>2. new \in LevelRec /\ new.side = s /\ new.first = o
    BY DEF LevelRec
<1> HIDE DEF new
<1>3. /\ level' \in Levels /\ level'[p] = new /\ level'[p] # NoLevel
      /\ \A x \in Prices \ {p} : level'[x] = level[x]
    BY <1>1, <1>2, TypeFacts, Records DEF Levels
<1>4. /\ order' \in Blocks /\ order'[o] = NewOrder(o, s, p)
      /\ \A x \in Orders \ {o} : order'[x] = order[x]
    BY <1>1, TypeFacts, NewOrderFacts DEF Blocks
<1>5. M \in [Prices -> Seq(Orders)] /\ M[p] = <<o>> /\ \A r \in Prices \ {p} : M[r] = Q[r]
    BY Single
<1>6. \A r \in Prices : ~Has(Q[r], o) /\ QueueShape(r, Q[r]) /\ Q[r] \in Seq(Orders)
    BY <1>1 DEF Shape, QueueShape
<1>7. \A x \in Orders : order[x] # NoOrder => order[x].price # p
    <2>1. Q[p] = <<>>
        BY <1>1, <1>6 DEF QueueShape
    <2>2. \A x : ~Has(Q[p], x)
        BY <2>1 DEF Has
    <2> QED BY <1>6, <2>2 DEF QueueShape
<1>8. QueueShape(p, M[p])'
    <2>1. /\ \A x : Has(M[p], x) <=> x = o
          /\ Distinct(M[p]) /\ Linked(M[p], order')
          /\ M[p] # <<>> /\ M[p][1] = o
        BY <1>4, <1>5, Single, NewOrderFacts
    <2>2. \A x \in Orders : Has(M[p], x) <=> order'[x] # NoOrder /\ order'[x].price = p
        <3>1. order'[o] # NoOrder /\ order'[o].price = p
            BY <1>4, NewOrderFacts
        <3> QED BY <1>4, <1>7, <2>1, <3>1
    <2>3. level'[p] # NoLevel /\ level'[p].first = o
        BY <1>2, <1>3
    <2> QED BY <2>1, <2>2, <2>3 DEF QueueShape
<1>9. ASSUME NEW r \in Prices, r # p PROVE QueueShape(r, M[r])'
    <2>1. M[r] = Q[r] /\ QueueShape(r, Q[r]) /\ Q[r] \in Seq(Orders) /\ ~Has(Q[r], o)
        BY <1>5, <1>6, <1>9
    <2>2. \A x \in Orders : order'[x] # NoOrder /\ order'[x].price = r
                                <=> order[x] # NoOrder /\ order[x].price = r
        BY <1>1, <1>4, <1>9, NewOrderFacts
    <2>3. \A x \in Orders : Has(Q[r], x) => /\ order'[x].next = order[x].next
                                            /\ order'[x].prev = order[x].prev
        BY <1>4, <2>1
    <2>4. level'[r] = level[r]
        BY <1>3, <1>9
    <2> QED BY <2>1, <2>2, <2>3, <2>4, QueueStays
<1>10. OrdersKnowSides'
    <2>1. ASSUME NEW x \in Orders, order'[x] # NoOrder
          PROVE  order'[x].side = level'[order'[x].price].side
        <3>1. CASE x = o
            BY <1>2, <1>3, <1>4, <3>1, NewOrderFacts
        <3>2. CASE x # o
            <4>1. order'[x] = order[x] /\ order[x] # NoOrder /\ order[x].price # p
                BY <1>4, <1>7, <2>1, <3>2
            <4>2. order[x].price \in Prices
                BY <4>1, TypeFacts DEF Blocks, OrderRec
            <4> QED BY <1>3, <4>1, <4>2 DEF Shape, OrdersKnowSides
        <3> QED BY <3>1, <3>2
    <2> QED BY <2>1 DEF OrdersKnowSides
<1>11. \A t \in Sides : ~Has(L[t], p)
    <2>1. level[p].side \notin Sides
        BY <1>1, Records
    <2> QED BY <2>1 DEF Shape, SideShape
<1> QED BY <1>2, <1>3, <1>4, <1>5, <1>6, <1>8, <1>9, <1>10, <1>11 DEF Created

\* The first level of a side is a ring of its own.
LEMMA CreateFirstShape ==
    ASSUME TypeOK, NEW L \in [Sides -> Seq(Prices)], NEW Q \in [Prices -> Seq(Orders)],
           Shape(L, Q),
           NEW o \in Orders, NEW s \in Sides, NEW p \in Prices, CreateLevel(o, s, p),
           best[s] = Null,
           NEW K, K = [L EXCEPT ![s] = <<p>>],
           NEW M, M = [Q EXCEPT ![p] = <<o>>]
    PROVE  /\ TypeOK'
           /\ K \in [Sides -> Seq(Prices)] /\ M \in [Prices -> Seq(Orders)]
           /\ Shape(K, M)'
           /\ L[s] = <<>>
<1>1. /\ walk = NoWalk /\ walk' = NoWalk /\ best' = [best EXCEPT ![s] = p]
      /\ level'[p].prev = p /\ level'[p].next = p
    <2>1. level' = [level EXCEPT ![p] = [side |-> s, first |-> o, prev |-> p, next |-> p]]
        BY Zenon DEF CreateLevel
    <2> QED BY <2>1, TypeFacts DEF CreateLevel, Levels
<1>2. Created(L, Q, M, o, s, p)
    BY CreateQueues
<1>3. /\ M \in [Prices -> Seq(Orders)] /\ M[p] = <<o>>
      /\ order' \in Blocks /\ level' \in Levels
      /\ level'[p].side = s
      /\ \A x \in Prices \ {p} : level'[x] = level[x]
      /\ \A r \in Prices : QueueShape(r, M[r])'
      /\ OrdersKnowSides'
      /\ \A t \in Sides : ~Has(L[t], p)
    BY <1>2 DEF Created
<1>4. best' \in [Sides -> Prices \cup {Null}] /\ \A t \in Sides \ {s} : best'[t] = best[t]
    BY <1>1, TypeFacts
<1>5. TypeOK'
    BY <1>1, <1>3, <1>4, TypeFacts DEF TypeOK, Levels, LevelRec, Blocks, OrderRec
<1>6. L[s] = <<>>
    <2>1. L[s] # <<>> => L[s][1] \in Prices
        BY EmptySeq, LenProperties, ElementOfSeq
    <2> QED BY <2>1, NullAssumption DEF Shape, SideShape
<1>7. K \in [Sides -> Seq(Prices)] /\ K[s] = <<p>> /\ \A t \in Sides \ {s} : K[t] = L[t]
    BY Single
<1>8. Null \notin Prices
    BY NullAssumption
<1>9. SideShape(s, K[s])'
    <2>1. /\ \A x : Has(K[s], x) <=> x = p
          /\ Linked(K[s], level') /\ K[s] # <<>> /\ K[s][1] = p /\ Len(K[s]) = 1
        BY <1>1, <1>7, Single
    <2>2. \A x \in Prices : level[x].side # s
        <3>1. \A x : ~Has(L[s], x)
            BY <1>6 DEF Has
        <3> QED BY <1>1, <1>8, <3>1 DEF Shape, SideShape, NoWalk
    <2>3. \A x \in Prices : Has(K[s], x) <=> level'[x].side = s /\ x # walk'.new
        BY <1>1, <1>3, <1>8, <2>1, <2>2 DEF NoWalk
    <2>4. best'[s] = p
        BY <1>1, TypeFacts
    <2>5. \A i, j \in 1 .. Len(K[s]) : ~(i < j)
        BY <2>1
    <2> QED BY <2>1, <2>3, <2>4, <2>5 DEF SideShape
<1>10. ASSUME NEW t \in Sides, t # s PROVE SideShape(t, K[t])'
    <2>1. K[t] = L[t] /\ SideShape(t, L[t]) /\ L[t] \in Seq(Prices) /\ ~Has(L[t], p)
        BY <1>3, <1>7, <1>10 DEF Shape
    <2>2. ~(level[p].side = t)
        BY <1>1, <1>8, <2>1 DEF SideShape, NoWalk
    <2>3. \A x \in Prices :
              /\ level'[x].side = t /\ x # walk'.new <=> level[x].side = t /\ x # walk.new
              /\ Has(L[t], x) => /\ level'[x].next = level[x].next
                                 /\ level'[x].prev = level[x].prev
        BY <1>1, <1>3, <1>10, <2>1, <2>2
    <2>4. best'[t] = best[t]
        BY <1>4, <1>10
    <2> QED BY <2>1, <2>3, <2>4, SideStays
<1>11. WalkShape(K, M)'
    BY <1>1 DEF WalkShape
<1> QED BY <1>3, <1>5, <1>6, <1>7, <1>9, <1>10, <1>11 DEF Shape

\* Otherwise it is not on the ring yet, and the search starts at the best level.
LEMMA CreateNextShape ==
    ASSUME TypeOK, NEW L \in [Sides -> Seq(Prices)], NEW Q \in [Prices -> Seq(Orders)],
           Shape(L, Q),
           NEW o \in Orders, NEW s \in Sides, NEW p \in Prices, CreateLevel(o, s, p),
           best[s] # Null,
           NEW M, M = [Q EXCEPT ![p] = <<o>>]
    PROVE  /\ TypeOK'
           /\ M \in [Prices -> Seq(Orders)]
           /\ Shape(L, M)'
           /\ \A t \in Sides : ~Has(L[t], p)
<1> DEFINE t == best[s]
           q == L[s]
           n == Len(q)
<1>1. /\ walk = NoWalk /\ best' = best
      /\ walk' = IF Behind(s, p, t)
                 THEN [new |-> p, target |-> level[t].next,
                       after |-> Behind(s, p, level[t].next)]
                 ELSE [new |-> p, target |-> t, after |-> FALSE]
    BY DEF CreateLevel
<1>2. Created(L, Q, M, o, s, p)
    BY CreateQueues
<1>3. /\ M \in [Prices -> Seq(Orders)] /\ M[p] = <<o>>
      /\ order' \in Blocks /\ level' \in Levels
      /\ level'[p].side = s
      /\ \A x \in Prices \ {p} : level'[x] = level[x]
      /\ \A r \in Prices : QueueShape(r, M[r])'
      /\ OrdersKnowSides'
      /\ \A u \in Sides : ~Has(L[u], p)
    BY <1>2 DEF Created
<1>4. /\ q \in Seq(Prices) /\ q # <<>> /\ t = q[1] /\ Linked(q, level)
    BY DEF Shape, SideShape
<1>5. n \in Nat \ {0} /\ 1 \in 1 .. n /\ t \in Prices
    BY <1>4, EndsOfRing
<1>6. /\ After(1, n) \in 1 .. n /\ Before(After(1, n), n) = 1
      /\ level[t].next = q[After(1, n)] /\ q[After(1, n)] \in Prices
    <2>1. After(1, n) \in 1 .. n /\ Before(After(1, n), n) = 1
        BY <1>5 DEF After, Before
    <2> QED BY <1>4, <1>5, <2>1, ElementOfSeq DEF Linked
<1> HIDE DEF t, q, n
<1>7. /\ walk' \in [new : Prices, target : Prices, after : BOOLEAN]
      /\ walk'.new = p /\ walk' # NoWalk
    <2>1. \A x \in Prices : Behind(s, p, x) \in BOOLEAN
        BY BehindFacts
    <2>2. p \in Prices /\ Null \notin Prices
        BY NullAssumption
    <2>3. /\ walk' \in [new : Prices, target : Prices, after : BOOLEAN]
          /\ walk'.new = p
        <3>1. CASE Behind(s, p, t)
            BY <1>1, <1>6, <2>1, <2>2, <3>1
        <3>2. CASE ~Behind(s, p, t)
            BY <1>1, <1>5, <2>2, <3>2
        <3> QED BY <3>1, <3>2
    <2>4. NoWalk.new \notin Prices
        BY <2>2 DEF NoWalk
    <2> QED BY <2>2, <2>3, <2>4
<1>8. TypeOK'
    <2>1. best' \in [Sides -> Prices \cup {Null}]
        BY <1>1, TypeFacts
    <2> QED BY <1>3, <1>7, <2>1 DEF TypeOK, Levels, LevelRec, Blocks, OrderRec
<1>9. ASSUME NEW u \in Sides PROVE SideShape(u, L[u])'
    <2>1. SideShape(u, L[u]) /\ L[u] \in Seq(Prices) /\ ~Has(L[u], p)
        BY <1>3 DEF Shape
    <2>2. Null \notin Prices
        BY NullAssumption
    <2>3. ~(level[p].side = u)
        BY <1>1, <2>1, <2>2 DEF SideShape, NoWalk
    <2>4. \A x \in Prices :
              /\ level'[x].side = u /\ x # walk'.new <=> level[x].side = u /\ x # walk.new
              /\ Has(L[u], x) => /\ level'[x].next = level[x].next
                                 /\ level'[x].prev = level[x].prev
        BY <1>1, <1>3, <1>7, <2>1, <2>2, <2>3 DEF NoWalk
    <2>5. best'[u] = best[u]
        BY <1>1
    <2> QED BY <2>1, <2>4, <2>5, SideStays
<1>10. WalkShape(L, M)'
    <2>1. Len(M[p]) = 1
        BY <1>3, Single
    <2>2. \E k \in 1 .. n :
              /\ walk'.target = q[k]
              /\ walk'.after \/ k # 1 => Behind(s, p, q[Before(k, n)])
              /\ ~walk'.after => ~Behind(s, p, q[k])
        <3>1. CASE Behind(s, p, t)
            <4>1. walk'.target = level[t].next /\ walk'.after = Behind(s, p, level[t].next)
                BY <1>1, <3>1
            <4> QED BY <1>4, <1>6, <3>1, <4>1
        <3>2. CASE ~Behind(s, p, t)
            <4>1. walk'.target = t /\ walk'.after = FALSE
                BY <1>1, <3>2
            <4> QED BY <1>4, <1>5, <3>2, <4>1
        <3> QED BY <3>1, <3>2
    <2> QED BY <1>3, <1>7, <2>1, <2>2 DEF WalkShape, q, n
<1> QED BY <1>3, <1>8, <1>9, <1>10 DEF Shape

-----------------------------------------------------------------------------
(* The search for the new level's place.                                   *)

\* Where the search is: new is the level of side s to be linked into q, and the
\* target is at k.
At(s, q, k) ==
    /\ walk # NoWalk /\ walk \in [new : Prices, target : Prices, after : BOOLEAN]
    /\ level[walk.new].side = s
    /\ walk.target = q[k]
    /\ walk.after \/ k # 1 => Behind(s, walk.new, q[Before(k, Len(q))])
    /\ ~walk.after => ~Behind(s, walk.new, q[k])
    /\ SideShape(s, q)
    /\ ~Has(q, walk.new)
    /\ q # <<>> /\ best[s] = q[1]
    /\ Len(q) \in Nat \ {0} /\ \A i \in 1 .. Len(q) : q[i] \in Prices

LEMMA Searching ==
    ASSUME TypeOK, NEW L \in [Sides -> Seq(Prices)], NEW Q \in [Prices -> Seq(Orders)],
           Shape(L, Q), walk # NoWalk
    PROVE  /\ Len(Q[walk.new]) = 1
           /\ \E s \in Sides, k \in 1 .. Len(L[level[walk.new].side]) :
                  s = level[walk.new].side /\ At(s, L[s], k)
<1> DEFINE s == level[walk.new].side
           q == L[s]
<1>1. walk \in [new : Prices, target : Prices, after : BOOLEAN]
    BY TypeFacts
<1>2. s \in Sides /\ q \in Seq(Prices) /\ SideShape(s, q) /\ Len(Q[walk.new]) = 1
    BY DEF Shape, WalkShape
<1>3. PICK k \in 1 .. Len(q) :
          /\ walk.target = q[k]
          /\ walk.after \/ k # 1 => Behind(s, walk.new, q[Before(k, Len(q))])
          /\ ~walk.after => ~Behind(s, walk.new, q[k])
    BY DEF Shape, WalkShape
<1> HIDE DEF q, s
<1>4. Len(q) \in Nat \ {0} /\ q # <<>> /\ \A i \in 1 .. Len(q) : q[i] \in Prices
    <2>1. Len(q) \in Nat /\ \A i \in 1 .. Len(q) : q[i] \in Prices
        BY <1>2, LenProperties, ElementOfSeq
    <2>2. Len(q) # 0
        BY <1>3, <2>1
    <2> QED BY <1>2, <2>1, <2>2, EmptySeq
<1>5. best[s] = q[1] /\ ~Has(q, walk.new)
    BY <1>1, <1>2, <1>4 DEF SideShape
<1>6. At(s, q, k)
    BY <1>1, <1>2, <1>3, <1>4, <1>5 DEF At, s
<1> QED BY <1>2, <1>3, <1>6 DEF s, q

LEMMA WalkOnShape ==
    ASSUME TypeOK, NEW L \in [Sides -> Seq(Prices)], NEW Q \in [Prices -> Seq(Orders)],
           Shape(L, Q), WalkOn
    PROVE  TypeOK' /\ Shape(L, Q)'
<1>1. /\ walk # NoWalk /\ walk.after
      /\ walk.target # best[level[walk.new].side]
      /\ walk' = [walk EXCEPT !.after = BehindTarget,
                              !.target = IF BehindTarget THEN level[@].next ELSE @]
      /\ best' = best /\ level' = level /\ order' = order
    BY DEF WalkOn, Walking
<1>2. Len(Q[walk.new]) = 1
    BY <1>1, Searching
<1>3. PICK s \in Sides, k \in 1 .. Len(L[level[walk.new].side]) :
          s = level[walk.new].side /\ At(s, L[s], k)
    BY <1>1, Searching
<1> DEFINE q == L[s]
           n == Len(q)
<1>4. /\ walk \in [new : Prices, target : Prices, after : BOOLEAN]
      /\ walk.target = q[k] /\ k \in 1 .. n /\ k # 1
      /\ Behind(s, walk.new, q[Before(k, n)])
      /\ n \in Nat \ {0} /\ \A i \in 1 .. n : q[i] \in Prices
      /\ Linked(q, level)
    BY <1>1, <1>3 DEF At, SideShape
<1>5. /\ After(k, n) \in 1 .. n /\ Before(After(k, n), n) = k
      /\ level[walk.target].next = q[After(k, n)]
    <2>1. After(k, n) \in 1 .. n /\ Before(After(k, n), n) = k
        BY <1>4 DEF After, Before
    <2> QED BY <1>4, <2>1 DEF Linked
<1> HIDE DEF q, n
<1>6. BehindTarget = Behind(s, walk.new, q[k])
    BY <1>3, <1>4 DEF BehindTarget
<1>7. /\ walk' \in [new : Prices, target : Prices, after : BOOLEAN]
      /\ walk'.new = walk.new /\ walk'.after = BehindTarget
      /\ walk'.target = IF BehindTarget THEN q[After(k, n)] ELSE q[k]
    <2>1. BehindTarget \in BOOLEAN
        BY <1>4, <1>6, BehindFacts
    <2>2. q[After(k, n)] \in Prices /\ q[k] \in Prices
        BY <1>4, <1>5
    <2>3. walk' = [new |-> walk.new, target |-> walk'.target, after |-> walk'.after]
          /\ walk'.after = BehindTarget
          /\ walk'.target = IF BehindTarget THEN level[walk.target].next ELSE walk.target
        BY <1>1, <1>4
    <2> QED BY <1>4, <1>5, <2>1, <2>2, <2>3
<1>8. walk' # NoWalk /\ walk'.new \in Prices
    BY <1>4, <1>7, NullAssumption DEF NoWalk
<1>9. TypeOK'
    <2>1. /\ best' \in [Sides -> Prices \cup {Null}]
          /\ level' \in Levels /\ order' \in Blocks
        BY <1>1, TypeFacts
    <2> QED BY <1>7, <2>1 DEF TypeOK, Levels, LevelRec, Blocks, OrderRec
<1>10. \A t \in Sides : SideShape(t, L[t])'
    <2> SUFFICES ASSUME NEW t \in Sides PROVE SideShape(t, L[t])'
        OBVIOUS
    <2>1. SideShape(t, L[t])
        BY DEF Shape
    <2>2. walk'.new = walk.new
        BY <1>7
    <2> QED BY <1>1, <2>1, <2>2 DEF SideShape
<1>11. \A p \in Prices : QueueShape(p, Q[p])'
    BY <1>1 DEF Shape, QueueShape
<1>12. OrdersKnowSides'
    BY <1>1 DEF Shape, OrdersKnowSides
<1>13. WalkShape(L, Q)'
    <2>1. level'[walk'.new].side = s /\ Len(Q[walk'.new]) = 1
        BY <1>1, <1>2, <1>3, <1>7
    <2>2. \E j \in 1 .. n :
              /\ walk'.target = q[j]
              /\ walk'.after \/ j # 1 => Behind(s, walk'.new, q[Before(j, n)])
              /\ ~walk'.after => ~Behind(s, walk'.new, q[j])
        <3>1. CASE BehindTarget
            BY <1>5, <1>6, <1>7, <3>1
        <3>2. CASE ~BehindTarget
            BY <1>4, <1>6, <1>7, <3>2
        <3> QED BY <3>1, <3>2
    <2> QED BY <2>1, <2>2 DEF WalkShape, q, n
<1> QED BY <1>9, <1>10, <1>11, <1>12, <1>13 DEF Shape

\* A price that ranks is met once.
LEMMA RankedOnce ==
    ASSUME NEW s, NEW q \in Seq(Prices), SideShape(s, q)
    PROVE  Distinct(q)
<1>1. \A i \in 1 .. Len(q) : q[i] \in Nat
    <2>1. \A i \in 1 .. Len(q) : q[i] \in Prices
        BY LenProperties, ElementOfSeq
    <2> QED BY <2>1, PricesAssumption
<1>2. \A i, h \in 1 .. Len(q) : i < h => Behind(s, q[h], q[i])
    BY DEF SideShape
<1>3. \A i, h \in 1 .. Len(q) : q[i] = q[h] => ~(i < h)
    BY <1>1, <1>2 DEF Behind
<1> QED BY <1>1, <1>3 DEF Distinct

\* Price p ranks behind the elements of q before place k, and before the others.
RanksAt(s, q, k, p) ==
    \A i \in 1 .. Len(q) : IF i < k THEN Behind(s, p, q[i]) ELSE Behind(s, q[i], p)

\* A level that was linked in where it ranks.
LEMMA LinkShape ==
    ASSUME TypeOK, NEW L \in [Sides -> Seq(Prices)], NEW Q \in [Prices -> Seq(Orders)],
           Shape(L, Q), NEW s \in Sides, NEW q, q = L[s],
           NEW j, At(s, q, j),
           NEW p, p = walk.new,
           NEW k \in 1 .. Len(q) + 1,
           RanksAt(s, q, k, p),
           level' \in Levels, SameLevels(level, level'),
           LinkedIn(Prices, q, k, p, level, level'),
           best' = IF k = 1 THEN [best EXCEPT ![s] = p] ELSE best,
           walk' = NoWalk, order' = order,
           NEW K, K = [L EXCEPT ![s] = InsertAt(q, k, p)]
    PROVE  /\ TypeOK'
           /\ K \in [Sides -> Seq(Prices)]
           /\ Shape(K, Q)'
<1> DEFINE r == InsertAt(q, k, p)
<1>1. /\ q \in Seq(Prices) /\ p \in Prices /\ Len(q) \in Nat /\ q # <<>>
      /\ Linked(q, level) /\ ~Has(q, p) /\ level[p].side = s
      /\ \A i, h \in 1 .. Len(q) : i < h => Behind(s, q[h], q[i])
      /\ walk # NoWalk
    BY DEF At, SideShape
<1>2. Distinct(q)
    BY <1>1, RankedOnce DEF At
<1>3. Linked(r, level')
    BY <1>1, <1>2, LinkedInsert
<1>4. Inserted(Prices, q, k, p, r)
    BY <1>1, HasInsert
<1> HIDE DEF r
<1>5. /\ \A x : Has(r, x) <=> Has(q, x) \/ x = p
      /\ r \in Seq(Prices) /\ r # <<>> /\ r[1] = IF k = 1 THEN p ELSE q[1]
    BY <1>4 DEF Inserted
<1>6. /\ Len(r) = Len(q) + 1
      /\ \A i \in 1 .. Len(q) + 1 :
             r[i] = IF i < k THEN q[i] ELSE IF i = k THEN p ELSE q[i - 1]
    BY <1>4 DEF Inserted
<1>7. ASSUME NEW i \in 1 .. Len(r), NEW h \in 1 .. Len(r), i < h
      PROVE  Behind(s, r[h], r[i])
    <2>1. \A l \in 1 .. Len(q) : IF l < k THEN Behind(s, p, q[l]) ELSE Behind(s, q[l], p)
        BY DEF RanksAt
    <2>2. CASE h < k
        <3>1. r[i] = q[i] /\ r[h] = q[h] /\ i \in 1 .. Len(q) /\ h \in 1 .. Len(q)
            BY <1>1, <1>6, <1>7, <2>2
        <3> QED BY <1>1, <1>7, <3>1
    <2>3. CASE h = k
        <3>1. r[i] = q[i] /\ r[h] = p /\ i \in 1 .. Len(q) /\ i < k
            BY <1>1, <1>6, <1>7, <2>3
        <3> QED BY <2>1, <3>1
    <2>4. CASE h > k /\ i = k
        <3>1. r[i] = p /\ r[h] = q[h - 1] /\ h - 1 \in 1 .. Len(q) /\ ~(h - 1 < k)
            BY <1>1, <1>6, <1>7, <2>4
        <3> QED BY <2>1, <3>1
    <2>5. CASE h > k /\ i < k
        <3>1. /\ r[i] = q[i] /\ r[h] = q[h - 1] /\ i \in 1 .. Len(q)
              /\ h - 1 \in 1 .. Len(q) /\ i < h - 1
            BY <1>1, <1>6, <1>7, <2>5
        <3> QED BY <1>1, <3>1
    <2>6. CASE h > k /\ i > k
        <3>1. /\ r[i] = q[i - 1] /\ r[h] = q[h - 1] /\ i - 1 \in 1 .. Len(q)
              /\ h - 1 \in 1 .. Len(q) /\ i - 1 < h - 1
            BY <1>1, <1>6, <1>7, <2>6
        <3> QED BY <1>1, <3>1
    <2> QED BY <1>1, <1>6, <2>2, <2>3, <2>4, <2>5, <2>6
<1>8. /\ best' \in [Sides -> Prices \cup {Null}]
      /\ best'[s] = r[1]
      /\ \A t \in Sides \ {s} : best'[t] = best[t]
    <2>1. best \in [Sides -> Prices \cup {Null}] /\ best[s] = q[1]
        BY TypeFacts DEF At
    <2> QED BY <1>1, <1>5, <2>1
<1>9. TypeOK'
    <2>1. order' \in Blocks
        BY TypeFacts
    <2> QED BY <1>8, <2>1 DEF TypeOK, Levels, LevelRec, Blocks, OrderRec
<1>10. K \in [Sides -> Seq(Prices)] /\ K[s] = r /\ \A t \in Sides \ {s} : K[t] = L[t]
    BY <1>5 DEF r
<1>11. Null \notin Prices /\ walk'.new = Null
    BY NullAssumption DEF NoWalk
<1>12. \A x \in Prices : level'[x].side = level[x].side
    BY DEF SameLevels, SameLevel
<1>13. SideShape(s, K[s])'
    <2>1. \A x \in Prices : Has(q, x) <=> level[x].side = s /\ x # p
        BY DEF At, SideShape
    <2>2. \A x \in Prices : Has(r, x) <=> level'[x].side = s /\ x # walk'.new
        <3>1. ASSUME NEW x \in Prices PROVE x # walk'.new
            BY <1>11, <3>1
        <3>2. ASSUME NEW x \in Prices PROVE Has(r, x) <=> level'[x].side = s
            <4>1. Has(r, x) <=> Has(q, x) \/ x = p
                BY <1>5
            <4>2. Has(q, x) <=> level'[x].side = s /\ x # p
                BY <1>12, <2>1
            <4>3. level'[p].side = s
                BY <1>1, <1>12
            <4> QED BY <4>1, <4>2, <4>3
        <3> QED BY <3>1, <3>2
    <2>3. Linked(K[s], level')
        BY <1>3, <1>10
    <2>4. best'[s] = IF K[s] = <<>> THEN Null ELSE K[s][1]
        <3>1. r # <<>> /\ best'[s] = r[1]
            BY <1>5, <1>8
        <3>2. K[s] = r
            BY <1>10
        <3> QED BY <3>1, <3>2, Zenon
    <2> QED BY <1>7, <1>10, <2>2, <2>3, <2>4 DEF SideShape
<1>14. ASSUME NEW t \in Sides, t # s PROVE SideShape(t, K[t])'
    <2>1. K[t] = L[t] /\ SideShape(t, L[t]) /\ L[t] \in Seq(Prices)
        BY <1>10, <1>14 DEF Shape
    <2>2. \A x \in Prices : Has(L[t], x) => x # p /\ ~Has(q, x)
        <3>1. \A x \in Prices : Has(L[t], x) => level[x].side = t
            BY <2>1 DEF SideShape
        <3>2. \A x \in Prices : Has(q, x) => level[x].side = s
            BY DEF At, SideShape
        <3> QED BY <1>1, <1>14, <3>1, <3>2
    <2>3. ASSUME NEW x \in Prices, Has(L[t], x)
          PROVE  level'[x].next = level[x].next /\ level'[x].prev = level[x].prev
        <3>1. x # p /\ ~Has(q, x)
            BY <2>2, <2>3
        <3>2. Untouched(Prices, q, p, level, level')
            BY <1>1, LinkedInOthers
        <3> QED BY <3>1, <3>2 DEF Untouched
    <2>4. \A x \in Prices :
              level'[x].side = t /\ x # walk'.new <=> level[x].side = t /\ x # walk.new
        BY <1>1, <1>11, <1>12, <1>14
    <2>5. best'[t] = best[t]
        BY <1>8, <1>14
    <2> QED BY <2>1, <2>3, <2>4, <2>5, SideStays
<1>15. ASSUME NEW x \in Prices PROVE QueueShape(x, Q[x])'
    <2>1. QueueShape(x, Q[x]) /\ Q[x] \in Seq(Orders) /\ SameLevel(level'[x], level[x])
        BY DEF Shape, SameLevels
    <2> QED BY <2>1, QueueStays
<1>16. OrdersKnowSides'
    <2>1. \A x \in Orders : order[x] # NoOrder => order[x].price \in Prices
        BY TypeFacts DEF Blocks, OrderRec
    <2> QED BY <1>12, <2>1 DEF Shape, OrdersKnowSides
<1>17. WalkShape(K, Q)'
    BY DEF WalkShape
<1> QED BY <1>9, <1>10, <1>13, <1>14, <1>15, <1>16, <1>17 DEF Shape

\* Behind the last level, when the search has come round to the best one.
LEMMA LinkAfterLinks ==
    ASSUME TypeOK, NEW s \in Sides, NEW q \in Seq(Prices), NEW j \in 1 .. Len(q), At(s, q, j),
           LinkAfter, Distinct(q)
    PROVE  /\ level' \in Levels /\ SameLevels(level, level')
           /\ \A k \in 1 .. Len(q) + 1 :
                  k = Len(q) + 1 => LinkedIn(Prices, q, k, walk.new, level, level')
           /\ Behind(s, walk.new, q[Len(q)])
<1> DEFINE n == walk.new
           b == best[level[n].side]
           t == IF walk.target = b THEN level[b].prev ELSE walk.target
           l1 == [level EXCEPT ![n].prev = t]
           c == l1[t].next
           l2 == [l1 EXCEPT ![c].prev = n]
           d == l2[t].next
           l3 == [l2 EXCEPT ![n].next = d]
           l4 == [l3 EXCEPT ![t].next = n]
<1>1. /\ level' = l4
      /\ walk.after
      /\ walk.target = b
    BY Zenon DEF LinkAfter, Walking
<1>2. /\ b = q[1] /\ q # <<>> /\ Linked(q, level) /\ level[n].side = s
      /\ \A x \in Prices : Has(q, x) => level[x].side = s
      /\ n \in Prices /\ ~Has(q, n)
      /\ walk.target = q[j]
      /\ walk.after \/ j # 1 => Behind(s, n, q[Before(j, Len(q))])
    BY DEF At, SideShape
<1>3. /\ Len(q) \in Nat \ {0} /\ 1 \in 1 .. Len(q) /\ Len(q) \in 1 .. Len(q)
      /\ q[1] \in Prices /\ q[Len(q)] \in Prices
      /\ level[q[1]].prev = q[Len(q)] /\ level[q[Len(q)]].next = q[1]
    BY <1>2, EndsOfRing
<1>4. t = q[Len(q)]
    BY <1>1, <1>2, <1>3
<1>5. /\ level \in Levels
      /\ level[n] # NoLevel /\ level[q[1]] # NoLevel /\ level[q[Len(q)]] # NoLevel
      /\ n # q[1] /\ n # q[Len(q)]
    BY <1>2, <1>3, TypeFacts, Records DEF Has
<1> HIDE DEF l4, b, t
<1>6. l1 \in Levels /\ SameLevels(level, l1) /\ PrevSet(Prices, level, n, t, l1)
    <2>1. l1 = [level EXCEPT ![n].prev = t] /\ t \in Prices \cup {Null}
        BY <1>3, <1>4
    <2> HIDE DEF l1, n
    <2> QED BY <1>2, <1>5, <2>1, SetLevelPrev
<1> HIDE DEF l1
<1>7. c = q[1]
    BY <1>3, <1>4, <1>6 DEF PrevSet
<1> HIDE DEF c
<1>8. l2 \in Levels /\ SameLevels(l1, l2) /\ PrevSet(Prices, l1, c, n, l2)
    <2>1. l2 = [l1 EXCEPT ![c].prev = n] /\ c \in Prices /\ n \in Prices \cup {Null}
        BY <1>2, <1>3, <1>7
    <2>2. l1[c] # NoLevel
        BY <1>3, <1>5, <1>6, <1>7 DEF SameLevels, SameLevel
    <2> HIDE DEF l2, n
    <2> QED BY <1>6, <2>1, <2>2, SetLevelPrev
<1> HIDE DEF l2
<1>9. d = q[1]
    BY <1>3, <1>4, <1>6, <1>8 DEF PrevSet
<1> HIDE DEF d
<1>10. l3 \in Levels /\ SameLevels(l2, l3) /\ NextSet(Prices, l2, n, d, l3)
    <2>1. l3 = [l2 EXCEPT ![n].next = d] /\ d \in Prices \cup {Null}
        BY <1>3, <1>9
    <2>2. l2[n] # NoLevel
        BY <1>2, <1>5, <1>6, <1>8 DEF SameLevels, SameLevel
    <2> HIDE DEF l3, n
    <2> QED BY <1>2, <1>8, <2>1, <2>2, SetLevelNext
<1> HIDE DEF l3
<1>11. l4 \in Levels /\ SameLevels(l3, l4) /\ NextSet(Prices, l3, t, n, l4)
    <2>1. l4 = [l3 EXCEPT ![t].next = n] /\ t \in Prices /\ n \in Prices \cup {Null}
        BY <1>2, <1>3, <1>4 DEF l4
    <2>2. l3[t] # NoLevel
        BY <1>3, <1>4, <1>5, <1>6, <1>8, <1>10 DEF SameLevels, SameLevel
    <2> HIDE DEF n
    <2> QED BY <1>10, <2>1, <2>2, SetLevelNext
<1>12. SameLevels(level, l4)
    BY <1>6, <1>8, <1>10, <1>11 DEF SameLevels, SameLevel
<1>13. /\ l4[n].prev = t /\ l4[n].next = q[1] /\ l4[t].next = n /\ l4[q[1]].prev = n
       /\ \A x \in Prices : x # n /\ x # t => l4[x].next = level[x].next
       /\ \A x \in Prices : x # n /\ x # q[1] => l4[x].prev = level[x].prev
    BY <1>2, <1>3, <1>4, <1>5, <1>6, <1>7, <1>8, <1>9, <1>10, <1>11 DEF PrevSet, NextSet
<1>14. ASSUME NEW k \in 1 .. Len(q) + 1, k = Len(q) + 1
       PROVE  LinkedIn(Prices, q, k, n, level, l4)
    <2>1. k # 1 /\ k - 1 = Len(q)
        BY <1>3, <1>14
    <2> QED BY <1>4, <1>13, <1>14, <2>1 DEF LinkedIn
<1>15. Behind(s, n, q[Len(q)])
    <2>1. j = 1
        BY <1>1, <1>2, <1>3 DEF Distinct
    <2> QED BY <1>1, <1>2, <2>1 DEF Before
<1> QED BY <1>1, <1>11, <1>12, <1>14, <1>15

\* Before the target, which makes it the best level if that was the best.
LEMMA LinkBeforeLinks ==
    ASSUME TypeOK, NEW s \in Sides, NEW q \in Seq(Prices), NEW k \in 1 .. Len(q), At(s, q, k),
           LinkBefore, Distinct(q),
           \A i \in 1 .. Len(q) : k # 1 /\ i < k => Behind(s, walk.new, q[i])
    PROVE  /\ level' \in Levels /\ SameLevels(level, level')
           /\ LinkedIn(Prices, q, k, walk.new, level, level')
           /\ best' = IF k = 1 THEN [best EXCEPT ![s] = walk.new] ELSE best
<1> DEFINE n == walk.new
           b == best[level[n].side]
           t == walk.target
           c == level[t].prev
           h == [level EXCEPT ![n].prev = c]
           l1 == [h EXCEPT ![n].next = t]
           d == l1[t].prev
           l2 == [l1 EXCEPT ![d].next = n]
           l3 == [l2 EXCEPT ![t].prev = n]
           l4 == [l3 EXCEPT ![t].next = IF @ = b THEN n ELSE @]
<1>1. /\ IF n # b /\ ~Behind(s, n, b)
         THEN level' = l4 /\ best' = [best EXCEPT ![s] = n]
         ELSE level' = l3 /\ best' = best
      /\ ~walk.after
    <2>1. level[n].side = s
        BY DEF At
    <2>2. [level EXCEPT ![n].prev = level[t].prev, ![n].next = t] = l1
        BY TwoPointers, Zenon
    <2> DEFINE m1 == [level EXCEPT ![n].prev = level[t].prev, ![n].next = t]
               m2 == [m1 EXCEPT ![m1[t].prev].next = n]
               m3 == [m2 EXCEPT ![t].prev = n]
    <2>3. /\ IF n # b /\ ~Behind(level[n].side, n, b)
             THEN /\ level' = [m3 EXCEPT ![t].next = IF @ = b THEN n ELSE @]
                  /\ best' = [best EXCEPT ![level[n].side] = n]
             ELSE level' = m3 /\ best' = best
          /\ ~walk.after
        BY Zenon DEF LinkBefore
    <2>4. m1 = l1
        BY <2>2
    <2> QED BY <2>1, <2>3, <2>4, Zenon
<1>2. /\ b = q[1] /\ q # <<>> /\ Linked(q, level) /\ level[n].side = s
      /\ \A x \in Prices : Has(q, x) => level[x].side = s
      /\ n \in Prices /\ ~Has(q, n)
      /\ t = q[k]
      /\ ~Behind(s, n, q[k])
    BY <1>1 DEF At, SideShape
<1> DEFINE m == Len(q)
           y == q[Before(k, m)]
<1>3. /\ m \in Nat \ {0} /\ k \in 1 .. m /\ 1 \in 1 .. m
      /\ Before(k, m) \in 1 .. m
      /\ \A i \in 1 .. m : q[i] \in Prices /\ Has(q, q[i])
    <2>1. m \in Nat \ {0} /\ \A i \in 1 .. m : q[i] \in Prices
        BY DEF At
    <2>2. Before(k, m) \in 1 .. m
        BY <2>1 DEF Before
    <2> QED BY <2>1, <2>2 DEF Has
<1>4. /\ c = y /\ level[t].next = q[After(k, m)] /\ level[y].next = t
    <2>1. After(Before(k, m), m) = k
        BY <1>3 DEF After, Before
    <2> QED BY <1>2, <1>3, <2>1 DEF Linked
<1>5. /\ y \in Prices /\ t \in Prices /\ n # y /\ n # t
      /\ level \in Levels
      /\ level[n] # NoLevel /\ level[y] # NoLevel /\ level[t] # NoLevel
    BY <1>2, <1>3, TypeFacts, Records
<1> HIDE DEF l4, b, t, c, y, m
<1>6. h \in Levels /\ SameLevels(level, h) /\ PrevSet(Prices, level, n, c, h)
    <2>1. h = [level EXCEPT ![n].prev = c] /\ c \in Prices \cup {Null}
        BY <1>4, <1>5
    <2> HIDE DEF h, n
    <2> QED BY <1>2, <1>5, <2>1, SetLevelPrev
<1> HIDE DEF h
<1>7. l1 \in Levels /\ SameLevels(h, l1) /\ NextSet(Prices, h, n, t, l1)
    <2>1. l1 = [h EXCEPT ![n].next = t] /\ t \in Prices \cup {Null}
        BY <1>5
    <2>2. h[n] # NoLevel
        BY <1>2, <1>5, <1>6 DEF SameLevels, SameLevel
    <2> HIDE DEF l1, n
    <2> QED BY <1>2, <1>6, <2>1, <2>2, SetLevelNext
<1> HIDE DEF l1
<1>8. d = y
    <2>1. level[t].prev = y
        BY <1>4 DEF c
    <2> QED BY <1>2, <1>5, <1>6, <1>7, <2>1 DEF PrevSet, NextSet
<1> HIDE DEF d
<1>9. l2 \in Levels /\ SameLevels(l1, l2) /\ NextSet(Prices, l1, d, n, l2)
    <2>1. l2 = [l1 EXCEPT ![d].next = n] /\ d \in Prices /\ n \in Prices \cup {Null}
        BY <1>2, <1>5, <1>8
    <2>2. l1[d] # NoLevel
        BY <1>5, <1>6, <1>7, <1>8 DEF SameLevels, SameLevel
    <2> HIDE DEF l2, n
    <2> QED BY <1>7, <2>1, <2>2, SetLevelNext
<1> HIDE DEF l2
<1>10. l3 \in Levels /\ SameLevels(l2, l3) /\ PrevSet(Prices, l2, t, n, l3)
    <2>1. l3 = [l2 EXCEPT ![t].prev = n] /\ n \in Prices \cup {Null}
        BY <1>2
    <2>2. l2[t] # NoLevel
        BY <1>5, <1>6, <1>7, <1>9 DEF SameLevels, SameLevel
    <2> HIDE DEF l3, n
    <2> QED BY <1>5, <1>9, <2>1, <2>2, SetLevelPrev
<1> HIDE DEF l3
<1>11. SameLevels(level, l3)
    BY <1>6, <1>7, <1>9, <1>10 DEF SameLevels, SameLevel
<1>12. /\ l3[n].prev = y /\ l3[n].next = t /\ l3[y].next = n /\ l3[t].prev = n
       /\ \A x \in Prices : x # n /\ x # y => l3[x].next = level[x].next
       /\ \A x \in Prices : x # n /\ x # t => l3[x].prev = level[x].prev
    BY <1>2, <1>4, <1>5, <1>6, <1>7, <1>8, <1>9, <1>10 DEF PrevSet, NextSet
<1>13. y = q[IF k = 1 THEN Len(q) ELSE k - 1] /\ t = q[IF k = Len(q) + 1 THEN 1 ELSE k]
    <2>1. k # Len(q) + 1
        BY <1>3 DEF m
    <2> QED BY <1>2, <2>1 DEF y, m, Before
<1>14. ASSUME k # 1
       PROVE  level' = l3 /\ best' = best
    <2>1. Behind(s, n, b)
        BY <1>2, <1>3, <1>14 DEF m
    <2> QED BY <1>1, <2>1
<1>15. ASSUME k = 1
       PROVE  level' = l4 /\ best' = [best EXCEPT ![s] = n]
    <2>1. n # b /\ ~Behind(s, n, b)
        BY <1>2, <1>5, <1>15
    <2> QED BY <1>1, <2>1
<1> DEFINE e == IF l3[t].next = b THEN n ELSE l3[t].next
<1>16. l4 \in Levels /\ SameLevels(l3, l4) /\ NextSet(Prices, l3, t, e, l4)
    <2>1. l4 = [l3 EXCEPT ![t].next = e]
        BY DEF l4
    <2>2. l3[t] # NoLevel
        BY <1>5, <1>11 DEF SameLevels, SameLevel
    <2>3. l3[t].next \in Prices \cup {Null}
        BY <1>5, <1>10, <2>2 DEF Levels, LevelRec
    <2>4. e \in Prices \cup {Null}
        BY <1>2, <2>3
    <2> HIDE DEF e
    <2> QED BY <1>5, <1>10, <2>1, <2>2, <2>4, SetLevelNext
<1>17. ASSUME k = 1 PROVE e = l3[t].next
    <2>1. CASE m = 1
        <3>1. y = t
            BY <1>2, <1>17, <2>1 DEF y, Before
        <3> QED BY <1>2, <1>5, <1>12, <1>17, <3>1
    <2>2. CASE m # 1
        <3>1. 2 \in 1 .. m /\ After(k, m) = 2 /\ Before(k, m) = m
            BY <1>3, <1>17, <2>2 DEF After, Before
        <3>2. q[2] # q[1] /\ q[m] # q[1]
            BY <1>3, <2>2, <3>1 DEF Distinct, m
        <3>3. l3[t].next = q[2]
            BY <1>2, <1>4, <1>5, <1>12, <1>17, <3>1, <3>2 DEF y
        <3> QED BY <1>2, <3>2, <3>3
    <2> QED BY <2>1, <2>2
<1>18. /\ k = 1 => \A x \in Prices : l4[x].next = l3[x].next /\ l4[x].prev = l3[x].prev
       /\ SameLevels(level, l4)
    <2>1. SameLevels(level, l4)
        BY <1>11, <1>16 DEF SameLevels, SameLevel
    <2> HIDE DEF e
    <2> QED BY <1>16, <1>17, <2>1 DEF NextSet
<1>19. LinkedIn(Prices, q, k, n, level, l3)
    BY <1>12, <1>13 DEF LinkedIn
<1>20. k = 1 => LinkedIn(Prices, q, k, n, level, l4)
    <2>1. k = 1 =>
          /\ l4[n].prev = y /\ l4[n].next = t /\ l4[y].next = n /\ l4[t].prev = n
          /\ \A x \in Prices : x # n /\ x # y => l4[x].next = level[x].next
          /\ \A x \in Prices : x # n /\ x # t => l4[x].prev = level[x].prev
        BY <1>2, <1>5, <1>12, <1>18
    <2> QED BY <1>13, <2>1 DEF LinkedIn
<1>21. CASE k = 1
    BY <1>15, <1>16, <1>18, <1>20, <1>21
<1>22. CASE k # 1
    BY <1>10, <1>11, <1>14, <1>19, <1>22
<1> QED BY <1>21, <1>22

\* The level that was looked for a place got place k on its side.
PlacedAt(L, Q, s, p, k, K) ==
    /\ p = walk.new /\ k \in 1 .. Len(L[s]) + 1
    /\ K = [L EXCEPT ![s] = InsertAt(L[s], k, p)] /\ K \in [Sides -> Seq(Prices)]
    /\ RanksAt(s, L[s], k, p)
    /\ \A t \in Sides : ~Has(L[t], p)
    /\ Len(Q[p]) = 1
    /\ level[p].side = s
    /\ TypeOK' /\ Shape(K, Q)'

LEMMA LinkAfterShape ==
    ASSUME TypeOK, NEW L \in [Sides -> Seq(Prices)], NEW Q \in [Prices -> Seq(Orders)],
           Shape(L, Q), LinkAfter
    PROVE  \E s \in Sides, p \in Prices, k \in Nat, K \in [Sides -> Seq(Prices)] :
               PlacedAt(L, Q, s, p, k, K)
<1>1. walk # NoWalk
    BY DEF LinkAfter
<1>2. Len(Q[walk.new]) = 1
    BY <1>1, Searching
<1>3. PICK s \in Sides, j \in 1 .. Len(L[level[walk.new].side]) :
          s = level[walk.new].side /\ At(s, L[s], j)
    BY <1>1, Searching
<1>4. PICK p \in Prices : p = walk.new
    BY <1>3 DEF At
<1> DEFINE q == L[s]
<1>5. /\ q \in Seq(Prices) /\ p \in Prices /\ Len(q) \in Nat \ {0} /\ j \in 1 .. Len(q)
      /\ \A i \in 1 .. Len(q) : q[i] \in Prices
      /\ SideShape(s, q)
    BY <1>3, <1>4 DEF At
<1>6. Distinct(q)
    BY <1>5, RankedOnce
<1>7. PICK k \in 1 .. Len(q) + 1 : k = Len(q) + 1
    <2>1. Len(q) \in Nat
        BY <1>5
    <2> HIDE DEF q
    <2>2. \A m \in Nat : m + 1 \in 1 .. m + 1
        OBVIOUS
    <2> QED BY <2>1, <2>2, Zenon
<1>8. /\ level' \in Levels /\ SameLevels(level, level')
      /\ LinkedIn(Prices, q, k, p, level, level')
      /\ Behind(s, p, q[Len(q)])
    <2>1. At(s, q, j)
        BY <1>3
    <2> HIDE DEF q
    <2> QED BY <1>5, <1>6, <1>7, <2>1, <1>4, LinkAfterLinks
<1>9. ASSUME NEW i \in 1 .. Len(q)
      PROVE  IF i < k THEN Behind(s, p, q[i]) ELSE Behind(s, q[i], p)
    <2>1. i < k /\ Len(q) \in 1 .. Len(q)
        BY <1>5, <1>7
    <2>2. i < Len(q) => Behind(s, q[Len(q)], q[i])
        BY <1>5, <2>1 DEF SideShape
    <2>3. q[i] \in Prices /\ q[Len(q)] \in Prices
        BY <1>5, <2>1
    <2>4. i < Len(q) => Behind(s, p, q[i])
        BY <1>5, <1>8, <2>2, <2>3, BehindFacts
    <2>5. i = Len(q) \/ i < Len(q)
        BY <1>5
    <2> QED BY <1>8, <2>1, <2>4, <2>5
<1>10. RanksAt(s, q, k, p)
    BY <1>9 DEF RanksAt
<1> DEFINE K == [L EXCEPT ![s] = InsertAt(q, k, p)]
<1>11. TypeOK' /\ K \in [Sides -> Seq(Prices)] /\ Shape(K, Q)'
    <2>1. /\ best' = IF k = 1 THEN [best EXCEPT ![s] = p] ELSE best
          /\ walk' = NoWalk /\ order' = order
        <3>1. k # 1
            BY <1>5, <1>7
        <3> QED BY <3>1 DEF LinkAfter
    <2>2. q = L[s] /\ At(s, q, j)
        BY <1>3
    <2>3. K = [L EXCEPT ![s] = InsertAt(q, k, p)]
        OBVIOUS
    <2> HIDE DEF q, K
    <2> QED BY <1>4, <1>8, <1>10, <2>1, <2>2, <2>3, LinkShape
<1>12. \A t \in Sides : ~Has(L[t], p)
    BY <1>5, <1>4 DEF Shape, SideShape
<1>13. k \in Nat
    BY <1>5
<1>14. level[p].side = s
    BY <1>3, <1>4
<1>15. PlacedAt(L, Q, s, p, k, K)
    BY <1>2, <1>4, <1>11, <1>12, <1>14, <1>10 DEF PlacedAt
<1> HIDE DEF K
<1>16. p \in Prices /\ K \in [Sides -> Seq(Prices)]
    BY <1>5, <1>11
<1> QED BY <1>13, <1>15, <1>16

LEMMA LinkBeforeShape ==
    ASSUME TypeOK, NEW L \in [Sides -> Seq(Prices)], NEW Q \in [Prices -> Seq(Orders)],
           Shape(L, Q), LinkBefore
    PROVE  \E s \in Sides, p \in Prices, k \in Nat, K \in [Sides -> Seq(Prices)] :
               PlacedAt(L, Q, s, p, k, K)
<1>1. walk # NoWalk /\ ~walk.after
    BY DEF LinkBefore
<1>2. Len(Q[walk.new]) = 1
    BY <1>1, Searching
<1>3. PICK s \in Sides, j \in 1 .. Len(L[level[walk.new].side]) :
          s = level[walk.new].side /\ At(s, L[s], j)
    BY <1>1, Searching
<1>4. PICK p \in Prices : p = walk.new
    BY <1>3 DEF At
<1> DEFINE q == L[s]
<1>5. /\ q \in Seq(Prices) /\ p \in Prices /\ Len(q) \in Nat \ {0} /\ j \in 1 .. Len(q)
      /\ \A i \in 1 .. Len(q) : q[i] \in Prices
      /\ SideShape(s, q) /\ ~Has(q, p)
      /\ ~Behind(s, p, q[j])
      /\ j # 1 => Behind(s, p, q[j - 1])
    BY <1>1, <1>3, <1>4 DEF At, Before
<1>6. Distinct(q)
    BY <1>5, RankedOnce
<1>7. PICK k \in 1 .. Len(q) + 1 : k = j
    BY <1>5
<1>8. \A i \in 1 .. Len(q) : i < k => Behind(s, p, q[i])
    <2>1. ASSUME NEW i \in 1 .. Len(q), i < k
          PROVE  Behind(s, p, q[i])
        <3>1. k # 1 /\ k - 1 \in 1 .. Len(q)
            BY <1>5, <1>7, <2>1
        <3>2. i < k - 1 => Behind(s, q[k - 1], q[i])
            BY <1>5, <3>1 DEF SideShape
        <3>3. q[i] \in Prices /\ q[k - 1] \in Prices /\ Behind(s, p, q[k - 1])
            BY <1>5, <1>7, <3>1
        <3>4. i < k - 1 => Behind(s, p, q[i])
            BY <1>5, <3>2, <3>3, BehindFacts
        <3>5. i = k - 1 \/ i < k - 1
            BY <1>5, <2>1
        <3> QED BY <3>3, <3>4, <3>5
    <2> QED BY <2>1
<1>9. \A i \in 1 .. Len(q) : ~(i < k) => Behind(s, q[i], p)
    <2>1. Behind(s, q[k], p) /\ q[k] \in Prices
        <3>1. p # q[k] /\ q[k] \in Prices
            BY <1>5, <1>7 DEF Has
        <3> QED BY <1>5, <1>7, <3>1, BehindFacts
    <2>2. ASSUME NEW i \in 1 .. Len(q), k < i
          PROVE  Behind(s, q[i], p)
        <3>1. Behind(s, q[i], q[k])
            BY <1>5, <1>7, <2>2 DEF SideShape
        <3> QED BY <1>5, <2>1, <3>1, BehindFacts
    <2>3. \A i \in 1 .. Len(q) : i < k \/ i = k \/ k < i
        BY <1>5
    <2> QED BY <2>1, <2>2, <2>3
<1>10. /\ level' \in Levels /\ SameLevels(level, level')
      /\ LinkedIn(Prices, q, k, p, level, level')
      /\ best' = IF k = 1 THEN [best EXCEPT ![s] = p] ELSE best
    <2>1. At(s, q, k) /\ k \in 1 .. Len(q)
        BY <1>3, <1>5, <1>7
    <2>2. \A i \in 1 .. Len(q) : k # 1 /\ i < k => Behind(s, walk.new, q[i])
        BY <1>8, <1>4
    <2> HIDE DEF q
    <2> QED BY <1>5, <1>6, <2>1, <2>2, <1>4, LinkBeforeLinks
<1>11. RanksAt(s, q, k, p)
    BY <1>8, <1>9 DEF RanksAt
<1> DEFINE K == [L EXCEPT ![s] = InsertAt(q, k, p)]
<1>12. TypeOK' /\ K \in [Sides -> Seq(Prices)] /\ Shape(K, Q)'
    <2>1. walk' = NoWalk /\ order' = order
        BY DEF LinkBefore
    <2>2. q = L[s] /\ At(s, q, j)
        BY <1>3
    <2>3. K = [L EXCEPT ![s] = InsertAt(q, k, p)]
        OBVIOUS
    <2>4. RanksAt(s, q, k, p)
        BY <1>11
    <2> HIDE DEF q, K
    <2> QED BY <1>4, <1>10, <2>1, <2>2, <2>3, <2>4, LinkShape
<1>13. \A t \in Sides : ~Has(L[t], p)
    BY <1>5, <1>4 DEF Shape, SideShape
<1>14. k \in Nat
    BY <1>5
<1>15. level[p].side = s
    BY <1>3, <1>4
<1>16. PlacedAt(L, Q, s, p, k, K)
    BY <1>2, <1>4, <1>12, <1>13, <1>11, <1>15 DEF PlacedAt
<1> HIDE DEF K
<1>17. p \in Prices /\ K \in [Sides -> Seq(Prices)]
    BY <1>5, <1>12
<1> QED BY <1>14, <1>16, <1>17

-----------------------------------------------------------------------------
(* RemoveOrder                                                             *)

\* Order o is the k-th at price p, which is the i-th level of side s.
Rests(L, Q, o, s, p, i, k) ==
    /\ order[o] # NoOrder /\ order[o].price = p /\ order[o].side = s /\ level[p].side = s
    /\ i \in 1 .. Len(L[s]) /\ L[s][i] = p
    /\ k \in 1 .. Len(Q[p]) /\ Q[p][k] = o
    /\ Q[p] \in Seq(Orders) /\ QueueShape(p, Q[p])
    /\ L[s] \in Seq(Prices) /\ SideShape(s, L[s]) /\ Distinct(L[s])

LEMMA RestsSomewhere ==
    ASSUME TypeOK, NEW L \in [Sides -> Seq(Prices)], NEW Q \in [Prices -> Seq(Orders)],
           Shape(L, Q), walk = NoWalk,
           NEW o \in Orders, order[o] # NoOrder
    PROVE  \E s \in Sides, p \in Prices, i \in Nat, k \in Nat : Rests(L, Q, o, s, p, i, k)
<1>1. /\ order[o].price \in Prices /\ order[o].side \in Sides
      /\ order[o].side = level[order[o].price].side
    BY TypeFacts DEF Blocks, OrderRec, Shape, OrdersKnowSides
<1>2. PICK p \in Prices, s \in Sides : p = order[o].price /\ s = order[o].side
    BY <1>1
<1>3. /\ Q[p] \in Seq(Orders) /\ QueueShape(p, Q[p])
      /\ L[s] \in Seq(Prices) /\ SideShape(s, L[s])
    BY DEF Shape
<1>4. Has(Q[p], o)
    BY <1>2, <1>3 DEF QueueShape
<1>5. Has(L[s], p)
    BY <1>1, <1>2, <1>3, NullAssumption DEF SideShape, NoWalk
<1>6. PICK i \in 1 .. Len(L[s]) : L[s][i] = p
    BY <1>5 DEF Has
<1>7. PICK k \in 1 .. Len(Q[p]) : Q[p][k] = o
    BY <1>4 DEF Has
<1>8. i \in Nat /\ k \in Nat
    BY <1>3, LenProperties
<1>9. Distinct(L[s])
    BY <1>3, RankedOnce
<1>10. Rests(L, Q, o, s, p, i, k)
    BY <1>1, <1>2, <1>3, <1>6, <1>7, <1>9 DEF Rests
<1> QED BY <1>8, <1>10

\* Level p is gone, which was the j-th of side s.
LevelOut(s, l, j, p) ==
    /\ level' \in Levels /\ level'[p] = NoLevel
    /\ \A x \in Prices \ {p} : SameLevel(level'[x], level[x])
    /\ Untouched(Prices, l, p, level, level')
    /\ Len(l) # 1 => LinkedOut(Prices, l, j, level, level')
    /\ best' \in [Sides -> Prices \cup {Null}]
    /\ best'[s] = IF Len(l) = 1 THEN Null ELSE IF j = 1 THEN l[2] ELSE l[1]
    /\ \A t \in Sides \ {s} : best'[t] = best[t]

LEMMA RemoveLevelLinks ==
    ASSUME TypeOK, NEW s \in Sides, NEW l \in Seq(Prices), SideShape(s, l), Distinct(l),
           NEW p \in Prices, NEW j \in 1 .. Len(l), l[j] = p, walk = NoWalk,
           RemoveLevel(s, p)
    PROVE  LevelOut(s, l, j, p)
<1> DEFINE n == Len(l)
           b == l[Before(j, n)]
           t == l[After(j, n)]
<1>1. /\ n \in Nat \ {0} /\ j \in 1 .. n /\ 1 \in 1 .. n
      /\ \A i \in 1 .. n : l[i] \in Prices /\ Has(l, l[i])
    <2>1. n \in Nat /\ \A i \in 1 .. n : l[i] \in Prices
        BY LenProperties, ElementOfSeq
    <2> QED BY <2>1 DEF Has
<1>2. Before(j, n) \in 1 .. n /\ After(j, n) \in 1 .. n
    BY <1>1 DEF Before, After
<1>3. /\ level[p].prev = b /\ level[p].next = t /\ b \in Prices /\ t \in Prices
      /\ l # <<>> /\ best[s] = l[1]
    <2>1. l # <<>>
        BY <1>1
    <2> QED BY <1>1, <1>2, <2>1 DEF SideShape, Linked
<1>4. level \in Levels /\ level[p] # NoLevel /\ level[b] # NoLevel /\ level[t] # NoLevel
    <2>1. \A x \in Prices : Has(l, x) => level[x] # NoLevel
        BY Records DEF SideShape
    <2> QED BY <1>1, <1>2, <2>1, TypeFacts
<1>5. \A i, h \in 1 .. n : l[i] = l[h] => i = h
    BY DEF Distinct
<1>6. best \in [Sides -> Prices \cup {Null}]
    BY TypeFacts
<1> HIDE DEF n, b, t
<1>7. CASE n = 1
    <2>1. t = p
        BY <1>1, <1>7 DEF t, After
    <2>2. best' = [best EXCEPT ![s] = Null] /\ level' = [level EXCEPT ![p] = NoLevel]
        BY <1>3, <2>1, Zenon DEF RemoveLevel
    <2>3. /\ level' \in Levels /\ level'[p] = NoLevel
          /\ \A x \in Prices \ {p} : level'[x] = level[x]
        BY <1>4, <2>2 DEF Levels
    <2>4. Untouched(Prices, l, p, level, level')
        BY <2>3 DEF Untouched
    <2>5. \A x \in Prices \ {p} : SameLevel(level'[x], level[x])
        BY <2>3 DEF SameLevel
    <2>6. /\ best' \in [Sides -> Prices \cup {Null}] /\ best'[s] = Null
          /\ \A u \in Sides \ {s} : best'[u] = best[u]
        BY <1>6, <2>2
    <2> QED BY <1>7, <2>3, <2>4, <2>5, <2>6 DEF LevelOut, n
<1>8. CASE n # 1
    <2> DEFINE l1 == [level EXCEPT ![b].next = t]
               c == l1[p].next
               d == l1[p].prev
               l2 == [l1 EXCEPT ![c].prev = d]
               l3 == [l2 EXCEPT ![p] = NoLevel]
    <2>1. t # p /\ b # p
        <3>1. Before(j, n) # j /\ After(j, n) # j
            BY <1>1, <1>8 DEF Before, After
        <3> QED BY <1>1, <1>2, <1>5, <3>1 DEF b, t
    <2>2. /\ best' = IF best[s] = p THEN [best EXCEPT ![s] = l2[p].next] ELSE best
          /\ level' = l3
        BY <1>3, <2>1, Zenon DEF RemoveLevel
    <2> HIDE DEF l3
    <2>3. l1 \in Levels /\ SameLevels(level, l1) /\ NextSet(Prices, level, b, t, l1)
        <3>1. l1 = [level EXCEPT ![b].next = t] /\ t \in Prices \cup {Null}
            BY <1>3
        <3> HIDE DEF l1
        <3> QED BY <1>3, <1>4, <3>1, SetLevelNext
    <2> HIDE DEF l1
    <2>4. c = t /\ d = b
        BY <1>3, <2>1, <2>3 DEF NextSet
    <2> HIDE DEF c, d
    <2>5. l2 \in Levels /\ SameLevels(l1, l2) /\ PrevSet(Prices, l1, c, d, l2)
        <3>1. l2 = [l1 EXCEPT ![c].prev = d] /\ c \in Prices /\ d \in Prices \cup {Null}
            BY <1>3, <2>4
        <3>2. l1[c] # NoLevel
            BY <1>3, <1>4, <2>3, <2>4 DEF SameLevels, SameLevel
        <3> HIDE DEF l2
        <3> QED BY <2>3, <3>1, <3>2, SetLevelPrev
    <2> HIDE DEF l2
    <2>6. /\ level' \in Levels /\ level'[p] = NoLevel
          /\ \A x \in Prices \ {p} : level'[x] = l2[x]
        BY <2>2, <2>5 DEF l3, Levels
    <2>7. \A x \in Prices \ {p} : SameLevel(level'[x], level[x])
        BY <2>3, <2>5, <2>6 DEF SameLevels, SameLevel
    <2>8. LinkedOut(Prices, l, j, level, level')
        <3>1. /\ level'[b].next = t /\ level'[t].prev = b
              /\ \A x \in Prices : x # p /\ x # b => level'[x].next = level[x].next
              /\ \A x \in Prices : x # p /\ x # t => level'[x].prev = level[x].prev
            BY <1>3, <2>1, <2>3, <2>4, <2>5, <2>6 DEF NextSet, PrevSet
        <3> QED BY <3>1 DEF LinkedOut, b, t, n
    <2>9. Untouched(Prices, l, p, level, level')
        BY <2>8, LinkedOutOthers
    <2>10. best' = IF j = 1 THEN [best EXCEPT ![s] = l[2]] ELSE best
        <3>1. best[s] = p <=> j = 1
            BY <1>1, <1>3, <1>5
        <3>2. l2[p].next = t
            BY <1>3, <2>1, <2>3, <2>5 DEF NextSet, PrevSet
        <3>3. j = 1 => t = l[2]
            BY <1>8 DEF t, After
        <3> QED BY <2>2, <3>1, <3>2, <3>3, Zenon
    <2>11. /\ best' \in [Sides -> Prices \cup {Null}]
           /\ best'[s] = IF j = 1 THEN l[2] ELSE l[1]
           /\ \A u \in Sides \ {s} : best'[u] = best[u]
        <3>1. l[2] \in Prices
            BY <1>1, <1>8
        <3> QED BY <1>3, <1>6, <2>10, <3>1
    <2> QED BY <1>8, <2>6, <2>7, <2>8, <2>9, <2>11 DEF LevelOut, n
<1> QED BY <1>7, <1>8

\* A level leaves with its last order.
LEMMA RemoveLastShape ==
    ASSUME TypeOK, NEW L \in [Sides -> Seq(Prices)], NEW Q \in [Prices -> Seq(Orders)],
           Shape(L, Q), NEW o \in Orders, RemoveOrder(o),
           NEW s \in Sides, NEW p \in Prices, NEW i, NEW k, Rests(L, Q, o, s, p, i, k),
           Len(Q[p]) = 1,
           NEW K, K = [L EXCEPT ![s] = RemoveAt(L[s], i)],
           NEW M, M = [Q EXCEPT ![p] = <<>>]
    PROVE  /\ TypeOK'
           /\ K \in [Sides -> Seq(Prices)] /\ M \in [Prices -> Seq(Orders)]
           /\ Shape(K, M)'
<1> DEFINE l == L[s]
           r == RemoveAt(l, i)
<1>1. /\ order[o] # NoOrder /\ order[o].price = p /\ order[o].side = s /\ level[p].side = s
      /\ i \in 1 .. Len(l) /\ l[i] = p /\ k = 1 /\ Q[p][1] = o
      /\ Q[p] \in Seq(Orders) /\ QueueShape(p, Q[p])
      /\ l \in Seq(Prices) /\ SideShape(s, l) /\ Distinct(l)
    BY DEF Rests
<1>2. order[o].prev = o
    BY <1>1 DEF QueueShape, Linked, Before
<1>3. /\ walk = NoWalk /\ walk' = walk
      /\ RemoveLevel(s, p)
      /\ order' = [order EXCEPT ![o] = NoOrder]
    BY <1>1, <1>2, Zenon DEF RemoveOrder
<1> HIDE DEF l
<1>4. LevelOut(s, l, i, p)
    BY <1>1, <1>3, RemoveLevelLinks
<1>5. /\ level' \in Levels /\ level'[p] = NoLevel
      /\ \A x \in Prices \ {p} : SameLevel(level'[x], level[x])
      /\ Untouched(Prices, l, p, level, level')
      /\ best' \in [Sides -> Prices \cup {Null}]
      /\ best'[s] = IF Len(l) = 1 THEN Null ELSE IF i = 1 THEN l[2] ELSE l[1]
      /\ \A t \in Sides \ {s} : best'[t] = best[t]
    BY <1>4 DEF LevelOut
<1>6. Len(l) # 1 => LinkedOut(Prices, l, i, level, level')
    BY <1>4 DEF LevelOut
<1>7. /\ order' \in Blocks /\ order'[o] = NoOrder
      /\ \A x \in Orders \ {o} : order'[x] = order[x]
    BY <1>3, TypeFacts DEF Blocks
<1>8. TypeOK'
    BY <1>3, <1>5, <1>7, TypeFacts DEF TypeOK, Levels, LevelRec, Blocks, OrderRec
<1>9. Removed(Prices, l, i, r)
    BY <1>1, HasRemove
<1>10. Linked(r, level')
    <2>1. CASE Len(l) = 1
        <3>1. Len(r) = 0
            BY <1>9, <2>1 DEF Removed
        <3> HIDE DEF r
        <3> QED BY <3>1 DEF Linked
    <2>2. CASE Len(l) # 1
        <3>1. Linked(l, level)
            BY <1>1 DEF SideShape
        <3> QED BY <1>1, <1>6, <2>2, <3>1, LinkedRemove
    <2> QED BY <2>1, <2>2
<1> HIDE DEF r
<1>11. /\ K \in [Sides -> Seq(Prices)] /\ K[s] = r /\ \A t \in Sides \ {s} : K[t] = L[t]
       /\ M \in [Prices -> Seq(Orders)] /\ M[p] = <<>>
       /\ \A x \in Prices \ {p} : M[x] = Q[x]
    <2>1. r \in Seq(Prices)
        BY <1>9 DEF Removed
    <2>2. K = [L EXCEPT ![s] = r]
        BY DEF r, l
    <2>3. <<>> \in Seq(Orders)
        OBVIOUS
    <2> QED BY <2>1, <2>2, <2>3
<1>12. Null \notin Prices /\ walk.new = Null /\ walk'.new = Null /\ NoLevel.side \notin Sides
    BY <1>3, NullAssumption, Records DEF NoWalk
<1>13. SideShape(s, K[s])'
    <2>1. \A x \in Prices : Has(r, x) <=> level'[x].side = s /\ x # walk'.new
        <3>1. \A x \in Prices : Has(l, x) <=> level[x].side = s /\ x # walk.new
            BY <1>1 DEF SideShape
        <3>2. \A x \in Prices : Has(r, x) <=> Has(l, x) /\ x # p
            BY <1>1, <1>9 DEF Removed
        <3>3. \A x \in Prices : level'[x].side = s <=> level[x].side = s /\ x # p
            BY <1>5, <1>12 DEF SameLevel
        <3> QED BY <1>12, <3>1, <3>2, <3>3
    <2>2. ASSUME NEW g \in 1 .. Len(r), NEW h \in 1 .. Len(r), g < h
          PROVE  Behind(s, r[h], r[g])
        <3>1. Len(l) \in Nat
            BY <1>1, LenProperties
        <3>2. PICK a \in 1 .. Len(l), b \in 1 .. Len(l) : a < b /\ r[g] = l[a] /\ r[h] = l[b]
            <4> DEFINE a == IF g < i THEN g ELSE g + 1
                       b == IF h < i THEN h ELSE h + 1
            <4>1. Len(r) = Len(l) - 1
                BY <1>9 DEF Removed
            <4>2. a \in 1 .. Len(l) /\ b \in 1 .. Len(l) /\ a < b
                BY <1>1, <2>2, <3>1, <4>1
            <4>3. r[g] = l[a] /\ r[h] = l[b]
                BY <1>9, <4>1 DEF Removed
            <4> HIDE DEF a, b
            <4> QED BY <4>2, <4>3
        <3> QED BY <1>1, <3>2 DEF SideShape
    <2>3. best'[s] = IF r = <<>> THEN Null ELSE r[1]
        BY <1>5, <1>9 DEF Removed
    <2> QED BY <1>10, <1>11, <2>1, <2>2, <2>3 DEF SideShape
<1>14. ASSUME NEW t \in Sides, t # s PROVE SideShape(t, K[t])'
    <2>1. K[t] = L[t] /\ SideShape(t, L[t]) /\ L[t] \in Seq(Prices)
        BY <1>11, <1>14 DEF Shape
    <2>2. \A x \in Prices : Has(L[t], x) => x # p /\ ~Has(l, x)
        BY <1>1, <1>14, <2>1 DEF SideShape
    <2>3. \A x \in Prices : Has(L[t], x) => /\ level'[x].next = level[x].next
                                            /\ level'[x].prev = level[x].prev
        BY <1>5, <2>2 DEF Untouched
    <2>4. \A x \in Prices : level'[x].side = t <=> level[x].side = t
        <3>1. level'[p].side # t /\ level[p].side # t
            BY <1>1, <1>5, <1>12, <1>14
        <3>2. \A x \in Prices \ {p} : level'[x].side = level[x].side
            BY <1>5 DEF SameLevel
        <3> QED BY <3>1, <3>2
    <2>5. best'[t] = best[t]
        BY <1>5, <1>14
    <2> QED BY <1>12, <2>1, <2>3, <2>4, <2>5, SideStays
<1>15. \A x \in Orders : order[x] # NoOrder /\ order[x].price = p <=> x = o
    <2>1. \A x \in Orders : Has(Q[p], x) <=> x = o
        BY <1>1 DEF Has
    <2> QED BY <1>1, <2>1 DEF QueueShape
<1>16. QueueShape(p, M[p])'
    <2>1. /\ \A x \in Orders : ~(order'[x] # NoOrder /\ order'[x].price = p)
          /\ level'[p] = NoLevel
        BY <1>5, <1>7, <1>15
    <2>2. (\A x : ~Has(M[p], x)) /\ Distinct(M[p]) /\ Linked(M[p], order') /\ M[p] = <<>>
        BY <1>11 DEF Has, Distinct, Linked
    <2> QED BY <2>1, <2>2 DEF QueueShape
<1>17. ASSUME NEW x \in Prices, x # p PROVE QueueShape(x, M[x])'
    <2>1. M[x] = Q[x] /\ QueueShape(x, Q[x]) /\ Q[x] \in Seq(Orders)
        BY <1>11, <1>17 DEF Shape
    <2>2. \A y \in Orders : order'[y] # NoOrder /\ order'[y].price = x
                                <=> order[y] # NoOrder /\ order[y].price = x
        BY <1>1, <1>7, <1>17
    <2>3. \A y \in Orders : Has(Q[x], y) => y # o
        BY <1>1, <1>17, <2>1 DEF QueueShape
    <2>4. \A y \in Orders : Has(Q[x], y) => /\ order'[y].next = order[y].next
                                            /\ order'[y].prev = order[y].prev
        BY <1>7, <2>3
    <2>5. SameLevel(level'[x], level[x])
        BY <1>5, <1>17
    <2> QED BY <2>1, <2>2, <2>4, <2>5, QueueStays
<1>18. OrdersKnowSides'
    <2>1. \A x \in Orders : order[x] # NoOrder => order[x].side = level[order[x].price].side
        BY DEF Shape, OrdersKnowSides
    <2>2. ASSUME NEW x \in Orders, order'[x] # NoOrder
          PROVE  order'[x].side = level'[order'[x].price].side
        <3>1. order'[x] = order[x] /\ order[x] # NoOrder /\ order[x].price # p
            BY <1>7, <1>15, <2>2
        <3>2. order[x].price \in Prices
            BY <3>1, TypeFacts DEF Blocks, OrderRec
        <3>3. level'[order[x].price].side = level[order[x].price].side
            BY <1>5, <3>1, <3>2 DEF SameLevel
        <3> QED BY <2>1, <3>1, <3>3
    <2> QED BY <2>2 DEF OrdersKnowSides
<1>19. WalkShape(K, M)'
    BY <1>3 DEF WalkShape
<1> QED BY <1>8, <1>11, <1>13, <1>14, <1>16, <1>17, <1>18, <1>19 DEF Shape

\* Order o is gone, which was the k-th of q at price p.
OrderOut(q, k, o, p) ==
    /\ order' \in Blocks /\ order'[o] = NoOrder
    /\ \A x \in Orders \ {o} : SameOrder(order'[x], order[x])
    /\ LinkedOut(Orders, q, k, order, order')
    /\ level' \in Levels
    /\ \A x \in Prices : /\ level'[x].side = level[x].side
                         /\ level'[x].next = level[x].next
                         /\ level'[x].prev = level[x].prev
                         /\ level'[x] = NoLevel <=> level[x] = NoLevel
    /\ \A x \in Prices \ {p} : level'[x] = level[x]
    /\ level'[p].first = IF k = 1 THEN q[2] ELSE q[1]

LEMMA RemoveOrderLinks ==
    ASSUME TypeOK, NEW o \in Orders, NEW p \in Prices, NEW q \in Seq(Orders),
           QueueShape(p, q), NEW k \in 1 .. Len(q), q[k] = o, order[o].price = p,
           Len(q) # 1, RemoveOrder(o)
    PROVE  OrderOut(q, k, o, p)
<1> DEFINE n == Len(q)
           b == q[Before(k, n)]
           t == q[After(k, n)]
           l1 == [order EXCEPT ![b].next = t]
           c == l1[o].next
           d == l1[o].prev
           l2 == [l1 EXCEPT ![c].prev = d]
           l3 == [l2 EXCEPT ![o] = NoOrder]
           f == IF level[p].first = o THEN l2[o].next ELSE level[p].first
           m == [level EXCEPT ![p].first = f]
<1>1. /\ n \in Nat \ {0} /\ n # 1 /\ k \in 1 .. n
      /\ \A i \in 1 .. n : q[i] \in Orders /\ Has(q, q[i])
    <2>1. n \in Nat /\ \A i \in 1 .. n : q[i] \in Orders
        BY LenProperties, ElementOfSeq
    <2> QED BY <2>1 DEF Has
<1>2. /\ Before(k, n) \in 1 .. n /\ After(k, n) \in 1 .. n
      /\ Before(k, n) # k /\ After(k, n) # k
    <2> HIDE DEF n
    <2> QED BY <1>1 DEF Before, After
<1>3. \A i, h \in 1 .. n : q[i] = q[h] => i = h
    BY DEF QueueShape, Distinct
<1>4. /\ order[o].prev = b /\ order[o].next = t /\ b \in Orders /\ t \in Orders
      /\ b # o /\ t # o
    BY <1>1, <1>2, <1>3 DEF QueueShape, Linked
<1>5. /\ order \in Blocks /\ order[o] # NoOrder /\ order[b] # NoOrder /\ order[t] # NoOrder
    BY <1>1, <1>2, TypeFacts DEF QueueShape
<1>6. /\ q # <<>> /\ level[p].first = q[1] /\ level[p] # NoLevel
    <2>1. q # <<>>
        BY <1>1
    <2> QED BY <2>1 DEF QueueShape
<1>7. order' = l3 /\ level' = m
    <2>1. order[o].prev # o
        BY <1>4
    <2> HIDE DEF b, t
    <2>2. /\ order' = [[[order EXCEPT ![order[o].prev].next = order[o].next]
                         EXCEPT ![l1[o].next].prev = l1[o].prev]
                         EXCEPT ![o] = NoOrder]
          /\ level' = [level EXCEPT ![p].first = IF @ = o THEN l2[o].next ELSE @]
        BY <1>4, <2>1, Zenon DEF RemoveOrder
    <2> QED BY <1>4, <2>2, Zenon
<1> HIDE DEF n, b, t, l3, m
<1>8. l1 \in Blocks /\ SameOrders(order, l1) /\ NextSet(Orders, order, b, t, l1)
    <2>1. l1 = [order EXCEPT ![b].next = t]
        OBVIOUS
    <2> HIDE DEF l1
    <2> QED BY <1>4, <1>5, <2>1, SetOrderNext
<1> HIDE DEF l1
<1>9. c = t /\ d = b
    BY <1>4, <1>8 DEF NextSet
<1> HIDE DEF c, d
<1>10. l2 \in Blocks /\ SameOrders(l1, l2) /\ PrevSet(Orders, l1, c, d, l2)
    <2>1. l2 = [l1 EXCEPT ![c].prev = d] /\ c \in Orders /\ d \in Orders
        BY <1>4, <1>9
    <2>2. l1[c] # NoOrder
        BY <1>4, <1>5, <1>8, <1>9 DEF SameOrders, SameOrder
    <2> HIDE DEF l2
    <2> QED BY <1>8, <2>1, <2>2, SetOrderPrev
<1>11. l2[o].next = t
    BY <1>4, <1>8, <1>10 DEF NextSet, PrevSet
<1> HIDE DEF l2
<1>12. /\ order' \in Blocks /\ order'[o] = NoOrder
       /\ \A x \in Orders \ {o} : order'[x] = l2[x]
    BY <1>7, <1>10 DEF l3, Blocks
<1>13. \A x \in Orders \ {o} : SameOrder(order'[x], order[x])
    BY <1>8, <1>10, <1>12 DEF SameOrders, SameOrder
<1>14. LinkedOut(Orders, q, k, order, order')
    <2>1. /\ order'[b].next = t /\ order'[t].prev = b
          /\ \A x \in Orders : x # o /\ x # b => order'[x].next = order[x].next
          /\ \A x \in Orders : x # o /\ x # t => order'[x].prev = order[x].prev
        BY <1>4, <1>8, <1>9, <1>10, <1>12 DEF NextSet, PrevSet
    <2> QED BY <2>1 DEF LinkedOut, b, t, n
<1>15. f = IF k = 1 THEN q[2] ELSE q[1]
    <2>1. level[p].first = o <=> k = 1
        BY <1>1, <1>3, <1>6 DEF n
    <2>2. k = 1 => t = q[2]
        BY <1>1 DEF t, After
    <2> QED BY <1>6, <1>11, <2>1, <2>2
<1>16. f \in Orders
    <2>1. q[2] \in Orders /\ q[1] \in Orders
        BY <1>1
    <2> QED BY <1>15, <2>1
<1> HIDE DEF f
<1>17. level \in Levels /\ level[p] \in LevelRec
    BY <1>6, TypeFacts DEF Levels
<1> DEFINE r == [level[p] EXCEPT !.first = f]
<1>18. /\ r \in LevelRec /\ r.side = level[p].side /\ r.first = f
       /\ r.next = level[p].next /\ r.prev = level[p].prev
    BY <1>16, <1>17 DEF LevelRec
<1>19. level' = [level EXCEPT ![p] = r]
    BY <1>7 DEF m
<1> HIDE DEF r
<1>20. /\ level' \in Levels /\ level'[p] = r
       /\ \A x \in Prices \ {p} : level'[x] = level[x]
    BY <1>17, <1>18, <1>19 DEF Levels
<1>21. \A x \in Prices : /\ level'[x].side = level[x].side
                         /\ level'[x].next = level[x].next
                         /\ level'[x].prev = level[x].prev
                         /\ level'[x] = NoLevel <=> level[x] = NoLevel
    BY <1>6, <1>18, <1>20, Records
<1>22. level'[p].first = IF k = 1 THEN q[2] ELSE q[1]
    BY <1>15, <1>18, <1>20
<1> QED BY <1>12, <1>13, <1>14, <1>20, <1>21, <1>22 DEF OrderOut

LEMMA RemoveOneShape ==
    ASSUME TypeOK, NEW L \in [Sides -> Seq(Prices)], NEW Q \in [Prices -> Seq(Orders)],
           Shape(L, Q), NEW o \in Orders, RemoveOrder(o),
           NEW s \in Sides, NEW p \in Prices, NEW i, NEW k, Rests(L, Q, o, s, p, i, k),
           Len(Q[p]) # 1,
           NEW M, M = [Q EXCEPT ![p] = RemoveAt(Q[p], k)]
    PROVE  /\ TypeOK'
           /\ M \in [Prices -> Seq(Orders)]
           /\ Shape(L, M)'
<1> DEFINE q == Q[p]
           r == RemoveAt(q, k)
<1>1. /\ order[o] # NoOrder /\ order[o].price = p
      /\ k \in 1 .. Len(q) /\ q[k] = o
      /\ q \in Seq(Orders) /\ QueueShape(p, q) /\ Distinct(q)
    BY DEF Rests, QueueShape
<1>2. Len(q) # 1
    OBVIOUS
<1> HIDE DEF q
<1>3. OrderOut(q, k, o, p)
    BY <1>1, <1>2, RemoveOrderLinks
<1>4. /\ order' \in Blocks /\ order'[o] = NoOrder
      /\ \A x \in Orders \ {o} : SameOrder(order'[x], order[x])
      /\ LinkedOut(Orders, q, k, order, order')
      /\ level' \in Levels
      /\ \A x \in Prices : /\ level'[x].side = level[x].side
                           /\ level'[x].next = level[x].next
                           /\ level'[x].prev = level[x].prev
                           /\ level'[x] = NoLevel <=> level[x] = NoLevel
      /\ \A x \in Prices \ {p} : level'[x] = level[x]
      /\ level'[p].first = IF k = 1 THEN q[2] ELSE q[1]
    BY <1>3 DEF OrderOut
<1>5. walk = NoWalk /\ walk' = walk /\ best' = best
    <2>1. order[o].prev # o
        <3>1. Before(k, Len(q)) \in 1 .. Len(q) /\ Before(k, Len(q)) # k
            <4> DEFINE n == Len(q)
            <4>1. n \in Nat /\ k \in 1 .. n /\ n # 1
                BY <1>1, <1>2, LenProperties
            <4> HIDE DEF n
            <4>2. Before(k, n) \in 1 .. n /\ Before(k, n) # k
                BY <4>1 DEF Before
            <4> QED BY <4>2 DEF n
        <3> QED BY <1>1, <3>1 DEF QueueShape, Linked, Distinct
    <2> QED BY <2>1, Zenon DEF RemoveOrder
<1>6. TypeOK'
    BY <1>4, <1>5, TypeFacts DEF TypeOK, Levels, LevelRec, Blocks, OrderRec
<1>7. Removed(Orders, q, k, r)
    BY <1>1, HasRemove
<1>8. Linked(r, order') /\ Distinct(r)
    <2>1. Linked(q, order)
        BY <1>1 DEF QueueShape
    <2> QED BY <1>1, <1>2, <1>4, <2>1, LinkedRemove
<1> HIDE DEF r
<1>9. /\ M \in [Prices -> Seq(Orders)] /\ M[p] = r
      /\ \A x \in Prices \ {p} : M[x] = Q[x]
    <2>1. r \in Seq(Orders)
        BY <1>7 DEF Removed
    <2>2. M = [Q EXCEPT ![p] = r]
        BY DEF r, q
    <2> QED BY <2>1, <2>2
<1>10. QueueShape(p, M[p])'
    <2>1. \A x \in Orders : Has(r, x) <=> order'[x] # NoOrder /\ order'[x].price = p
        <3>1. \A x \in Orders : Has(r, x) <=> Has(q, x) /\ x # o
            BY <1>1, <1>7 DEF Removed
        <3>2. \A x \in Orders : Has(q, x) <=> order[x] # NoOrder /\ order[x].price = p
            BY <1>1 DEF QueueShape
        <3>3. /\ order'[o] = NoOrder
              /\ \A x \in Orders \ {o} : SameOrder(order'[x], order[x])
            BY <1>4
        <3> QED BY <3>1, <3>2, <3>3 DEF SameOrder
    <2>2. r # <<>> /\ q # <<>>
        <3>1. Len(q) # 0
            BY <1>1, LenProperties
        <3> QED BY <1>1, <1>2, <1>7, <3>1, EmptySeq DEF Removed
    <2>3. level'[p] # NoLevel /\ level'[p].first = r[1]
        BY <1>1, <1>2, <1>4, <1>7, <2>2 DEF QueueShape, Removed
    <2> QED BY <1>8, <1>9, <2>1, <2>2, <2>3 DEF QueueShape
<1>11. ASSUME NEW x \in Prices, x # p PROVE QueueShape(x, M[x])'
    <2>1. M[x] = Q[x] /\ QueueShape(x, Q[x]) /\ Q[x] \in Seq(Orders)
        BY <1>9, <1>11 DEF Shape
    <2>2. \A y \in Orders : order'[y] # NoOrder /\ order'[y].price = x
                                <=> order[y] # NoOrder /\ order[y].price = x
        BY <1>1, <1>4, <1>11 DEF SameOrder
    <2>3. ASSUME NEW y \in Orders, Has(Q[x], y)
          PROVE  order'[y].next = order[y].next /\ order'[y].prev = order[y].prev
        <3>1. y # o /\ ~Has(q, y)
            BY <1>1, <1>11, <2>1, <2>3 DEF QueueShape
        <3>2. Untouched(Orders, q, o, order, order')
            BY <1>1, <1>4, LinkedOutOthers
        <3> QED BY <3>1, <3>2 DEF Untouched
    <2>4. level'[x] = level[x]
        BY <1>4, <1>11
    <2> QED BY <2>1, <2>2, <2>3, <2>4, QueueStays
<1>12. ASSUME NEW t \in Sides PROVE SideShape(t, L[t])'
    <2>1. SideShape(t, L[t]) /\ L[t] \in Seq(Prices)
        BY DEF Shape
    <2>2. /\ walk'.new = walk.new /\ best'[t] = best[t]
          /\ \A x \in Prices : /\ level'[x].side = level[x].side
                               /\ level'[x].next = level[x].next
                               /\ level'[x].prev = level[x].prev
        BY <1>4, <1>5
    <2> QED BY <2>1, <2>2, SideStays
<1>13. OrdersKnowSides'
    <2>1. \A x \in Orders : order[x] # NoOrder => order[x].price \in Prices
        BY TypeFacts DEF Blocks, OrderRec
    <2>2. /\ order'[o] = NoOrder
          /\ \A x \in Orders \ {o} : SameOrder(order'[x], order[x])
          /\ \A x \in Prices : level'[x].side = level[x].side
        BY <1>4
    <2>3. \A x \in Orders : order[x] # NoOrder => order[x].side = level[order[x].price].side
        BY DEF Shape, OrdersKnowSides
    <2>4. ASSUME NEW x \in Orders, order'[x] # NoOrder
          PROVE  order'[x].side = level'[order'[x].price].side
        <3>1. /\ order'[x].side = order[x].side /\ order'[x].price = order[x].price
              /\ order[x] # NoOrder
            BY <2>2, <2>4 DEF SameOrder
        <3> QED BY <2>1, <2>2, <2>3, <3>1
    <2> QED BY <2>4 DEF OrdersKnowSides
<1>14. WalkShape(L, M)'
    BY <1>5 DEF WalkShape
<1> QED BY <1>6, <1>9, <1>10, <1>11, <1>12, <1>13, <1>14 DEF Shape

-----------------------------------------------------------------------------
(* The lists are a price-time book.                                        *)

\* The book whose levels and queues are these.
LevelAt(p, Q) == [price |-> p, orders |-> Q[p]]
SideOf(q, Q)  == [i \in 1 .. Len(q) |-> LevelAt(q[i], Q)]
View(L, Q)    == [s \in Sides |-> SideOf(L[s], Q)]

BookLevel == [price : Prices, orders : Seq(Orders)]

\* The book that is met on the rings, and that Abstract is about.
Book == [s \in Sides |-> Met(s)]

\* From book v to book w, a level was put in or taken out, or one got another queue.
LevelPut(v, w, s, k, l) == w = [v EXCEPT ![s] = InsertAt(@, k, l)]
LevelTaken(v, w, s, i)  == w = [v EXCEPT ![s] = RemoveAt(@, i)]
QueueSet(v, w, s, i, e) == w = [v EXCEPT ![s][i].orders = e]

LEMMA SideOfIsSeq ==
    ASSUME NEW q \in Seq(Prices), NEW Q \in [Prices -> Seq(Orders)]
    PROVE  /\ SideOf(q, Q) \in Seq(BookLevel) /\ Len(SideOf(q, Q)) = Len(q)
           /\ DOMAIN SideOf(q, Q) = 1 .. Len(q)
           /\ \A i \in 1 .. Len(q) : SideOf(q, Q)[i] = LevelAt(q[i], Q)
<1> DEFINE v == SideOf(q, Q)
           n == Len(q)
<1>1. n \in Nat /\ \A i \in 1 .. n : q[i] \in Prices
    BY LenProperties, ElementOfSeq
<1>2. \A i \in 1 .. n : LevelAt(q[i], Q) \in BookLevel
    BY <1>1 DEF LevelAt, BookLevel
<1>3. v = [i \in 1 .. n |-> LevelAt(q[i], Q)]
    BY DEF SideOf
<1> HIDE DEF v, n
<1>4. v \in [1 .. n -> BookLevel]
    BY <1>2, <1>3
<1>5. v \in Seq(BookLevel)
    BY <1>1, <1>4, SeqDef
<1>6. Len(v) \in Nat /\ DOMAIN v = 1 .. Len(v)
    BY <1>5, LenProperties
<1>7. Len(v) = n
    BY <1>1, <1>4, <1>6
<1> QED BY <1>3, <1>5, <1>6, <1>7 DEF v, n

\* Following the pointers, one meets the levels and the orders that are there.
MeetsView == \A L \in [Sides -> Seq(Prices)], Q \in [Prices -> Seq(Orders)] :
                 TypeOK /\ Shape(L, Q) => Book = View(L, Q)

LEMMA MetIs == MeetsView
<1> SUFFICES ASSUME NEW L \in [Sides -> Seq(Prices)], NEW Q \in [Prices -> Seq(Orders)],
                    TypeOK, Shape(L, Q)
             PROVE  Book = View(L, Q)
    BY DEF MeetsView
<1>1. ASSUME NEW s \in Sides PROVE Met(s) = SideOf(L[s], Q)
    <2> DEFINE q == L[s]
    <2>1. /\ q \in Seq(Prices) /\ SideShape(s, q) /\ Distinct(q) /\ Linked(q, level)
          /\ best[s] = IF q = <<>> THEN Null ELSE q[1]
        BY RankedOnce DEF Shape, SideShape
    <2>2. Len(q) \in Nat /\ \A i \in 1 .. Len(q) : q[i] \in Prices
        BY <2>1, LenProperties, ElementOfSeq
    <2>3. \A i \in 1 .. Len(q) : level[q[i]] # NoLevel
        BY <2>1, <2>2, Records DEF SideShape, Has
    <2> HIDE DEF q
    <2>4. /\ DOMAIN NextLevel = Prices \cup {Null} /\ NextLevel[Null] = Null
          /\ \A i \in 1 .. Len(q) : NextLevel[q[i]] = q[After(i, Len(q))]
        BY <2>1, <2>2, <2>3, NullAssumption DEF NextLevel, Linked
    <2>5. Ring(best[s], NextLevel) = q
        <3> DEFINE next == NextLevel
                   start == best[s]
        <3>1. /\ IsFiniteSet(Prices) /\ Null \notin Prices
              /\ start = IF q = <<>> THEN Null ELSE q[1]
            BY <2>1, FiniteAssumption, NullAssumption
        <3> HIDE DEF next, start
        <3>2. /\ DOMAIN next = Prices \cup {Null} /\ next[Null] = Null
              /\ \A i \in 1 .. Len(q) : next[q[i]] = q[After(i, Len(q))]
            BY <2>4 DEF next
        <3>3. Ring(start, next) = q
            BY <2>1, <3>1, <3>2, RingIs
        <3> QED BY <3>3 DEF start, next
    <2>6. ASSUME NEW p \in Prices, level[p] # NoLevel
          PROVE  Ring(level[p].first, NextOrder) = Q[p]
        <3> DEFINE r == Q[p]
                   next == NextOrder
                   start == level[p].first
        <3>1. /\ r \in Seq(Orders) /\ Distinct(r) /\ Linked(r, order) /\ r # <<>>
              /\ start = IF r = <<>> THEN Null ELSE r[1]
              /\ \A o \in Orders : Has(r, o) => order[o] # NoOrder
            BY <2>6 DEF Shape, QueueShape
        <3>2. Len(r) \in Nat /\ \A i \in 1 .. Len(r) : r[i] \in Orders
            BY <3>1, LenProperties, ElementOfSeq
        <3>3. \A i \in 1 .. Len(r) : order[r[i]] # NoOrder
            BY <3>1, <3>2 DEF Has
        <3>4. IsFiniteSet(Orders) /\ Null \notin Orders
            BY FiniteAssumption, NullAssumption
        <3> HIDE DEF r, start
        <3>5. /\ DOMAIN next = Orders \cup {Null} /\ next[Null] = Null
              /\ \A i \in 1 .. Len(r) : next[r[i]] = r[After(i, Len(r))]
            BY <3>1, <3>2, <3>3, <3>4 DEF NextOrder, Linked
        <3> HIDE DEF next
        <3>6. Ring(start, next) = r
            BY <3>1, <3>4, <3>5, RingIs
        <3> QED BY <3>6 DEF start, next, r
    <2>7. Met(s) = [i \in DOMAIN q |->
                       [price  |-> q[i],
                        orders |-> IF level[q[i]] = NoLevel
                                   THEN <<>>
                                   ELSE Ring(level[q[i]].first, NextOrder)]]
        BY <2>5 DEF Met
    <2>8. DOMAIN q = 1 .. Len(q)
        BY <2>1, LenProperties
    <2>9. \A i \in 1 .. Len(q) :
              [price  |-> q[i], orders |-> IF level[q[i]] = NoLevel
                                           THEN <<>>
                                           ELSE Ring(level[q[i]].first, NextOrder)]
                = LevelAt(q[i], Q)
        BY <2>2, <2>3, <2>6 DEF LevelAt
    <2>10. Met(s) = SideOf(q, Q)
        BY <2>7, <2>8, <2>9 DEF SideOf
    <2> QED BY <2>10 DEF q
<1> QED BY <1>1 DEF Book, View

LEMMA MetNext == MeetsView'
BY MetIs, PTL

\* The queue of a price that is no level is not part of the book.
LEMMA ViewSame ==
    ASSUME NEW L \in [Sides -> Seq(Prices)], NEW Q \in [Prices -> Seq(Orders)],
           NEW p \in Prices, NEW e \in Seq(Orders), \A t \in Sides : ~Has(L[t], p)
    PROVE  View(L, [Q EXCEPT ![p] = e]) = View(L, Q)
<1> DEFINE M == [Q EXCEPT ![p] = e]
<1>1. M \in [Prices -> Seq(Orders)] /\ \A x \in Prices : x # p => M[x] = Q[x]
    OBVIOUS
<1> HIDE DEF M
<1>2. ASSUME NEW t \in Sides PROVE SideOf(L[t], M) = SideOf(L[t], Q)
    <2> DEFINE q == L[t]
    <2>1. q \in Seq(Prices) /\ ~Has(q, p)
        OBVIOUS
    <2> HIDE DEF q
    <2>2. \A i \in 1 .. Len(q) : q[i] \in Prices /\ q[i] # p
        BY <2>1, LenProperties, ElementOfSeq DEF Has
    <2>3. \A i \in 1 .. Len(q) : LevelAt(q[i], M) = LevelAt(q[i], Q)
        BY <1>1, <2>2 DEF LevelAt
    <2>4. SideOf(q, M) = SideOf(q, Q)
        BY <2>3 DEF SideOf
    <2> QED BY <2>4 DEF q
<1> QED BY <1>2 DEF M, View

\* A level was put in as the k-th.
LEMMA ViewInsert ==
    ASSUME NEW L \in [Sides -> Seq(Prices)], NEW Q \in [Prices -> Seq(Orders)],
           NEW s \in Sides, NEW p \in Prices, NEW k \in 1 .. Len(L[s]) + 1,
           NEW K, K = [L EXCEPT ![s] = InsertAt(L[s], k, p)]
    PROVE  LevelPut(View(L, Q), View(K, Q), s, k, LevelAt(p, Q))
<1> DEFINE q == L[s]
           r == InsertAt(q, k, p)
           v == SideOf(q, Q)
           w == InsertAt(v, k, LevelAt(p, Q))
<1>1. q \in Seq(Prices) /\ Len(q) \in Nat /\ k \in 1 .. Len(q) + 1
    BY LenProperties
<1>2. Inserted(Prices, q, k, p, r)
    BY <1>1, HasInsert
<1>3. r \in Seq(Prices) /\ Len(r) = Len(q) + 1
    BY <1>2 DEF Inserted
<1>4. K[s] = r /\ \A t \in Sides \ {s} : K[t] = L[t]
    BY <1>3
<1> HIDE DEF q, r
<1>5. /\ v \in Seq(BookLevel) /\ Len(v) = Len(q)
      /\ \A i \in 1 .. Len(q) : v[i] = LevelAt(q[i], Q)
    BY <1>1, SideOfIsSeq
<1>6. LevelAt(p, Q) \in BookLevel
    BY DEF LevelAt, BookLevel
<1> HIDE DEF v
<1>7. Inserted(BookLevel, v, k, LevelAt(p, Q), w)
    BY <1>1, <1>5, <1>6, HasInsert
<1>8. /\ SideOf(r, Q) \in Seq(BookLevel) /\ Len(SideOf(r, Q)) = Len(r)
      /\ \A i \in 1 .. Len(r) : SideOf(r, Q)[i] = LevelAt(r[i], Q)
    BY <1>3, SideOfIsSeq
<1> HIDE DEF w
<1>9. ASSUME NEW i \in 1 .. Len(q) + 1 PROVE SideOf(r, Q)[i] = w[i]
    <2>1. SideOf(r, Q)[i] = LevelAt(r[i], Q)
        BY <1>3, <1>8
    <2>2. /\ r[i] = IF i < k THEN q[i] ELSE IF i = k THEN p ELSE q[i - 1]
          /\ w[i] = IF i < k THEN v[i] ELSE IF i = k THEN LevelAt(p, Q) ELSE v[i - 1]
        BY <1>2, <1>5, <1>7 DEF Inserted
    <2>3. /\ i < k => i \in 1 .. Len(q)
          /\ ~(i < k) /\ i # k => i - 1 \in 1 .. Len(q)
        BY <1>1
    <2> QED BY <1>5, <2>1, <2>2, <2>3
<1>10. SideOf(r, Q) = w
    <2>1. w \in Seq(BookLevel) /\ Len(w) = Len(q) + 1
        BY <1>5, <1>7 DEF Inserted
    <2> QED BY <1>3, <1>8, <1>9, <2>1, SeqEqual
<1>11. View(K, Q) = [t \in Sides |-> IF t = s THEN w ELSE SideOf(L[t], Q)]
    BY <1>4, <1>10 DEF View
<1> QED BY <1>11 DEF LevelPut, View, w, v, q

\* The i-th level left.
LEMMA ViewRemove ==
    ASSUME NEW L \in [Sides -> Seq(Prices)], NEW Q \in [Prices -> Seq(Orders)],
           NEW s \in Sides, NEW i \in 1 .. Len(L[s]), Distinct(L[s]),
           NEW K, K = [L EXCEPT ![s] = RemoveAt(L[s], i)]
    PROVE  LevelTaken(View(L, Q), View(K, Q), s, i)
<1> DEFINE q == L[s]
           r == RemoveAt(q, i)
           v == SideOf(q, Q)
           w == RemoveAt(v, i)
<1>1. q \in Seq(Prices) /\ Len(q) \in Nat /\ i \in 1 .. Len(q) /\ Distinct(q)
    BY LenProperties
<1>2. Removed(Prices, q, i, r)
    BY <1>1, HasRemove
<1>3. r \in Seq(Prices) /\ Len(r) = Len(q) - 1
    BY <1>2 DEF Removed
<1>4. K[s] = r /\ \A t \in Sides \ {s} : K[t] = L[t]
    BY <1>3
<1> HIDE DEF q, r
<1>5. /\ v \in Seq(BookLevel) /\ Len(v) = Len(q) /\ DOMAIN v = 1 .. Len(q)
      /\ \A h \in 1 .. Len(q) : v[h] = LevelAt(q[h], Q)
    BY <1>1, SideOfIsSeq
<1> HIDE DEF v
<1>6. /\ w \in Seq(BookLevel) /\ Len(w) = Len(q) - 1
      /\ \A h \in 1 .. Len(q) - 1 : w[h] = v[IF h < i THEN h ELSE h + 1]
    <2>1. i \in DOMAIN v
        BY <1>1, <1>5
    <2> QED BY <1>5, <2>1, Removal
<1>7. /\ SideOf(r, Q) \in Seq(BookLevel) /\ Len(SideOf(r, Q)) = Len(r)
      /\ \A h \in 1 .. Len(r) : SideOf(r, Q)[h] = LevelAt(r[h], Q)
    BY <1>3, SideOfIsSeq
<1> HIDE DEF w
<1>8. ASSUME NEW h \in 1 .. Len(q) - 1 PROVE SideOf(r, Q)[h] = w[h]
    <2>1. SideOf(r, Q)[h] = LevelAt(r[h], Q)
        BY <1>3, <1>7
    <2>2. r[h] = q[IF h < i THEN h ELSE h + 1]
        BY <1>2 DEF Removed
    <2>3. (IF h < i THEN h ELSE h + 1) \in 1 .. Len(q)
        BY <1>1
    <2> QED BY <1>5, <1>6, <2>1, <2>2, <2>3
<1>9. SideOf(r, Q) = w
    BY <1>3, <1>6, <1>7, <1>8, SeqEqual
<1>10. View(K, Q) = [t \in Sides |-> IF t = s THEN w ELSE SideOf(L[t], Q)]
    BY <1>4, <1>9 DEF View
<1> QED BY <1>10 DEF LevelTaken, View, w, v, q

\* The queue of the i-th level changed.
LEMMA ViewSet ==
    ASSUME NEW L \in [Sides -> Seq(Prices)], NEW Q \in [Prices -> Seq(Orders)],
           NEW s \in Sides, NEW p \in Prices, NEW i \in 1 .. Len(L[s]), L[s][i] = p,
           Distinct(L[s]), \A t \in Sides : t # s => ~Has(L[t], p),
           NEW e \in Seq(Orders), NEW M, M = [Q EXCEPT ![p] = e]
    PROVE  QueueSet(View(L, Q), View(L, M), s, i, e)
<1> DEFINE q == L[s]
           v == SideOf(q, Q)
<1>1. q \in Seq(Prices) /\ i \in 1 .. Len(q) /\ q[i] = p /\ Distinct(q)
    OBVIOUS
<1>2. M \in [Prices -> Seq(Orders)] /\ M[p] = e /\ \A x \in Prices : x # p => M[x] = Q[x]
    OBVIOUS
<1>3. \A h \in 1 .. Len(q) : q[h] \in Prices /\ (q[h] = p <=> h = i)
    <2>1. \A h \in 1 .. Len(q) : q[h] \in Prices
        BY <1>1, LenProperties, ElementOfSeq
    <2> QED BY <1>1, <2>1 DEF Distinct
<1> HIDE DEF q
<1>4. /\ v = [h \in 1 .. Len(q) |-> LevelAt(q[h], Q)]
      /\ SideOf(q, M) = [h \in 1 .. Len(q) |-> LevelAt(q[h], M)]
    BY DEF SideOf
<1>5. ASSUME NEW h \in 1 .. Len(q)
      PROVE  LevelAt(q[h], M) = IF h = i THEN [LevelAt(q[i], Q) EXCEPT !.orders = e]
                                         ELSE LevelAt(q[h], Q)
    <2>1. CASE h = i
        <3>1. LevelAt(q[h], M) = [price |-> p, orders |-> e]
            BY <1>1, <1>2, <2>1 DEF LevelAt
        <3>2. LevelAt(q[i], Q) = [price |-> p, orders |-> Q[p]]
            BY <1>1 DEF LevelAt
        <3>3. [[price |-> p, orders |-> Q[p]] EXCEPT !.orders = e] = [price |-> p, orders |-> e]
            OBVIOUS
        <3> QED BY <2>1, <3>1, <3>2, <3>3, Zenon
    <2>2. CASE h # i
        <3>1. M[q[h]] = Q[q[h]]
            BY <1>2, <1>3, <2>2
        <3> QED BY <2>2, <3>1 DEF LevelAt
    <2> QED BY <2>1, <2>2
<1>6. SideOf(q, M) = [v EXCEPT ![i].orders = e]
    <2> DEFINE n == Len(q)
               f == [h \in 1 .. n |-> LevelAt(q[h], Q)]
               l == [LevelAt(q[i], Q) EXCEPT !.orders = e]
    <2>1. SideOf(q, M) = [h \in 1 .. n |-> IF h = i THEN l ELSE LevelAt(q[h], Q)]
        BY <1>4, <1>5, Zenon
    <2>2. [f EXCEPT ![i] = l] = [h \in 1 .. n |-> IF h = i THEN l ELSE LevelAt(q[h], Q)]
        <3> HIDE DEF l
        <3> QED OBVIOUS
    <2>3. f[i] = LevelAt(q[i], Q)
        BY <1>1, Zenon
    <2>4. [f EXCEPT ![i].orders = e] = [f EXCEPT ![i] = [f[i] EXCEPT !.orders = e]]
        BY Zenon
    <2>5. [f EXCEPT ![i].orders = e] = [f EXCEPT ![i] = l]
        <3> HIDE DEF f
        <3> QED BY <2>3, <2>4, Zenon
    <2> QED BY <1>4, <2>1, <2>2, <2>5, Zenon
<1>7. ASSUME NEW t \in Sides, t # s PROVE SideOf(L[t], M) = SideOf(L[t], Q)
    <2>1. L[t] \in Seq(Prices) /\ ~Has(L[t], p)
        BY <1>7
    <2>2. \A h \in 1 .. Len(L[t]) : L[t][h] \in Prices /\ L[t][h] # p
        BY <2>1, LenProperties, ElementOfSeq DEF Has
    <2>3. \A h \in 1 .. Len(L[t]) : LevelAt(L[t][h], M) = LevelAt(L[t][h], Q)
        BY <1>2, <2>2 DEF LevelAt
    <2> QED BY <2>3 DEF SideOf
<1>8. View(L, M) = [t \in Sides |-> IF t = s THEN [v EXCEPT ![i].orders = e]
                                             ELSE SideOf(L[t], Q)]
    BY <1>6, <1>7 DEF View, q
<1>9. View(L, Q)[s] = v
    BY DEF View, v, q
<1> HIDE DEF v
<1>10. View(L, Q) = [t \in Sides |-> SideOf(L[t], Q)]
    BY DEF View
<1>11. [View(L, Q) EXCEPT ![s][i].orders = e]
          = [View(L, Q) EXCEPT ![s] = [v EXCEPT ![i].orders = e]]
    BY <1>9, Zenon
<1>12. [View(L, Q) EXCEPT ![s] = [v EXCEPT ![i].orders = e]]
          = [t \in Sides |-> IF t = s THEN [v EXCEPT ![i].orders = e] ELSE SideOf(L[t], Q)]
    <2> DEFINE u == [v EXCEPT ![i].orders = e]
    <2> HIDE DEF u
    <2>1. [View(L, Q) EXCEPT ![s] = u] = [t \in Sides |-> IF t = s THEN u ELSE SideOf(L[t], Q)]
        BY <1>10
    <2> QED BY <2>1 DEF u
<1> QED BY <1>8, <1>11, <1>12, Zenon DEF QueueSet

\* Order o is in the queue of a level.
InBook(L, Q, o) == \E t \in Sides : \E i \in 1 .. Len(L[t]) : Has(Q[L[t][i]], o)

\* Side v of a book has the levels q with their orders.
Shows(v, q, Q) ==
    /\ Len(v) = Len(q) /\ DOMAIN v = 1 .. Len(q)
    /\ \A i \in 1 .. Len(q) : v[i].price = q[i] /\ v[i].orders = Q[q[i]]

LEMMA ViewFacts ==
    ASSUME NEW L \in [Sides -> Seq(Prices)], NEW Q \in [Prices -> Seq(Orders)],
           NEW s \in Sides
    PROVE  Shows(View(L, Q)[s], L[s], Q)
<1>1. L[s] \in Seq(Prices) /\ View(L, Q)[s] = SideOf(L[s], Q)
    BY DEF View
<1> DEFINE q == L[s]
           v == SideOf(q, Q)
<1> HIDE DEF q, v
<1>2. /\ Len(v) = Len(q) /\ DOMAIN v = 1 .. Len(q)
      /\ \A i \in 1 .. Len(q) : v[i] = LevelAt(q[i], Q)
    BY <1>1, SideOfIsSeq DEF q, v
<1>3. \A i \in 1 .. Len(q) : v[i].price = q[i] /\ v[i].orders = Q[q[i]]
    BY <1>2 DEF LevelAt
<1>4. Shows(v, q, Q)
    BY <1>2, <1>3 DEF Shows
<1> QED BY <1>1, <1>4, Zenon DEF q, v

LEMMA NotResting ==
    ASSUME NEW L \in [Sides -> Seq(Prices)], NEW Q \in [Prices -> Seq(Orders)],
           Book = View(L, Q), NEW o, ~InBook(L, Q, o)
    PROVE  ~Abstract!Resting(o)
<1> SUFFICES ASSUME Abstract!Resting(o) PROVE FALSE
    OBVIOUS
<1>1. PICK t \in Sides : \E i \in DOMAIN Book[t] : Abstract!In(o, Book[t][i].orders)
    BY DEF Abstract!Resting, Abstract!Sides, Sides, Book
<1>2. PICK i \in DOMAIN Book[t] : Abstract!In(o, Book[t][i].orders)
    BY <1>1
<1>3. i \in 1 .. Len(L[t]) /\ Book[t][i].orders = Q[L[t][i]]
    <2>1. Shows(Book[t], L[t], Q)
        BY ViewFacts
    <2> QED BY <1>2, <2>1 DEF Shows
<1>4. L[t][i] \in Prices
    <2>1. L[t] \in Seq(Prices)
        OBVIOUS
    <2> QED BY <1>3, <2>1, ElementOfSeq
<1>5. Q[L[t][i]] \in Seq(Orders)
    BY <1>4
<1>6. Has(Q[L[t][i]], o)
    BY <1>2, <1>3, <1>5, LenProperties DEF Abstract!In, Has
<1> QED BY <1>3, <1>6 DEF InBook

LEMMA JoinsNew ==
    ASSUME NEW L \in [Sides -> Seq(Prices)], NEW Q \in [Prices -> Seq(Orders)],
           NEW v, v = View(L, Q), Book = v, NEW w, Book' = w,
           NEW o \in Orders, NEW s \in Sides, NEW p \in Prices,
           NEW k \in 1 .. Len(L[s]) + 1, RanksAt(s, L[s], k, p), ~InBook(L, Q, o),
           NEW l, l = [price |-> p, orders |-> <<o>>], LevelPut(v, w, s, k, l)
    PROVE  Abstract!Next
<1>1. ~Abstract!Resting(o)
    BY NotResting
<1>2. Len(v[s]) = Len(L[s]) /\ DOMAIN v[s] = 1 .. Len(L[s])
      /\ \A i \in 1 .. Len(L[s]) : v[s][i].price = L[s][i]
    <2>1. Shows(v[s], L[s], Q)
        BY ViewFacts
    <2> QED BY <2>1 DEF Shows
<1>3. \A i \in 1 .. Len(L[s]) : IF i < k THEN Abstract!Better(s, L[s][i], p)
                                         ELSE Abstract!Better(s, p, L[s][i])
    <2>1. \A i \in 1 .. Len(L[s]) : L[s][i] \in Nat
        <3>1. L[s] \in Seq(Prices)
            OBVIOUS
        <3>2. \A i \in 1 .. Len(L[s]) : L[s][i] \in Prices
            BY <3>1, ElementOfSeq
        <3> QED BY <3>2, PricesAssumption
    <2>2. p \in Nat
        BY PricesAssumption
    <2>3. \A a, b \in Nat : Behind(s, a, b) <=> Abstract!Better(s, b, a)
        BY DEF Behind, Abstract!Better, Sides
    <2> QED BY <2>1, <2>2, <2>3 DEF RanksAt
<1>4. InsertAt(v[s], k, [price |-> p, orders |-> <<o>>])
         = Abstract!InsertAt(v[s], k, [price |-> p, orders |-> <<o>>])
    BY DEF InsertAt, Abstract!InsertAt
<1>5. /\ \A j \in DOMAIN Book[s] :
             IF j < k THEN Abstract!Better(s, Book[s][j].price, p)
                      ELSE Abstract!Better(s, p, Book[s][j].price)
      /\ Book' = [Book EXCEPT ![s] = Abstract!InsertAt(@, k, [price |-> p, orders |-> <<o>>])]
      /\ k \in 1 .. Len(Book[s]) + 1
    BY <1>2, <1>3, <1>4 DEF LevelPut
<1>6. Abstract!JoinNew(o, s, p)
    BY <1>5, Zenon DEF Abstract!JoinNew, Book
<1> QED BY <1>1, <1>6 DEF Abstract!Next, Abstract!Join, Abstract!Sides, Sides

LEMMA JoinsLast ==
    ASSUME NEW L \in [Sides -> Seq(Prices)], NEW Q \in [Prices -> Seq(Orders)],
           NEW v, v = View(L, Q), Book = v, NEW w, Book' = w,
           NEW o \in Orders, NEW s \in Sides, NEW p \in Prices,
           NEW i \in 1 .. Len(L[s]), L[s][i] = p, ~InBook(L, Q, o),
           NEW e, e = Append(Q[p], o), QueueSet(v, w, s, i, e)
    PROVE  Abstract!Next
<1>1. ~Abstract!Resting(o)
    BY NotResting
<1>2. DOMAIN v[s] = 1 .. Len(L[s]) /\ v[s][i].price = p /\ v[s][i].orders = Q[p]
    <2>1. Shows(v[s], L[s], Q)
        BY ViewFacts
    <2> QED BY <2>1 DEF Shows
<1>3. /\ i \in DOMAIN Book[s] /\ Book[s][i].price = p
      /\ Book' = [Book EXCEPT ![s][i].orders = Append(@, o)]
    BY <1>2, Zenon DEF QueueSet
<1>4. Abstract!JoinLast(o, s, p)
    BY <1>3, Zenon DEF Abstract!JoinLast, Book
<1> QED BY <1>1, <1>4 DEF Abstract!Next, Abstract!Join, Abstract!Sides, Sides

LEMMA Leaves ==
    ASSUME NEW L \in [Sides -> Seq(Prices)], NEW Q \in [Prices -> Seq(Orders)],
           NEW v, v = View(L, Q), Book = v, NEW w, Book' = w,
           NEW o \in Orders, NEW s \in Sides, NEW p \in Prices,
           NEW i \in 1 .. Len(L[s]), L[s][i] = p,
           NEW k \in 1 .. Len(Q[p]), Q[p][k] = o,
           NEW e, e = RemoveAt(Q[p], k),
           IF Len(Q[p]) = 1 THEN LevelTaken(v, w, s, i) ELSE QueueSet(v, w, s, i, e)
    PROVE  Abstract!Next
<1>1. DOMAIN v[s] = 1 .. Len(L[s]) /\ v[s][i].orders = Q[p]
    <2>1. Shows(v[s], L[s], Q)
        BY ViewFacts
    <2> QED BY <2>1 DEF Shows
<1>2. DOMAIN Q[p] = 1 .. Len(Q[p])
    BY LenProperties
<1>3. \A q, j : Abstract!RemoveAt(q, j) = RemoveAt(q, j)
    BY DEF RemoveAt, Abstract!RemoveAt
<1>4. /\ i \in DOMAIN Book[s] /\ k \in DOMAIN Book[s][i].orders
      /\ Book[s][i].orders[k] = o
    BY <1>1, <1>2
<1>5. Book' = IF Len(Book[s][i].orders) = 1
              THEN [Book EXCEPT ![s] = Abstract!RemoveAt(@, i)]
              ELSE [Book EXCEPT ![s][i].orders = Abstract!RemoveAt(@, k)]
    <2>1. CASE Len(Q[p]) = 1
        BY <1>1, <1>3, <2>1, Zenon DEF LevelTaken
    <2>2. CASE Len(Q[p]) # 1
        BY <1>1, <1>3, <2>2, Zenon DEF QueueSet
    <2> QED BY <2>1, <2>2
<1>6. s \in Abstract!Sides
    BY DEF Abstract!Sides, Sides
<1> DEFINE Out(t, h, j) ==
               /\ Book[t][h].orders[j] = o
               /\ Book' = IF Len(Book[t][h].orders) = 1
                          THEN [Book EXCEPT ![t] = Abstract!RemoveAt(@, h)]
                          ELSE [Book EXCEPT ![t][h].orders = Abstract!RemoveAt(@, j)]
<1>7. \E t \in Abstract!Sides : \E h \in DOMAIN Book[t] :
          \E j \in DOMAIN Book[t][h].orders : Out(t, h, j)
    <2>1. Out(s, i, k)
        BY <1>4, <1>5
    <2> HIDE DEF Out
    <2> QED BY <1>4, <1>6, <2>1
<1>8. Abstract!Leave(o)
    BY <1>7, Zenon DEF Abstract!Leave, Book
<1> QED BY <1>8 DEF Abstract!Next

-----------------------------------------------------------------------------
(* Every step leads from one such pair of sequences to another, and the    *)
(* book makes a step of its own or none.                                   *)

\* The pair that is reached.
Leads(K, M) ==
    /\ TypeOK'
    /\ K \in [Sides -> Seq(Prices)] /\ M \in [Prices -> Seq(Orders)]
    /\ Shape(K, M)'

BookMoves == Abstract!Next \/ Book' = Book

LEMMA BookAfter ==
    ASSUME NEW K, NEW M, Leads(K, M)
    PROVE  Book' = View(K, M)
BY MetNext DEF MeetsView, Leads

LEMMA BookBefore ==
    ASSUME TypeOK, NEW L \in [Sides -> Seq(Prices)], NEW Q \in [Prices -> Seq(Orders)],
           Shape(L, Q)
    PROVE  Book = View(L, Q)
BY MetIs DEF MeetsView

\* A block that is not in use is in no queue.
LEMMA NewToBook ==
    ASSUME NEW L \in [Sides -> Seq(Prices)], NEW Q \in [Prices -> Seq(Orders)],
           Shape(L, Q), NEW o \in Orders, order[o] = NoOrder
    PROVE  ~InBook(L, Q, o)
<1>1. \A p \in Prices : ~Has(Q[p], o)
    BY DEF Shape, QueueShape
<1>2. \A t \in Sides : \A i \in 1 .. Len(L[t]) : L[t][i] \in Prices
    <2>1. \A t \in Sides : L[t] \in Seq(Prices)
        OBVIOUS
    <2> QED BY <2>1, ElementOfSeq
<1> QED BY <1>1, <1>2 DEF InBook

\* A price that has no level is on neither side, and one that has is on one.
LEMMA OnOneSide ==
    ASSUME NEW L \in [Sides -> Seq(Prices)], NEW Q \in [Prices -> Seq(Orders)],
           Shape(L, Q), NEW p \in Prices
    PROVE  /\ level[p] = NoLevel => \A t \in Sides : ~Has(L[t], p)
           /\ \A s, t \in Sides : Has(L[s], p) /\ t # s => ~Has(L[t], p)
BY Records DEF Shape, SideShape

LEMMA AppendLeads ==
    ASSUME TypeOK, NEW L \in [Sides -> Seq(Prices)], NEW Q \in [Prices -> Seq(Orders)],
           Shape(L, Q),
           NEW o \in Orders, NEW s \in Sides, NEW p \in Prices, AppendOrder(o, s, p)
    PROVE  \E K, M : Leads(K, M) /\ BookMoves
<1> DEFINE e == Append(Q[p], o)
           M == [Q EXCEPT ![p] = e]
           v == View(L, Q)
           w == View(L, M)
<1>1. e \in Seq(Orders)
    BY AppendProperties
<1>2. Leads(L, M) /\ Has(L[s], p)
    <2> HIDE DEF M
    <2>1. TypeOK' /\ M \in [Prices -> Seq(Orders)] /\ Shape(L, M)' /\ Has(L[s], p)
        BY AppendShape DEF M
    <2> QED BY <2>1 DEF Leads
<1>3. PICK i \in 1 .. Len(L[s]) : L[s][i] = p
    BY <1>2 DEF Has
<1>4. Distinct(L[s]) /\ \A t \in Sides : t # s => ~Has(L[t], p)
    BY <1>2, OnOneSide, RankedOnce DEF Shape
<1>5. QueueSet(v, w, s, i, e)
    <2>1. M = [Q EXCEPT ![p] = e]
        OBVIOUS
    <2> HIDE DEF M, e
    <2> QED BY <1>1, <1>3, <1>4, <2>1, ViewSet
<1>6. Book = v /\ Book' = w
    BY <1>2, BookBefore, BookAfter
<1>7. ~InBook(L, Q, o)
    BY NewToBook DEF AppendOrder
<1>8. Abstract!Next
    <2>1. e = Append(Q[p], o) /\ v = View(L, Q)
        OBVIOUS
    <2> HIDE DEF e, v, w
    <2> QED BY <1>3, <1>5, <1>6, <1>7, <2>1, JoinsLast
<1> HIDE DEF M
<1> QED BY <1>2, <1>8 DEF BookMoves

LEMMA CreateLeads ==
    ASSUME TypeOK, NEW L \in [Sides -> Seq(Prices)], NEW Q \in [Prices -> Seq(Orders)],
           Shape(L, Q),
           NEW o \in Orders, NEW s \in Sides, NEW p \in Prices, CreateLevel(o, s, p)
    PROVE  \E K, M : Leads(K, M) /\ BookMoves
<1> DEFINE M == [Q EXCEPT ![p] = <<o>>]
           K == [L EXCEPT ![s] = <<p>>]
<1>1. \A t \in Sides : ~Has(L[t], p)
    BY OnOneSide DEF CreateLevel
<1>2. <<o>> \in Seq(Orders)
    OBVIOUS
<1>3. View(L, M) = View(L, Q)
    BY <1>1, <1>2, ViewSame
<1>4. CASE best[s] = Null
    <2> DEFINE v == View(L, Q)
               w == View(K, M)
               l == LevelAt(p, M)
    <2>1. Leads(K, M) /\ L[s] = <<>>
        <3> HIDE DEF K, M
        <3>1. /\ TypeOK'
              /\ K \in [Sides -> Seq(Prices)] /\ M \in [Prices -> Seq(Orders)]
              /\ Shape(K, M)' /\ L[s] = <<>>
            BY <1>4, CreateFirstShape DEF K, M
        <3> QED BY <3>1 DEF Leads
    <2>2. PICK k \in 1 .. Len(L[s]) + 1 : k = 1
        BY <2>1
    <2>3. <<p>> = InsertAt(L[s], k, p)
        <3> DEFINE r == InsertAt(L[s], k, p)
        <3>1. L[s] \in Seq(Prices) /\ Len(L[s]) = 0
            BY <2>1
        <3>2. Inserted(Prices, L[s], k, p, r)
            BY <3>1, HasInsert
        <3> HIDE DEF r
        <3>3. r \in Seq(Prices) /\ Len(r) = 1 /\ r[1] = p
            BY <2>2, <3>1, <3>2 DEF Inserted
        <3>4. r = <<p>>
            BY <3>3
        <3> QED BY <3>4 DEF r
    <2>4. LevelPut(View(L, M), w, s, k, l)
        <3>1. K = [L EXCEPT ![s] = InsertAt(L[s], k, p)] /\ M \in [Prices -> Seq(Orders)]
            BY <1>2, <2>3
        <3> HIDE DEF K, M
        <3> QED BY <3>1, ViewInsert
    <2>5. l = [price |-> p, orders |-> <<o>>]
        BY DEF LevelAt
    <2>6. Book = v /\ Book' = w
        BY <2>1, BookBefore, BookAfter
    <2>7. ~InBook(L, Q, o)
        BY NewToBook DEF CreateLevel
    <2>8. RanksAt(s, L[s], k, p)
        BY <2>1 DEF RanksAt
    <2>9. Abstract!Next
        <3>1. v = View(L, Q) /\ LevelPut(v, w, s, k, l)
            BY <1>3, <2>4
        <3> HIDE DEF v, w, l
        <3> QED BY <2>5, <2>6, <2>7, <2>8, <3>1, JoinsNew
    <2> HIDE DEF K, M
    <2> QED BY <2>1, <2>9 DEF BookMoves
<1>5. CASE best[s] # Null
    <2>1. Leads(L, M)
        <3> HIDE DEF M
        <3>1. TypeOK' /\ M \in [Prices -> Seq(Orders)] /\ Shape(L, M)'
            BY <1>5, CreateNextShape DEF M
        <3> QED BY <3>1 DEF Leads
    <2>2. Book' = View(L, M) /\ Book = View(L, Q)
        BY <2>1, BookBefore, BookAfter
    <2> HIDE DEF M
    <2> QED BY <1>3, <2>1, <2>2 DEF BookMoves
<1> QED BY <1>4, <1>5

\* A level under way is not in the book until it is linked in.
LEMMA LinkLeads ==
    ASSUME TypeOK, NEW L \in [Sides -> Seq(Prices)], NEW Q \in [Prices -> Seq(Orders)],
           Shape(L, Q), LinkAfter \/ LinkBefore
    PROVE  \E K, M : Leads(K, M) /\ BookMoves
<1>1. PICK s \in Sides, p \in Prices, n \in Nat, K \in [Sides -> Seq(Prices)] :
          PlacedAt(L, Q, s, p, n, K)
    BY LinkAfterShape, LinkBeforeShape
<1>2. /\ n \in 1 .. Len(L[s]) + 1
      /\ K = [L EXCEPT ![s] = InsertAt(L[s], n, p)]
      /\ RanksAt(s, L[s], n, p)
      /\ \A t \in Sides : ~Has(L[t], p)
      /\ Len(Q[p]) = 1
      /\ Leads(K, Q)
    BY <1>1 DEF PlacedAt, Leads
<1>3. PICK k \in 1 .. Len(L[s]) + 1 : k = n
    BY <1>2
<1>4. PICK o \in Orders : Q[p] = <<o>>
    <2>1. Q[p] \in Seq(Orders)
        OBVIOUS
    <2>2. Q[p][1] \in Orders
        <3>1. 1 \in 1 .. Len(Q[p])
            BY <1>2
        <3> QED BY <2>1, <3>1, ElementOfSeq
    <2>3. Q[p] = <<Q[p][1]>>
        BY <1>2, <2>1
    <2> QED BY <2>2, <2>3
<1>5. ~InBook(L, Q, o)
    <2>1. \A x \in Prices : Has(Q[x], o) => order[o].price = x
        BY DEF Shape, QueueShape
    <2>2. Has(Q[p], o)
        BY <1>4, Single
    <2>3. ASSUME NEW t \in Sides, NEW i \in 1 .. Len(L[t]), Has(Q[L[t][i]], o)
          PROVE  FALSE
        <3>1. L[t] \in Seq(Prices)
            OBVIOUS
        <3>2. L[t][i] \in Prices
            BY <3>1, ElementOfSeq
        <3>3. L[t][i] = p
            BY <2>1, <2>2, <2>3, <3>2
        <3> QED BY <1>2, <3>3 DEF Has
    <2> QED BY <2>3 DEF InBook
<1> DEFINE v == View(L, Q)
           w == View(K, Q)
           l == LevelAt(p, Q)
<1>6. LevelPut(v, w, s, k, l)
    <2>1. K = [L EXCEPT ![s] = InsertAt(L[s], k, p)]
        BY <1>2, <1>3
    <2> QED BY <2>1, ViewInsert
<1>7. Book = v /\ Book' = w
    BY <1>2, BookBefore, BookAfter
<1>8. v = View(L, Q) /\ l = [price |-> p, orders |-> <<o>>]
    BY <1>4 DEF LevelAt
<1> HIDE DEF v, w, l
<1>9. Abstract!Next
    BY <1>2, <1>3, <1>5, <1>6, <1>7, <1>8, JoinsNew
<1> QED BY <1>2, <1>9 DEF BookMoves

LEMMA RemoveLeads ==
    ASSUME TypeOK, NEW L \in [Sides -> Seq(Prices)], NEW Q \in [Prices -> Seq(Orders)],
           Shape(L, Q), NEW o \in Orders, RemoveOrder(o)
    PROVE  \E K, M : Leads(K, M) /\ BookMoves
<1>1. walk = NoWalk /\ order[o] # NoOrder
    BY DEF RemoveOrder
<1>2. PICK s \in Sides, p \in Prices, i \in Nat, k \in Nat : Rests(L, Q, o, s, p, i, k)
    BY <1>1, RestsSomewhere
<1>3. /\ i \in 1 .. Len(L[s]) /\ L[s][i] = p /\ Distinct(L[s]) /\ L[s] \in Seq(Prices)
      /\ k \in 1 .. Len(Q[p]) /\ Q[p][k] = o /\ Q[p] \in Seq(Orders) /\ Distinct(Q[p])
    BY <1>2 DEF Rests, QueueShape
<1>4. \A t \in Sides : t # s => ~Has(L[t], p)
    <2>1. Has(L[s], p)
        BY <1>3 DEF Has
    <2> QED BY <2>1, OnOneSide
<1> DEFINE v == View(L, Q)
<1>5. CASE Len(Q[p]) = 1
    <2> DEFINE r == RemoveAt(L[s], i)
               K == [L EXCEPT ![s] = r]
               M == [Q EXCEPT ![p] = <<>>]
               w == View(K, M)
    <2>1. Leads(K, M)
        <3> HIDE DEF K, M
        <3>1. /\ TypeOK'
              /\ K \in [Sides -> Seq(Prices)] /\ M \in [Prices -> Seq(Orders)]
              /\ Shape(K, M)'
            BY <1>2, <1>5, RemoveLastShape DEF K, M
        <3> QED BY <3>1 DEF Leads
    <2>2. Removed(Prices, L[s], i, r)
        BY <1>3, HasRemove
    <2>3. K \in [Sides -> Seq(Prices)] /\ \A t \in Sides : ~Has(K[t], p)
        <3>1. r \in Seq(Prices) /\ ~Has(r, p)
            BY <1>3, <2>2 DEF Removed
        <3> HIDE DEF r
        <3> QED BY <1>4, <3>1
    <2>4. w = View(K, Q)
        <3> HIDE DEF K
        <3>1. <<>> \in Seq(Orders)
            OBVIOUS
        <3> QED BY <2>3, <3>1, ViewSame
    <2>5. LevelTaken(v, View(K, Q), s, i)
        <3>1. K = [L EXCEPT ![s] = RemoveAt(L[s], i)]
            OBVIOUS
        <3> HIDE DEF K
        <3> QED BY <1>3, <3>1, ViewRemove
    <2>6. Book = v /\ Book' = w
        BY <2>1, BookBefore, BookAfter
    <2>7. v = View(L, Q) /\ LevelTaken(v, w, s, i)
        BY <2>4, <2>5
    <2> HIDE DEF v, w
    <2>8. Abstract!Next
        BY <1>3, <1>5, <2>6, <2>7, Leaves
    <2> HIDE DEF K, M
    <2> QED BY <2>1, <2>8 DEF BookMoves
<1>6. CASE Len(Q[p]) # 1
    <2> DEFINE e == RemoveAt(Q[p], k)
               M == [Q EXCEPT ![p] = e]
               w == View(L, M)
    <2>1. Leads(L, M)
        <3> HIDE DEF M
        <3>1. TypeOK' /\ M \in [Prices -> Seq(Orders)] /\ Shape(L, M)'
            BY <1>2, <1>6, RemoveOneShape DEF M
        <3> QED BY <3>1 DEF Leads
    <2>2. e \in Seq(Orders)
        <3>1. Removed(Orders, Q[p], k, e)
            BY <1>3, HasRemove
        <3> QED BY <3>1 DEF Removed
    <2>3. QueueSet(v, w, s, i, e)
        <3>1. M = [Q EXCEPT ![p] = e]
            OBVIOUS
        <3> HIDE DEF M, e
        <3> QED BY <1>3, <1>4, <2>2, <3>1, ViewSet
    <2>4. Book = v /\ Book' = w
        BY <2>1, BookBefore, BookAfter
    <2>5. v = View(L, Q) /\ e = RemoveAt(Q[p], k)
        OBVIOUS
    <2> HIDE DEF v, w, e
    <2>6. Abstract!Next
        BY <1>3, <1>6, <2>3, <2>4, <2>5, Leaves
    <2> HIDE DEF M
    <2> QED BY <2>1, <2>6 DEF BookMoves
<1> QED BY <1>5, <1>6

LEMMA StepLeads ==
    ASSUME TypeOK, NEW L \in [Sides -> Seq(Prices)], NEW Q \in [Prices -> Seq(Orders)],
           Shape(L, Q), [Next]_vars
    PROVE  \E K, M : Leads(K, M) /\ BookMoves
<1>1. ASSUME NEW o \in Orders, NEW s \in Sides, NEW p \in Prices,
             AppendOrder(o, s, p) \/ CreateLevel(o, s, p)
      PROVE  \E K, M : Leads(K, M) /\ BookMoves
    BY <1>1, AppendLeads, CreateLeads
<1>2. ASSUME WalkOn \/ UNCHANGED vars
      PROVE  \E K, M : Leads(K, M) /\ BookMoves
    <2>1. TypeOK' /\ Shape(L, Q)'
        <3>1. CASE WalkOn
            BY <3>1, WalkOnShape
        <3>2. CASE UNCHANGED vars
            BY <3>2 DEF vars, TypeOK, Shape, SideShape, QueueShape, OrdersKnowSides, WalkShape
        <3> QED BY <1>2, <3>1, <3>2
    <2>2. Leads(L, Q)
        BY <2>1 DEF Leads
    <2>3. Book = View(L, Q) /\ Book' = View(L, Q)
        BY <2>2, BookBefore, BookAfter
    <2> QED BY <2>2, <2>3 DEF BookMoves
<1>3. ASSUME LinkAfter \/ LinkBefore
      PROVE  \E K, M : Leads(K, M) /\ BookMoves
    BY <1>3, LinkLeads
<1>4. ASSUME NEW o \in Orders, RemoveOrder(o)
      PROVE  \E K, M : Leads(K, M) /\ BookMoves
    BY <1>4, RemoveLeads
<1> QED BY <1>1, <1>2, <1>3, <1>4 DEF Next, Placing

-----------------------------------------------------------------------------
(* The invariant holds.                                                    *)

LEMMA InitShape ==
    Init => /\ TypeOK
            /\ Shape([s \in Sides |-> <<>>], [p \in Prices |-> <<>>])
<1> SUFFICES ASSUME Init
             PROVE  TypeOK /\ Shape([s \in Sides |-> <<>>], [p \in Prices |-> <<>>])
    OBVIOUS
<1> DEFINE L == [s \in Sides |-> <<>>]
           Q == [p \in Prices |-> <<>>]
<1>1. TypeOK
    BY DEF Init, TypeOK
<1>2. \A x : ~Has(<<>>, x)
    BY DEF Has
<1>3. ASSUME NEW s \in Sides PROVE SideShape(s, L[s])
    <2>1. L[s] = <<>> /\ best[s] = Null /\ \A p \in Prices : level[p].side # s
        BY Records DEF Init
    <2> HIDE DEF L
    <2> QED BY <1>2, <2>1 DEF SideShape, Linked
<1>4. ASSUME NEW p \in Prices PROVE QueueShape(p, Q[p])
    <2>1. Q[p] = <<>> /\ level[p] = NoLevel /\ \A o \in Orders : order[o] = NoOrder
        BY DEF Init
    <2> HIDE DEF Q
    <2> QED BY <1>2, <2>1 DEF QueueShape, Linked, Distinct
<1>5. OrdersKnowSides
    BY DEF Init, OrdersKnowSides
<1> HIDE DEF L, Q
<1>6. WalkShape(L, Q)
    BY DEF Init, WalkShape
<1>7. Shape(L, Q)
    BY <1>3, <1>4, <1>5, <1>6 DEF Shape
<1> QED BY <1>1, <1>7 DEF L, Q

LEMMA InitIInv == Init => IInv
<1> DEFINE L == [s \in Sides |-> <<>>]
           Q == [p \in Prices |-> <<>>]
<1>1. L \in [Sides -> Seq(Prices)] /\ Q \in [Prices -> Seq(Orders)]
    OBVIOUS
<1>2. Init => TypeOK /\ Shape(L, Q)
    BY InitShape
<1> HIDE DEF L, Q
<1> QED BY <1>1, <1>2 DEF IInv

LEMMA StepIInv == IInv /\ [Next]_vars => IInv'
<1> SUFFICES ASSUME IInv, [Next]_vars PROVE IInv'
    OBVIOUS
<1>1. TypeOK
    BY DEF IInv
<1>2. PICK L \in [Sides -> Seq(Prices)], Q \in [Prices -> Seq(Orders)] : Shape(L, Q)
    BY DEF IInv
<1>3. PICK K, M : Leads(K, M)
    BY <1>1, <1>2, StepLeads
<1> QED BY <1>3 DEF IInv, Leads

LEMMA Invariant == Spec => []IInv
BY InitIInv, StepIInv, PTL DEF Spec

\* The pointers lead to what they should: levels to levels, blocks to blocks in use.
THEOREM TypeCorrect == Spec => []TypeOK
<1>1. IInv => TypeOK
    BY DEF IInv
<1> QED BY <1>1, Invariant, PTL

\* Followed backwards the lists are the same lists: a back pointer undoes a forward
\* one, and neither leads to a removed block or to the other side.
THEOREM BackPointersHold == Spec => []BackPointers
<1>1. IInv => BackPointers
    <2> SUFFICES ASSUME IInv PROVE BackPointers
        OBVIOUS
    <2>1. PICK L \in [Sides -> Seq(Prices)], Q \in [Prices -> Seq(Orders)] : Shape(L, Q)
        BY DEF IInv
    <2>2. TypeOK
        BY DEF IInv
    <2>3. ASSUME NEW S, NEW q \in Seq(S), NEW node, Linked(q, node), NEW x, Has(q, x)
          PROVE  node[x].next \in S /\ Has(q, node[x].next) /\ node[node[x].next].prev = x
        <3> DEFINE n == Len(q)
        <3>1. PICK i \in 1 .. n : q[i] = x
            BY <2>3 DEF Has
        <3>2. n \in Nat /\ \A h \in 1 .. n : q[h] \in S
            BY LenProperties, ElementOfSeq
        <3>3. \A h \in 1 .. n : /\ node[q[h]].next = q[After(h, n)]
                                /\ node[q[h]].prev = q[Before(h, n)]
            BY <2>3 DEF Linked
        <3> HIDE DEF n
        <3>4. After(i, n) \in 1 .. n /\ Before(After(i, n), n) = i
            BY <3>2 DEF After, Before
        <3>5. Has(q, q[After(i, n)])
            BY <3>4 DEF Has, n
        <3> QED BY <3>1, <3>2, <3>3, <3>4, <3>5
    <2>4. ASSUME NEW p \in Prices \ {walk.new}, level[p] # NoLevel
          PROVE  LET n == level[p].next
                 IN  n \in Prices /\ level[n].side = level[p].side /\ level[n].prev = p
        <3>1. PICK s \in Sides : s = level[p].side
            BY <2>2, <2>4, TypeFacts DEF Levels, LevelRec
        <3>2. SideShape(s, L[s]) /\ L[s] \in Seq(Prices)
            BY <2>1 DEF Shape
        <3>3. Has(L[s], p) /\ Linked(L[s], level)
            BY <3>1, <3>2 DEF SideShape
        <3>4. /\ level[p].next \in Prices /\ Has(L[s], level[p].next)
              /\ level[level[p].next].prev = p
            BY <2>3, <3>2, <3>3
        <3> QED BY <3>1, <3>2, <3>4 DEF SideShape
    <2>5. ASSUME NEW o \in Orders, order[o] # NoOrder
          PROVE  LET n == order[o].next
                 IN  /\ order[n] # NoOrder /\ order[n].price = order[o].price
                     /\ order[n].prev = o
        <3>1. PICK p \in Prices : p = order[o].price
            BY <2>2, <2>5, TypeFacts DEF Blocks, OrderRec
        <3>2. QueueShape(p, Q[p]) /\ Q[p] \in Seq(Orders)
            BY <2>1 DEF Shape
        <3>3. Has(Q[p], o) /\ Linked(Q[p], order)
            BY <2>5, <3>1, <3>2 DEF QueueShape
        <3>4. /\ order[o].next \in Orders /\ Has(Q[p], order[o].next)
              /\ order[order[o].next].prev = o
            BY <2>3, <3>2, <3>3
        <3> QED BY <3>1, <3>2, <3>4 DEF QueueShape
    <2> QED BY <2>4, <2>5 DEF BackPointers
<1> QED BY <1>1, Invariant, PTL

\* Followed forwards, the lists are the levels of a price-time book: every order is
\* found once, behind all that rank before it, wherever in the ring its level had to
\* be linked in.
THEOREM ListsImplementBook == Spec => ImplementsBook
<1>1. Init => Abstract!Init
    <2> SUFFICES ASSUME Init PROVE Abstract!Init
        OBVIOUS
    <2> DEFINE L == [s \in Sides |-> <<>>]
               Q == [p \in Prices |-> <<>>]
    <2>1. TypeOK /\ Shape(L, Q)
        BY InitShape
    <2>2. L \in [Sides -> Seq(Prices)] /\ Q \in [Prices -> Seq(Orders)]
        OBVIOUS
    <2>3. Book = View(L, Q)
        <3> HIDE DEF L, Q
        <3> QED BY <2>1, <2>2, BookBefore
    <2>4. \A s \in Sides : SideOf(L[s], Q) = <<>>
        <3>1. \A x : SideOf(<<>>, x) = <<>>
            BY DEF SideOf
        <3> QED BY <3>1
    <2>5. Book = [s \in Sides |-> <<>>]
        BY <2>3, <2>4 DEF View
    <2> QED BY <2>5 DEF Abstract!Init, Abstract!Sides, Sides, Book
<1>2. IInv /\ [Next]_vars => [Abstract!Next]_Book
    <2> SUFFICES ASSUME IInv, [Next]_vars PROVE [Abstract!Next]_Book
        OBVIOUS
    <2>1. TypeOK
        BY DEF IInv
    <2>2. PICK L \in [Sides -> Seq(Prices)], Q \in [Prices -> Seq(Orders)] : Shape(L, Q)
        BY DEF IInv
    <2>3. BookMoves
        BY <2>1, <2>2, StepLeads
    <2> QED BY <2>3 DEF BookMoves
<1>3. Spec => Abstract!Init /\ [][Abstract!Next]_Book
    BY <1>1, <1>2, Invariant, PTL DEF Spec
<1> QED BY <1>3, PTL DEF ImplementsBook, Abstract!Spec, Book

-----------------------------------------------------------------------------
(* The search comes to an end.                                             *)

\* The levels that the search has not passed yet: its target and those behind it.
Ahead ==
    LET s == level[walk.new].side
    IN  {p \in Prices : /\ level[p].side = s /\ p # walk.new
                        /\ p = walk.target \/ Behind(s, p, walk.target)}

\* Each round of the search is its last one or leaves a level behind for good.
WalkAdvances == [][WalkOn => ~Walking' \/ (Ahead' \subseteq Ahead /\ Ahead' # Ahead)]_vars

\* The loop of AddOrdersAtPrice, which has no bound but the shape of the ring, comes
\* round no more often than there are levels on the side, for any levels.
THEOREM EachRoundAdvances == Spec => WalkAdvances
<1>1. ASSUME IInv, WalkOn
      PROVE  ~Walking' \/ (Ahead' \subseteq Ahead /\ Ahead' # Ahead)
    <2>1. TypeOK
        BY <1>1 DEF IInv
    <2>2. PICK L \in [Sides -> Seq(Prices)], Q \in [Prices -> Seq(Orders)] : Shape(L, Q)
        BY <1>1 DEF IInv
    <2>3. /\ walk # NoWalk /\ walk.after
          /\ walk.target # best[level[walk.new].side]
          /\ walk' = [walk EXCEPT !.after = BehindTarget,
                                  !.target = IF BehindTarget THEN level[@].next ELSE @]
          /\ best' = best /\ level' = level
        BY <1>1 DEF WalkOn, Walking
    <2>4. PICK s \in Sides, k \in 1 .. Len(L[level[walk.new].side]) :
              s = level[walk.new].side /\ At(s, L[s], k)
        BY <2>1, <2>2, <2>3, Searching
    <2> DEFINE q == L[s]
               n == Len(q)
    <2>5. /\ walk \in [new : Prices, target : Prices, after : BOOLEAN]
          /\ walk.target = q[k] /\ k \in 1 .. n /\ k # 1
          /\ n \in Nat \ {0} /\ \A i \in 1 .. n : q[i] \in Prices
          /\ \A i, j \in 1 .. n : i < j => Behind(s, q[j], q[i])
          /\ \A p \in Prices : Has(q, p) <=> level[p].side = s /\ p # walk.new
          /\ Linked(q, level) /\ best[s] = q[1]
        BY <2>3, <2>4 DEF At, SideShape
    <2> HIDE DEF q, n
    <2>6. walk'.new = walk.new /\ walk'.after = BehindTarget
          /\ walk'.target = IF BehindTarget THEN level[walk.target].next ELSE walk.target
        BY <2>3, <2>5
    <2>7. CASE ~BehindTarget
        BY <2>6, <2>7 DEF Walking
    <2>8. CASE BehindTarget /\ k = n
        <3>1. walk'.target = q[1]
            BY <2>5, <2>6, <2>8 DEF Linked, After, n
        <3>2. level'[walk'.new].side = s /\ best'[s] = q[1]
            BY <2>3, <2>4, <2>5, <2>6
        <3> QED BY <3>1, <3>2 DEF Walking
    <2>9. CASE BehindTarget /\ k # n
        <3>1. k + 1 \in 1 .. n /\ k < k + 1
            BY <2>5, <2>9
        <3>2. walk'.target = q[k + 1]
            BY <2>5, <2>6, <2>9 DEF Linked, After, n
        <3>3. Behind(s, q[k + 1], q[k]) /\ q[k + 1] \in Prices /\ q[k] \in Prices
            BY <2>5, <3>1
        <3>4. q[k] # q[k + 1] /\ ~Behind(s, q[k], q[k + 1])
            <4>1. q[k] \in Nat /\ q[k + 1] \in Nat
                BY <3>3, PricesAssumption
            <4> QED BY <3>3, <4>1 DEF Behind
        <3>5. /\ Ahead = {p \in Prices : /\ level[p].side = s /\ p # walk.new
                                         /\ p = q[k] \/ Behind(s, p, q[k])}
              /\ Ahead' = {p \in Prices : /\ level[p].side = s /\ p # walk.new
                                          /\ p = q[k + 1] \/ Behind(s, p, q[k + 1])}
            BY <2>3, <2>4, <2>5, <2>6, <3>2 DEF Ahead
        <3>6. Ahead' \subseteq Ahead
            BY <3>3, <3>5, BehindFacts
        <3>7. q[k] \in Ahead
            <4>1. Has(q, q[k])
                BY <2>5 DEF Has, n
            <4> QED BY <2>5, <3>3, <3>5, <4>1
        <3>8. ~(q[k] \in Ahead')
            BY <3>4, <3>5
        <3> QED BY <3>6, <3>7, <3>8
    <2> QED BY <2>7, <2>8, <2>9
<1>2. IInv /\ [Next]_vars =>
          [WalkOn => ~Walking' \/ (Ahead' \subseteq Ahead /\ Ahead' # Ahead)]_vars
    BY <1>1
<1> QED BY <1>2, Invariant, PTL DEF Spec, WalkAdvances
=============================================================================
