----------------------- MODULE ExchangeMarketData_proof -----------------------
(***************************************************************************)
(* The snapshot and the incremental stream are consistent for every set of *)
(* clients, ids, prices and quantities that the table of levels has room   *)
(* for, and for queues of any size.                                        *)
(***************************************************************************)
EXTENDS ExchangeMarketData, MEOrderBook_proof, SequenceTheorems

-----------------------------------------------------------------------------
(* The inductive invariant.                                                *)

\* What the market data says of an order.
Entry == [mid : Mids, side : Sides, price : Prices, qty : Nat, priority : Nat]

\* A book as the market data has it: orders are named by their ids, and the
\* priorities rank a level by age.
Sound(b) ==
    /\ b \subseteq Entry
    /\ \A e, f \in b : e.mid = f.mid => e = f
    /\ \A e, f \in b : e.side = f.side /\ e.price = f.price /\ e.mid < f.mid =>
                           e.priority < f.priority

\* An update that may follow book b: a new order is not there, and one that
\* changes or goes is, on its side and, if it changes, in its place.
Fits(b, u) ==
    /\ u \in Update
    /\ u.type = "ADD" => /\ u.mid \in Mids /\ u.priority \in Nat
                         /\ \A e \in b : e.mid # u.mid
    /\ u.type = "MODIFY" => \E e \in b : /\ e.mid = u.mid /\ e.side = u.side
                                         /\ e.price = u.price
                                         /\ e.priority = u.priority
    /\ u.type = "CANCEL" => \E e \in b : e.mid = u.mid /\ e.side = u.side

\* The updates the synthesizer has not applied yet, given the contents of the
\* two queues and of the publisher's hands.
Handed(queue) == [i \in 1 .. Len(queue) |-> queue[i].update]
InHand(f) == IF f = NoUpdate THEN <<>> ELSE <<f>>
PendingOf(queue, f, out) == Handed(queue) \o InHand(f) \o out
Pending == PendingOf(snapshotMdUpdates, forwarding, outgoing)

\* The book of a table of orders, what the table may hold, and the synthesizer's.
BookOf(T) == {T[m] : m \in {k \in Mids : T[k] # NoOrder}}

Table(T) ==
    /\ T \in [Mids -> Entry \cup {NoOrder}]
    /\ \A m \in Mids : T[m] # NoOrder => T[m].mid = m

TickerBook == BookOf(tickerOrders)

\* c holds the books that a run of updates goes through, the first one included.
Books(c, run) ==
    /\ DOMAIN c = 0 .. Len(run)
    /\ \A i \in 0 .. Len(run) : Sound(c[i])
    /\ \A i \in 1 .. Len(run) : Fits(c[i - 1], run[i]) /\ c[i] = Replay(c[i - 1], run[i])

Leads(b, run, d) ==
    \E c : Books(c, run) /\ c[0] = b /\ c[Len(run)] = d

HandedMessage == [seqNum : Nat, update : Update]

MDTypes ==
    /\ outgoing \in Seq(Update)
    /\ forwarding \in Update \cup {NoUpdate}
    /\ snapshotMdUpdates \in Seq(HandedMessage)
    /\ lastIncSeqNum \in Nat
    /\ Table(tickerOrders)

\* What is handed on is numbered without a gap, from the last number applied to
\* the last one sent.
Numbered ==
    /\ nextIncSeqNum = lastIncSeqNum + Len(snapshotMdUpdates) + 1
    /\ \A i \in 1 .. Len(snapshotMdUpdates) :
           snapshotMdUpdates[i].seqNum = lastIncSeqNum + i

\* The synthesizer's book is some earlier state of the engine's, and everything
\* that happened since is under way, in its order, each update fitting the book
\* before it.
Underway == Leads(TickerBook, Pending, PublishedBook)

MDInv == IInv /\ MDTypes /\ Numbered /\ Underway

-----------------------------------------------------------------------------
(* Runs of updates.                                                        *)

\* The same updates lead to the same book ...
LEMMA LeadsSame ==
    ASSUME NEW b, NEW d, NEW p, NEW q, Len(q) = Len(p),
           \A i \in 1 .. Len(p) : q[i] = p[i], Leads(b, p, d)
    PROVE  Leads(b, q, d)
BY DEF Leads, Books

\* ... one more update leads on ...
LEMMA LeadsMore ==
    ASSUME NEW b, NEW d, NEW p, NEW q, NEW u, Len(p) \in Nat, Len(q) = Len(p) + 1,
           \A i \in 1 .. Len(p) : q[i] = p[i], q[Len(p) + 1] = u,
           Leads(b, p, d), Fits(d, u), Sound(Replay(d, u))
    PROVE  Leads(b, q, Replay(d, u))
<1> DEFINE n == Len(p)
<1>1. PICK c : Books(c, p) /\ c[0] = b /\ c[n] = d
    BY DEF Leads
<1> DEFINE e == [i \in 0 .. n + 1 |-> IF i = n + 1 THEN Replay(d, u) ELSE c[i]]
<1> HIDE DEF n
<1>2. n \in Nat /\ Len(q) = n + 1 /\ q[n + 1] = u
    BY DEF n
<1>3. /\ \A i \in 0 .. n : Sound(c[i])
      /\ \A i \in 1 .. n : Fits(c[i - 1], q[i]) /\ c[i] = Replay(c[i - 1], q[i])
    BY <1>1 DEF Books, n
<1>4. DOMAIN e = 0 .. n + 1 /\ e[n + 1] = Replay(d, u)
    BY <1>2
<1>5. ASSUME NEW i \in 0 .. n PROVE e[i] = c[i]
    BY <1>2
<1>6. 0 \in 0 .. n /\ n \in 0 .. n
    BY <1>2
<1>7. e[0] = b /\ e[n] = d
    BY <1>1, <1>5, <1>6 DEF n
<1> HIDE DEF e
<1>8. \A i \in 0 .. n + 1 : Sound(e[i])
    <2> SUFFICES ASSUME NEW i \in 0 .. n + 1 PROVE Sound(e[i])
        OBVIOUS
    <2>1. i = n + 1 \/ i \in 0 .. n
        BY <1>2
    <2> QED BY <1>3, <1>4, <1>5, <2>1
<1>9. ASSUME NEW i \in 1 .. n + 1
      PROVE  Fits(e[i - 1], q[i]) /\ e[i] = Replay(e[i - 1], q[i])
    <2>1. CASE i = n + 1
        <3>1. i - 1 = n
            BY <1>2, <2>1
        <3> QED BY <1>2, <1>4, <1>7, <2>1, <3>1
    <2>2. CASE i # n + 1
        <3>1. i \in 1 .. n /\ i \in 0 .. n /\ i - 1 \in 0 .. n
            BY <1>2, <2>2
        <3>2. e[i] = c[i] /\ e[i - 1] = c[i - 1]
            BY <1>5, <3>1
        <3> QED BY <1>3, <3>1, <3>2
    <2> QED BY <2>1, <2>2
<1>10. Books(e, q)
    BY <1>2, <1>4, <1>8, <1>9 DEF Books
<1> QED BY <1>2, <1>4, <1>7, <1>10 DEF Leads

\* ... and without its first update a run leads there from the next book.
LEMMA LeadsLess ==
    ASSUME NEW b, NEW d, NEW p, NEW q, Len(q) \in Nat, Len(p) = Len(q) + 1,
           \A i \in 1 .. Len(q) : q[i] = p[i + 1], Leads(b, p, d)
    PROVE  Fits(b, p[1]) /\ Leads(Replay(b, p[1]), q, d)
<1> DEFINE n == Len(q)
<1>1. PICK c : Books(c, p) /\ c[0] = b /\ c[n + 1] = d
    BY DEF Leads
<1> DEFINE e == [i \in 0 .. n |-> c[i + 1]]
<1> HIDE DEF n
<1>2. n \in Nat /\ Len(p) = n + 1 /\ \A i \in 1 .. n : q[i] = p[i + 1]
    BY DEF n
<1>3. /\ \A i \in 0 .. n + 1 : Sound(c[i])
      /\ \A i \in 1 .. n + 1 : Fits(c[i - 1], p[i]) /\ c[i] = Replay(c[i - 1], p[i])
    BY <1>1, <1>2 DEF Books
<1>4. Fits(b, p[1]) /\ c[1] = Replay(b, p[1])
    <2>1. 1 \in 1 .. n + 1 /\ 1 - 1 = 0
        BY <1>2
    <2>2. Fits(c[1 - 1], p[1]) /\ c[1] = Replay(c[1 - 1], p[1])
        BY <1>3, <2>1
    <2> QED BY <1>1, <2>1, <2>2
<1>5. /\ DOMAIN e = 0 .. n /\ e[0] = Replay(b, p[1]) /\ e[n] = d
      /\ \A i \in 0 .. n : e[i] = c[i + 1]
    BY <1>1, <1>2, <1>4
<1> HIDE DEF e
<1>6. ASSUME NEW i \in 0 .. n PROVE Sound(e[i])
    <2>1. i + 1 \in 0 .. n + 1
        BY <1>2
    <2> QED BY <1>3, <1>5, <2>1
<1>7. ASSUME NEW i \in 1 .. n
      PROVE  Fits(e[i - 1], q[i]) /\ e[i] = Replay(e[i - 1], q[i])
    <2>1. /\ i \in 0 .. n /\ i - 1 \in 0 .. n /\ (i - 1) + 1 = i
          /\ i + 1 \in 1 .. n + 1 /\ (i + 1) - 1 = i
        BY <1>2
    <2>2. e[i] = c[i + 1] /\ e[i - 1] = c[i] /\ q[i] = p[i + 1]
        BY <1>2, <1>5, <2>1
    <2>3. /\ Fits(c[(i + 1) - 1], p[i + 1])
          /\ c[i + 1] = Replay(c[(i + 1) - 1], p[i + 1])
        BY <1>3, <2>1
    <2> QED BY <2>1, <2>2, <2>3
<1>8. Books(e, q)
    BY <1>5, <1>6, <1>7 DEF Books, n
<1> QED BY <1>4, <1>5, <1>8 DEF Leads, n

\* Replaying a run arrives where it leads.
LEMMA LeadsIsReplay ==
    ASSUME NEW b, NEW d, NEW p, Len(p) \in Nat, Leads(b, p, d)
    PROVE  ReplayAll(b, p) = d
<1> DEFINE n == Len(p)
           after[i \in 0 .. n] == IF i = 0 THEN b ELSE Replay(after[i - 1], p[i])
<1>1. PICK c : Books(c, p) /\ c[0] = b /\ c[n] = d
    BY DEF Leads
<1>2. ReplayAll(b, p) = after[n]
    BY DEF ReplayAll
<1> DEFINE f == [i \in 0 .. n |-> c[i]]
<1>3. f = [i \in 0 .. n |-> IF i = 0 THEN b ELSE Replay(f[i - 1], p[i])]
    <2> SUFFICES ASSUME NEW i \in 0 .. n
                 PROVE  c[i] = IF i = 0 THEN b ELSE Replay(f[i - 1], p[i])
        OBVIOUS
    <2>1. CASE i = 0
        BY <1>1, <2>1
    <2>2. CASE i # 0
        <3>1. i \in 1 .. n /\ i - 1 \in 0 .. n
            BY <2>2
        <3>2. c[i] = Replay(c[i - 1], p[i])
            BY <1>1, <3>1 DEF Books
        <3> QED BY <2>2, <3>1, <3>2
    <2> QED BY <2>1, <2>2
<1> HIDE DEF f
<1>4. after = [i \in 0 .. n |-> IF i = 0 THEN b ELSE Replay(after[i - 1], p[i])]
    BY <1>3
<1> HIDE DEF after
<1>5. /\ \A i \in 0 .. n : after[i] = IF i = 0 THEN b ELSE Replay(after[i - 1], p[i])
      /\ \A i \in 1 .. n : c[i] = Replay(c[i - 1], p[i])
    BY <1>1, <1>4 DEF Books
<1> HIDE DEF n
<1>6. n \in Nat
    BY DEF n
<1>7. \A i \in 0 .. n : after[i] = c[i]
    <2> DEFINE T == {i \in 0 .. n : after[i] # c[i]}
    <2> SUFFICES ASSUME T # {} PROVE FALSE
        OBVIOUS
    <2>1. T \in SUBSET Nat
        BY <1>6
    <2>2. PICK i \in T : \A k \in T : i <= k
        <3> HIDE DEF T
        <3> QED BY <2>1, LeastNumber
    <2>3. i \in 0 .. n /\ after[i] # c[i]
        OBVIOUS
    <2>4. i # 0
        <3>1. 0 \in 0 .. n
            BY <1>6
        <3> QED BY <1>1, <1>5, <2>3, <3>1
    <2>5. i - 1 \in 0 .. n /\ i \in 1 .. n /\ ~(i <= i - 1)
        BY <1>6, <2>3, <2>4
    <2>6. after[i - 1] = c[i - 1]
        BY <2>2, <2>5
    <2> QED BY <1>5, <2>3, <2>4, <2>5, <2>6
<1>8. n \in 0 .. n
    BY <1>6
<1> QED BY <1>1, <1>2, <1>7, <1>8

-----------------------------------------------------------------------------
(* The queues.                                                             *)

\* An update is not taken for nothing.
LEMMA UpdateIsSomething ==
    ASSUME NEW u \in Update
    PROVE  u # NoUpdate
<1>1. u.mid \in Mids \cup {Invalid}
    BY DEF Update
<1>2. u.mid # 0
    BY <1>1, MidsAreNat DEF Invalid
<1> QED BY <1>2 DEF NoUpdate

\* How many updates the publisher has in its hands.
HandSize(f) == IF f = NoUpdate THEN 0 ELSE 1

\* What is handed on, as updates.
LEMMA HandedIs ==
    ASSUME NEW queue \in Seq(HandedMessage)
    PROVE  /\ Len(queue) \in Nat
           /\ Handed(queue) \in Seq(Update) /\ Len(Handed(queue)) = Len(queue)
           /\ \A i \in 1 .. Len(queue) : Handed(queue)[i] = queue[i].update
<1> DEFINE k == Len(queue)
           a == Handed(queue)
<1>1. k \in Nat
    BY LenProperties
<1>2. \A i \in 1 .. k : queue[i] \in HandedMessage
    BY ElementOfSeq
<1>3. a = [i \in 1 .. k |-> queue[i].update]
    BY DEF Handed
<1>4. \A i \in 1 .. k : queue[i].update \in Update
    BY <1>2 DEF HandedMessage
<1> HIDE DEF a, k
<1>5. a \in Seq(Update) /\ Len(a) = k /\ \A i \in 1 .. k : a[i] = queue[i].update
    BY <1>1, <1>3, <1>4
<1> QED BY <1>1, <1>5 DEF a, k

LEMMA InHandIs ==
    ASSUME NEW f \in Update \cup {NoUpdate}
    PROVE  /\ InHand(f) \in Seq(Update) /\ Len(InHand(f)) = HandSize(f)
           /\ HandSize(f) \in {0, 1}
           /\ HandSize(f) = 1 => InHand(f)[1] = f
BY DEF InHand, HandSize

\* What is under way, number by number.
LEMMA PendingIs ==
    ASSUME NEW queue \in Seq(HandedMessage), NEW f \in Update \cup {NoUpdate},
           NEW out \in Seq(Update)
    PROVE  LET p == PendingOf(queue, f, out)
               k == Len(queue)
               h == HandSize(f)
           IN  /\ p \in Seq(Update)
               /\ k \in Nat /\ Len(out) \in Nat /\ Len(p) \in Nat
               /\ Len(p) = k + h + Len(out)
               /\ \A i \in 1 .. k : p[i] = queue[i].update
               /\ h = 1 => p[k + 1] = f
               /\ \A i \in k + h + 1 .. Len(p) : p[i] = out[i - (k + h)]
<1> DEFINE k == Len(queue)
           h == HandSize(f)
           a == Handed(queue)
           b == InHand(f)
           p == PendingOf(queue, f, out)
<1>1. k \in Nat /\ Len(out) \in Nat
    BY LenProperties
<1>2. a \in Seq(Update) /\ Len(a) = k /\ \A i \in 1 .. k : a[i] = queue[i].update
    BY HandedIs
<1>3. b \in Seq(Update) /\ Len(b) = h /\ (h = 1 => b[1] = f) /\ h \in Nat
    <2>1. h \in {0, 1}
        BY InHandIs
    <2> QED BY <2>1, InHandIs
<1> HIDE DEF a, b, h, k
<1>4. /\ a \o b \in Seq(Update) /\ Len(a \o b) = k + h
      /\ \A i \in 1 .. k + h : (a \o b)[i] = IF i <= k THEN a[i] ELSE b[i - k]
    <2>1. /\ a \o b \in Seq(Update) /\ Len(a \o b) = Len(a) + Len(b)
          /\ \A i \in 1 .. Len(a) + Len(b) :
                 (a \o b)[i] = IF i <= Len(a) THEN a[i] ELSE b[i - Len(a)]
        BY <1>2, <1>3, ConcatProperties
    <2> QED BY <1>2, <1>3, <2>1
<1>5. p = (a \o b) \o out
    BY DEF PendingOf, a, b
<1>6. /\ p \in Seq(Update) /\ Len(p) = k + h + Len(out)
      /\ \A i \in 1 .. k + h + Len(out) :
             p[i] = IF i <= k + h THEN (a \o b)[i] ELSE out[i - (k + h)]
    <2> HIDE DEF p
    <2> QED BY <1>4, <1>5, ConcatProperties
<1> HIDE DEF p
<1>7. Len(p) \in Nat
    BY <1>1, <1>3, <1>6
<1>8. ASSUME NEW i \in 1 .. k PROVE p[i] = queue[i].update
    <2>1. i \in 1 .. k + h + Len(out) /\ i <= k + h /\ i \in 1 .. k + h /\ i <= k
        BY <1>1, <1>3
    <2> QED BY <1>2, <1>4, <1>6, <2>1
<1>9. ASSUME h = 1 PROVE p[k + 1] = f
    <2>1. /\ k + 1 \in 1 .. k + h + Len(out) /\ k + 1 <= k + h
          /\ k + 1 \in 1 .. k + h /\ ~(k + 1 <= k) /\ (k + 1) - k = 1
        BY <1>1, <1>9
    <2> QED BY <1>3, <1>4, <1>6, <1>9, <2>1
<1>10. ASSUME NEW i \in k + h + 1 .. Len(p) PROVE p[i] = out[i - (k + h)]
    <2>1. i \in 1 .. k + h + Len(out) /\ ~(i <= k + h)
        BY <1>1, <1>3, <1>6
    <2> QED BY <1>6, <2>1
<1> QED BY <1>1, <1>6, <1>7, <1>8, <1>9, <1>10 DEF k, h, p

\* What the publisher does moves updates on and changes neither them nor their
\* order.
LEMMA SendKeepsPending ==
    ASSUME NEW queue \in Seq(HandedMessage), NEW out \in Seq(Update), out # <<>>
    PROVE  LET p == PendingOf(queue, NoUpdate, out)
               q == PendingOf(queue, Head(out), Tail(out))
           IN  Len(q) = Len(p) /\ \A i \in 1 .. Len(p) : q[i] = p[i]
<1> DEFINE p == PendingOf(queue, NoUpdate, out)
           q == PendingOf(queue, Head(out), Tail(out))
           k == Len(queue)
           u == Head(out)
<1>1. /\ u \in Update /\ u = out[1] /\ Tail(out) \in Seq(Update)
      /\ Len(Tail(out)) = Len(out) - 1
      /\ \A i \in 1 .. Len(Tail(out)) : Tail(out)[i] = out[i + 1]
      /\ u # NoUpdate
    <2>1. /\ u \in Update /\ Tail(out) \in Seq(Update)
          /\ Len(Tail(out)) = Len(out) - 1
          /\ \A i \in 1 .. Len(Tail(out)) : Tail(out)[i] = out[i + 1]
        BY HeadTailProperties
    <2>2. u = out[1]
        OBVIOUS
    <2> HIDE DEF u
    <2> QED BY <2>1, <2>2, UpdateIsSomething
<1> HIDE DEF u
<1>2. /\ k \in Nat /\ Len(p) = k + 0 + Len(out) /\ Len(out) \in Nat
      /\ \A i \in 1 .. k : p[i] = queue[i].update
      /\ \A i \in k + 0 + 1 .. Len(p) : p[i] = out[i - (k + 0)]
    <2> DEFINE h == HandSize(NoUpdate)
    <2>1. h = 0
        BY DEF HandSize
    <2>2. NoUpdate \in Update \cup {NoUpdate}
        OBVIOUS
    <2>3. /\ k \in Nat /\ Len(p) = k + h + Len(out) /\ Len(out) \in Nat
          /\ \A i \in 1 .. k : p[i] = queue[i].update
          /\ \A i \in k + h + 1 .. Len(p) : p[i] = out[i - (k + h)]
        BY <2>2, PendingIs
    <2> HIDE DEF h, p, k
    <2> QED BY <2>1, <2>3
<1>3. /\ Len(q) = k + 1 + Len(Tail(out)) /\ Len(Tail(out)) \in Nat
      /\ \A i \in 1 .. k : q[i] = queue[i].update
      /\ q[k + 1] = u
      /\ \A i \in k + 1 + 1 .. Len(q) : q[i] = Tail(out)[i - (k + 1)]
    <2> DEFINE h == HandSize(u)
               rest == Tail(out)
    <2>1. q = PendingOf(queue, u, rest) /\ h = 1
        BY <1>1 DEF u, HandSize
    <2>2. rest \in Seq(Update) /\ u \in Update \cup {NoUpdate}
        BY <1>1
    <2> HIDE DEF q, rest
    <2>3. /\ k \in Nat /\ Len(q) = k + h + Len(rest) /\ Len(rest) \in Nat
          /\ \A i \in 1 .. k : q[i] = queue[i].update
          /\ h = 1 => q[k + 1] = u
          /\ \A i \in k + h + 1 .. Len(q) : q[i] = rest[i - (k + h)]
        BY <2>1, <2>2, PendingIs
    <2> HIDE DEF h, k
    <2>4. /\ Len(q) = k + 1 + Len(rest) /\ Len(rest) \in Nat
          /\ \A i \in 1 .. k : q[i] = queue[i].update
          /\ q[k + 1] = u
          /\ \A i \in k + 1 + 1 .. Len(q) : q[i] = rest[i - (k + 1)]
        BY <2>1, <2>3
    <2> QED BY <2>4 DEF rest
<1> HIDE DEF p, q, k
<1>4. Len(q) = Len(p)
    BY <1>1, <1>2, <1>3
<1>5. ASSUME NEW i \in 1 .. Len(p) PROVE q[i] = p[i]
    <2>1. CASE i \in 1 .. k
        BY <1>2, <1>3, <2>1
    <2>2. CASE i = k + 1
        <3>1. i \in k + 0 + 1 .. Len(p) /\ i - (k + 0) = 1
            BY <1>2, <2>2
        <3> QED BY <1>1, <1>2, <1>3, <2>2, <3>1
    <2>3. CASE i > k + 1
        <3>1. /\ i \in k + 0 + 1 .. Len(p) /\ i \in k + 1 + 1 .. Len(q)
              /\ i - (k + 1) \in 1 .. Len(Tail(out))
              /\ (i - (k + 1)) + 1 = i - (k + 0)
            BY <1>1, <1>2, <1>3, <1>4, <2>3
        <3> QED BY <1>1, <1>2, <1>3, <3>1
    <2> QED BY <1>2, <2>1, <2>2, <2>3
<1> QED BY <1>4, <1>5 DEF p, q

\* Nor does handing one on.
LEMMA ForwardKeepsPending ==
    ASSUME NEW queue \in Seq(HandedMessage), NEW u \in Update,
           NEW out \in Seq(Update), NEW n \in Nat
    PROVE  LET p == PendingOf(queue, u, out)
               q == PendingOf(Append(queue, [seqNum |-> n, update |-> u]),
                              NoUpdate, out)
           IN  Len(q) = Len(p) /\ \A i \in 1 .. Len(p) : q[i] = p[i]
<1> DEFINE m == [seqNum |-> n, update |-> u]
           long == Append(queue, m)
           p == PendingOf(queue, u, out)
           q == PendingOf(long, NoUpdate, out)
           k == Len(queue)
<1>1. m \in HandedMessage /\ m.update = u /\ u # NoUpdate
    BY UpdateIsSomething DEF HandedMessage
<1> HIDE DEF m
<1>2. /\ long \in Seq(HandedMessage) /\ Len(long) = k + 1
      /\ \A i \in 1 .. k : long[i] = queue[i]
      /\ long[k + 1] = m
    BY <1>1, AppendProperties
<1> HIDE DEF long
<1>3. /\ k \in Nat /\ Len(p) = k + 1 + Len(out) /\ Len(out) \in Nat
      /\ \A i \in 1 .. k : p[i] = queue[i].update
      /\ p[k + 1] = u
      /\ \A i \in k + 1 + 1 .. Len(p) : p[i] = out[i - (k + 1)]
    <2> DEFINE h == HandSize(u)
    <2>1. h = 1
        BY <1>1 DEF HandSize
    <2>2. /\ k \in Nat /\ Len(p) = k + h + Len(out) /\ Len(out) \in Nat
          /\ \A i \in 1 .. k : p[i] = queue[i].update
          /\ h = 1 => p[k + 1] = u
          /\ \A i \in k + h + 1 .. Len(p) : p[i] = out[i - (k + h)]
        BY PendingIs
    <2> HIDE DEF h, p, k
    <2> QED BY <2>1, <2>2
<1>4. /\ Len(q) = k + 1 + 0 + Len(out)
      /\ \A i \in 1 .. k + 1 : q[i] = long[i].update
      /\ \A i \in k + 1 + 0 + 1 .. Len(q) : q[i] = out[i - (k + 1 + 0)]
    <2>1. /\ Len(q) = Len(long) + 0 + Len(out)
          /\ \A i \in 1 .. Len(long) : q[i] = long[i].update
          /\ \A i \in Len(long) + 0 + 1 .. Len(q) : q[i] = out[i - (Len(long) + 0)]
        <3>1. HandSize(NoUpdate) = 0
            BY DEF HandSize
        <3> QED BY <1>2, <3>1, PendingIs
    <2> HIDE DEF q
    <2> QED BY <1>2, <2>1
<1> HIDE DEF p, q, k
<1>5. Len(q) = Len(p)
    BY <1>3, <1>4
<1>6. ASSUME NEW i \in 1 .. Len(p) PROVE q[i] = p[i]
    <2>1. CASE i \in 1 .. k
        <3>1. i \in 1 .. k + 1
            BY <1>3, <2>1
        <3> QED BY <1>2, <1>3, <1>4, <2>1, <3>1
    <2>2. CASE i = k + 1
        <3>1. i \in 1 .. k + 1
            BY <1>3, <2>2
        <3> QED BY <1>1, <1>2, <1>3, <1>4, <2>2, <3>1
    <2>3. CASE i > k + 1
        <3>1. /\ i \in k + 1 + 1 .. Len(p) /\ i \in k + 1 + 0 + 1 .. Len(q)
              /\ i - (k + 1) = i - (k + 1 + 0)
            BY <1>3, <1>5, <2>3
        <3> QED BY <1>3, <1>4, <3>1
    <2> QED BY <1>3, <2>1, <2>2, <2>3
<1> QED BY <1>5, <1>6 DEF p, q, m, long

\* The synthesizer takes the first update that is under way ...
LEMMA TakeShortensPending ==
    ASSUME NEW queue \in Seq(HandedMessage), queue # <<>>,
           NEW f \in Update \cup {NoUpdate}, NEW out \in Seq(Update)
    PROVE  LET p == PendingOf(queue, f, out)
               q == PendingOf(Tail(queue), f, out)
           IN  /\ Len(q) \in Nat /\ Len(p) = Len(q) + 1
               /\ p[1] = Head(queue).update
               /\ \A i \in 1 .. Len(q) : q[i] = p[i + 1]
<1> DEFINE rest == Tail(queue)
           p == PendingOf(queue, f, out)
           q == PendingOf(rest, f, out)
           k == Len(rest)
           h == HandSize(f)
<1>1. /\ rest \in Seq(HandedMessage) /\ Len(queue) = k + 1
      /\ \A i \in 1 .. k : rest[i] = queue[i + 1]
      /\ Head(queue) = queue[1]
    <2>1. /\ rest \in Seq(HandedMessage) /\ Len(rest) = Len(queue) - 1
          /\ \A i \in 1 .. Len(rest) : rest[i] = queue[i + 1]
        BY HeadTailProperties
    <2>2. Len(queue) \in Nat /\ Head(queue) = queue[1]
        BY LenProperties
    <2> QED BY <2>1, <2>2
<1> HIDE DEF rest, k
<1>2. /\ k \in Nat /\ Len(q) = k + h + Len(out) /\ Len(out) \in Nat
      /\ Len(q) \in Nat
      /\ \A i \in 1 .. k : q[i] = rest[i].update
      /\ h = 1 => q[k + 1] = f
      /\ \A i \in k + h + 1 .. Len(q) : q[i] = out[i - (k + h)]
    BY <1>1, PendingIs DEF k
<1>3. /\ Len(p) = k + 1 + h + Len(out)
      /\ \A i \in 1 .. k + 1 : p[i] = queue[i].update
      /\ h = 1 => p[k + 1 + 1] = f
      /\ \A i \in k + 1 + h + 1 .. Len(p) : p[i] = out[i - (k + 1 + h)]
    <2>2. /\ Len(p) = Len(queue) + h + Len(out)
          /\ \A i \in 1 .. Len(queue) : p[i] = queue[i].update
          /\ h = 1 => p[Len(queue) + 1] = f
          /\ \A i \in Len(queue) + h + 1 .. Len(p) : p[i] = out[i - (Len(queue) + h)]
        BY PendingIs
    <2> HIDE DEF h, p
    <2> QED BY <1>1, <2>2
<1>4. h \in {0, 1}
    BY InHandIs
<1> HIDE DEF p, q, h
<1>5. Len(p) = Len(q) + 1
    BY <1>2, <1>3, <1>4
<1>6. p[1] = Head(queue).update
    <2>1. 1 \in 1 .. k + 1
        BY <1>2
    <2> QED BY <1>1, <1>3, <2>1
<1>7. ASSUME NEW i \in 1 .. Len(q) PROVE q[i] = p[i + 1]
    <2>1. CASE i \in 1 .. k
        <3>1. i + 1 \in 1 .. k + 1
            BY <1>2, <2>1
        <3> QED BY <1>1, <1>2, <1>3, <2>1, <3>1
    <2>2. CASE i = k + 1 /\ h = 1
        BY <1>2, <1>3, <2>2
    <2>3. CASE i > k + h
        <3>1. /\ i \in k + h + 1 .. Len(q) /\ i + 1 \in k + 1 + h + 1 .. Len(p)
              /\ (i + 1) - (k + 1 + h) = i - (k + h)
            BY <1>2, <1>4, <1>5, <2>3
        <3> QED BY <1>2, <1>3, <3>1
    <2>4. i \in 1 .. k \/ (i = k + 1 /\ h = 1) \/ i > k + h
        BY <1>2, <1>4
    <2> QED BY <2>1, <2>2, <2>3, <2>4
<1> QED BY <1>2, <1>5, <1>6, <1>7 DEF p, q, rest

\* q is p with us behind it.
Extends(p, us, q) ==
    /\ p \in Seq(Update) /\ Len(p) \in Nat
    /\ Len(q) = Len(p) + Len(us)
    /\ \A i \in 1 .. Len(p) : q[i] = p[i]
    /\ \A i \in 1 .. Len(us) : q[Len(p) + i] = us[i]

\* ... and the engine adds to the end.
LEMMA MoreBehind ==
    ASSUME NEW a \in Seq(Update), NEW out \in Seq(Update), NEW us \in Seq(Update)
    PROVE  Extends(a \o out, us, a \o (out \o us))
<1> DEFINE p == a \o out
           q == a \o (out \o us)
<1>1. q = p \o us
    BY ConcatAssociative
<1>2. p \in Seq(Update)
    BY ConcatProperties
<1> HIDE DEF p, q
<1>3. /\ Len(q) = Len(p) + Len(us) /\ Len(p) \in Nat /\ Len(us) \in Nat
      /\ \A i \in 1 .. Len(p) + Len(us) :
             q[i] = IF i <= Len(p) THEN p[i] ELSE us[i - Len(p)]
    BY <1>1, <1>2, ConcatProperties, LenProperties
<1>4. ASSUME NEW i \in 1 .. Len(p) PROVE q[i] = p[i]
    BY <1>3
<1>5. ASSUME NEW i \in 1 .. Len(us) PROVE q[Len(p) + i] = us[i]
    <2>1. /\ Len(p) + i \in 1 .. Len(p) + Len(us) /\ ~(Len(p) + i <= Len(p))
          /\ (Len(p) + i) - Len(p) = i
        BY <1>3
    <2> QED BY <1>3, <2>1
<1> QED BY <1>2, <1>3, <1>4, <1>5 DEF p, q, Extends

LEMMA WriteExtendsPending ==
    ASSUME NEW queue \in Seq(HandedMessage), NEW f \in Update \cup {NoUpdate},
           NEW out \in Seq(Update), NEW us \in Seq(Update)
    PROVE  Extends(PendingOf(queue, f, out), us, PendingOf(queue, f, out \o us))
<1> DEFINE a == Handed(queue) \o InHand(f)
<1>1. /\ PendingOf(queue, f, out) = a \o out
      /\ PendingOf(queue, f, out \o us) = a \o (out \o us)
    BY DEF PendingOf
<1>2. a \in Seq(Update)
    BY HandedIs, InHandIs, ConcatProperties
<1> HIDE DEF a
<1>3. Extends(a \o out, us, a \o (out \o us))
    BY <1>2, MoreBehind
<1> QED BY <1>1, <1>3

-----------------------------------------------------------------------------
(* The engine.                                                             *)

\* The published form of a book that keeps its invariant is sound.
LEMMA SoundOf ==
    ASSUME NEW O, O \subseteq Order,
           \A x, y \in O : x.mid = y.mid => x = y,
           \A x, y \in O : x.side = y.side /\ x.price = y.price /\ x.mid < y.mid =>
                               x.priority < y.priority
    PROVE  Sound({Published(o) : o \in O})
BY DEF Sound, Published, Order, Entry

\* So is the engine's, before and after a step.
LEMMA EngineSound == IInv => Sound(PublishedBook)
<1> SUFFICES ASSUME IInv PROVE Sound(PublishedBook)
    OBVIOUS
<1>1. /\ orders \subseteq Order
      /\ \A x, y \in orders : x.mid = y.mid => x = y
      /\ \A x, y \in orders : x.side = y.side /\ x.price = y.price /\ x.mid < y.mid =>
                                  x.priority < y.priority
    BY DEF IInv, TypeOK, BookInv, MidsUnique, PriorityIsArrival
<1>2. PublishedBook = {Published(o) : o \in orders}
    BY DEF PublishedBook
<1> QED BY <1>1, <1>2, SoundOf

LEMMA EngineSoundNext == IInv' => Sound(PublishedBook')
<1> SUFFICES ASSUME IInv' PROVE Sound(PublishedBook')
    OBVIOUS
<1>1. /\ orders' \subseteq Order
      /\ \A x, y \in orders' : x.mid = y.mid => x = y
      /\ \A x, y \in orders' : x.side = y.side /\ x.price = y.price /\ x.mid < y.mid =>
                                   x.priority < y.priority
    BY DEF IInv, TypeOK, BookInv, MidsUnique, PriorityIsArrival
<1>2. PublishedBook' = {Published(o) : o \in orders'}
    BY DEF PublishedBook, Published
<1> QED BY <1>1, <1>2, SoundOf

\* What one step of the engine writes: u turns its book into the next one.
Changes(u) ==
    u \in Update /\ Fits(PublishedBook, u) /\ PublishedBook' = Replay(PublishedBook, u)

\* An order of the book is found under its id among the published entries.
LEMMA PublishedOf ==
    ASSUME NEW o \in orders
    PROVE  /\ Published(o) \in PublishedBook
           /\ Published(o).mid = o.mid /\ Published(o).side = o.side
           /\ Published(o).price = o.price /\ Published(o).qty = o.qty
           /\ Published(o).priority = o.priority
BY DEF PublishedBook, Published

\* Every step of the engine writes nothing, one update of its book, or a trade
\* and one update of its book.
LEMMA EngineFits ==
    ASSUME IInv, IInv', Next
    PROVE  \/ updates' = <<>> /\ PublishedBook' = PublishedBook
           \/ \E u : updates' = <<u>> /\ Changes(u)
           \/ \E t, u : /\ updates' = <<t, u>>
                        /\ t \in Update /\ t.type = "TRADE" /\ Changes(u)
<1> DEFINE Goal == \/ updates' = <<>> /\ PublishedBook' = PublishedBook
                   \/ \E u : updates' = <<u>> /\ Changes(u)
                   \/ \E t, u : /\ updates' = <<t, u>>
                                /\ t \in Update /\ t.type = "TRADE" /\ Changes(u)
<1>0. MidsUnique /\ orders \subseteq Order /\ updates' \in Seq(Update)
    BY DEF IInv, BookInv, TypeOK
<1>1. ASSUME updates' = <<>>, orders' = orders PROVE Goal
    BY <1>1 DEF PublishedBook, Published
<1>2. ASSUME NEW u, updates' = <<u>>, Fits(PublishedBook, u),
             PublishedBook' = Replay(PublishedBook, u)
      PROVE  Goal
    <2>1. u \in Update
        BY <1>2 DEF Fits
    <2> QED BY <1>2, <2>1 DEF Changes
<1>3. ASSUME NEW t, NEW u, updates' = <<t, u>>, t.type = "TRADE",
             u \in Update => Fits(PublishedBook, u),
             PublishedBook' = Replay(PublishedBook, u)
      PROVE  Goal
    <2>1. t \in Update /\ u \in Update
        <3>1. <<t, u>> \in Seq(Update)
            BY <1>0, <1>3
        <3> QED BY <3>1
    <2> QED BY <1>3, <2>1 DEF Changes
<1> HIDE DEF Goal
<1>4. ASSUME NEW c \in Clients, NEW oid \in OrderIds, NEW s \in Sides,
             NEW p \in Prices, NEW q \in Quantities, AddOrder(c, oid, s, p, q)
      PROVE  Goal
    BY <1>1, <1>4 DEF AddOrder, bookVars
<1>5. ASSUME NEW o \in orders, Match(o)
      PROVE  Goal
    <2> DEFINE fill == FillQty(aggressor.leaves, o.qty)
               rest == [o EXCEPT !.qty = @ - fill]
               T == Publish("TRADE", Invalid, aggressor.side, o.price, fill, Invalid)
               C == Publish("CANCEL", o.mid, o.side, o.price, o.qty, Invalid)
               M == Publish("MODIFY", o.mid, o.side, o.price, rest.qty, o.priority)
               u == IF rest.qty = 0 THEN C ELSE M
    <2>1. updates' = <<T, u>>
        BY <1>5 DEF Match
    <2>2. /\ T.type = "TRADE"
          /\ C.type = "CANCEL" /\ C.mid = o.mid /\ C.side = o.side
          /\ M.type = "MODIFY" /\ M.mid = rest.mid /\ M.side = rest.side
          /\ M.price = rest.price /\ M.qty = rest.qty /\ M.priority = rest.priority
          /\ rest.mid = o.mid /\ rest.side = o.side /\ rest.price = o.price
          /\ rest.priority = o.priority
        BY <1>0 DEF Publish, Order
    <2>3. rest.qty = 0 => orders' = orders \ {o}
        BY <1>5 DEF Match, RemoveOrder
    <2>4. rest.qty # 0 => orders' = (orders \ {o}) \cup {rest}
        BY <1>5 DEF Match
    <2>5. u = IF rest.qty = 0 THEN C ELSE M
        OBVIOUS
    <2> HIDE DEF fill, rest, T, C, M, u
    <2>6. PublishedBook' = Replay(PublishedBook, u)
        BY <1>0, <2>2, <2>3, <2>4, <2>5, ReplayCancel, ReplayModify
    <2>7. /\ u.type \in {"CANCEL", "MODIFY"} /\ u.mid = o.mid /\ u.side = o.side
          /\ u.type = "MODIFY" => u.price = o.price /\ u.priority = o.priority
        BY <2>2, <2>5
    <2>8. u \in Update => Fits(PublishedBook, u)
        BY <2>7, PublishedOf DEF Fits
    <2> QED BY <1>3, <2>1, <2>2, <2>6, <2>8
<1>6. ASSUME AddRemainder PROVE Goal
    <2> DEFINE N(k) == [mid |-> aggressor.mid, client |-> aggressor.client,
                        oid |-> aggressor.oid, side |-> aggressor.side,
                        price |-> aggressor.price, qty |-> aggressor.leaves,
                        priority |-> k]
               A(k) == Publish("ADD", aggressor.mid, aggressor.side,
                               aggressor.price, aggressor.leaves, k)
    <2>1. PICK k \in GetNextPriority(aggressor.price) :
              orders' = orders \cup {N(k)} /\ updates' = <<A(k)>>
        BY <1>6 DEF AddRemainder, Insert
    <2>2. /\ A(k).type = "ADD" /\ A(k).mid = N(k).mid /\ A(k).side = N(k).side
          /\ A(k).price = N(k).price /\ A(k).qty = N(k).qty
          /\ A(k).priority = N(k).priority
          /\ A(k).mid = aggressor.mid /\ A(k).priority = k
        BY DEF Publish
    <2>3. k \in Nat
        BY <1>0 DEF GetNextPriority, Order
    <2>4. aggressor \in Aggressor /\ aggressor # Nobody
        BY <1>6 DEF AddRemainder, IInv, TypeOK
    <2>5. aggressor.mid \in Mids /\ \A o \in orders : o.mid < aggressor.mid
        BY <2>4 DEF Aggressor, IInv, AggressorInv
    <2>6. \A e \in PublishedBook : e.mid # aggressor.mid
        <3> SUFFICES ASSUME NEW o \in orders PROVE Published(o).mid # aggressor.mid
            BY DEF PublishedBook
        <3>1. o.mid \in Nat /\ aggressor.mid \in Nat
            BY <1>0, <2>5, MidsAreNat DEF Order
        <3> QED BY <2>5, <3>1, PublishedOf
    <2>7. A(k) \in Update
        <3>1. <<A(k)>> \in Seq(Update)
            BY <1>0, <2>1
        <3> HIDE DEF A
        <3> QED BY <3>1
    <2> HIDE DEF N, A
    <2>8. Fits(PublishedBook, A(k))
        BY <2>2, <2>3, <2>5, <2>6, <2>7 DEF Fits
    <2> QED BY <1>2, <2>1, <2>2, <2>8, ReplayAdd
<1>7. ASSUME NEW c \in Clients, NEW oid \in OrderIds, CancelOrder(c, oid)
      PROVE  Goal
    <2>1. CASE CancelFound(c, oid)
        <3> DEFINE u(o) == Publish("CANCEL", o.mid, o.side, o.price, 0, o.priority)
        <3>1. PICK o \in orders : orders' = orders \ {o} /\ updates' = <<u(o)>>
            BY <2>1 DEF CancelFound, RemoveOrder
        <3>2. u(o).type = "CANCEL" /\ u(o).mid = o.mid /\ u(o).side = o.side
            BY DEF Publish
        <3>3. u(o) \in Update
            <4>1. <<u(o)>> \in Seq(Update)
                BY <1>0, <3>1
            <4> HIDE DEF u
            <4> QED BY <4>1
        <3> HIDE DEF u
        <3>4. Fits(PublishedBook, u(o))
            BY <3>2, <3>3, PublishedOf DEF Fits
        <3> QED BY <1>0, <1>2, <3>1, <3>2, <3>4, ReplayCancel
    <2>2. CASE CancelUnknown(c, oid)
        BY <1>1, <2>2 DEF CancelUnknown, bookVars
    <2> QED BY <1>7, <2>1, <2>2 DEF CancelOrder
<1>8. Goal
    BY <1>4, <1>5, <1>6, <1>7 DEF Next, Matching
<1> QED BY <1>8 DEF Goal

-----------------------------------------------------------------------------
(* The synthesizer.                                                        *)

\* An entry is never taken for nothing.
LEMMA EntryIsSomething ==
    ASSUME NEW e \in Entry
    PROVE  e # NoOrder /\ e.mid \in Mids
BY MidsAreNat DEF Entry, NoOrder, Mids

\* An entry of a table's book is found in the table under its id ...
LEMMA InBookOf ==
    ASSUME NEW T, Table(T), NEW e
    PROVE  e \in BookOf(T) <=> e \in Entry /\ T[e.mid] = e
<1>1. ASSUME e \in BookOf(T) PROVE e \in Entry /\ T[e.mid] = e
    BY <1>1 DEF BookOf, Table
<1>2. ASSUME e \in Entry, T[e.mid] = e PROVE e \in BookOf(T)
    BY <1>2, EntryIsSomething DEF BookOf
<1> QED BY <1>1, <1>2

\* ... and the table has nothing under an id that the book does not have.
LEMMA InTable ==
    ASSUME NEW T, Table(T), NEW m \in Mids
    PROVE  T[m] = NoOrder <=> \A e \in BookOf(T) : e.mid # m
<1>1. ASSUME T[m] # NoOrder PROVE T[m] \in BookOf(T) /\ T[m].mid = m
    BY <1>1 DEF BookOf, Table
<1>2. ASSUME NEW e \in BookOf(T), e.mid = m PROVE T[m] # NoOrder
    BY <1>2, InBookOf, EntryIsSomething
<1> QED BY <1>1, <1>2

\* AddToSnapshot does to the table what Replay does to the book.
LEMMA ApplyReplays ==
    ASSUME Table(tickerOrders), NEW u, Fits(BookOf(tickerOrders), u)
    PROVE  Table(Apply(u)) /\ BookOf(Apply(u)) = Replay(BookOf(tickerOrders), u)
<1> DEFINE T == tickerOrders
           b == BookOf(T)
           V == Apply(u)
           n == [mid |-> u.mid, side |-> u.side, price |-> u.price, qty |-> u.qty,
                 priority |-> u.priority]
           known == {e \in b : e.mid = u.mid}
<1>1. /\ u.type \in {"ADD", "MODIFY", "CANCEL", "TRADE"}
      /\ u.side \in Sides /\ u.price \in Prices /\ u.qty \in Nat
    BY DEF Fits, Update
<1>2. /\ u.type = "ADD" => V = [T EXCEPT ![u.mid] = n]
      /\ u.type = "MODIFY" =>
             V = [T EXCEPT ![u.mid].qty = u.qty, ![u.mid].price = u.price]
      /\ u.type = "CANCEL" => V = [T EXCEPT ![u.mid] = NoOrder]
      /\ u.type = "TRADE" => V = T
    BY DEF Apply
<1>3. /\ u.type = "ADD" => Replay(b, u) = b \cup {n}
      /\ u.type = "MODIFY" => Replay(b, u) = (b \ known) \cup {n}
      /\ u.type = "CANCEL" => Replay(b, u) = b \ known
      /\ u.type = "TRADE" => Replay(b, u) = b
    BY DEF Replay
<1>4. Table(T) /\ \A e : e \in b <=> e \in Entry /\ T[e.mid] = e
    BY InBookOf
<1>5. n.mid = u.mid
    OBVIOUS
<1>6. u.type # "TRADE" => u.mid \in Mids
    <2>1. \A e \in b : e.mid \in Mids
        BY <1>4, EntryIsSomething
    <2> QED BY <1>1, <2>1 DEF Fits
<1>7. ASSUME u.type \in {"ADD", "MODIFY"}
      PROVE  n \in Entry /\ V = [T EXCEPT ![u.mid] = n]
    <2>1. CASE u.type = "ADD"
        <3>1. u.priority \in Nat
            BY <2>1 DEF Fits
        <3>2. n \in Entry
            BY <1>1, <1>6, <2>1, <3>1 DEF Entry
        <3> QED BY <1>2, <2>1, <3>2
    <2>2. CASE u.type = "MODIFY"
        <3>1. PICK e \in b : /\ e.mid = u.mid /\ e.side = u.side
                             /\ e.price = u.price /\ e.priority = u.priority
            BY <2>2 DEF Fits
        <3>2. e \in Entry /\ T[u.mid] = e
            BY <1>4, <3>1
        <3> DEFINE x == [e EXCEPT !.qty = u.qty]
                   y == [x EXCEPT !.price = u.price]
        <3>3. y = n
            <4>1. /\ x \in Entry /\ x.mid = e.mid /\ x.side = e.side
                  /\ x.qty = u.qty /\ x.priority = e.priority
                BY <1>1, <3>2 DEF Entry
            <4> HIDE DEF x
            <4>2. y = [mid |-> x.mid, side |-> x.side, price |-> u.price,
                       qty |-> x.qty, priority |-> x.priority]
                BY <1>1, <4>1 DEF Entry
            <4> HIDE DEF y
            <4> QED BY <3>1, <4>1, <4>2
        <3>4. n \in Entry
            BY <1>1, <3>1, <3>2 DEF Entry
        <3>5. V = [T EXCEPT ![u.mid] = y]
            BY <1>2, <1>4, <1>6, <2>2, <3>2 DEF Table
        <3> HIDE DEF x, y
        <3> QED BY <3>2, <3>3, <3>4, <3>5
    <2> QED BY <1>7, <2>1, <2>2
<1> HIDE DEF n, b, V, T
<1>8. CASE u.type \in {"ADD", "MODIFY"}
    <2>1. /\ V \in [Mids -> Entry \cup {NoOrder}]
          /\ \A m \in Mids : V[m] = IF m = u.mid THEN n ELSE T[m]
        BY <1>4, <1>6, <1>7, <1>8 DEF Table
    <2>2. Table(V)
        BY <1>4, <1>5, <2>1 DEF Table
    <2>3. \A e : e \in BookOf(V) <=> e \in Entry /\ V[e.mid] = e
        BY <2>2, InBookOf
    <2>4. u.type = "ADD" => \A e \in b : e.mid # u.mid
        BY DEF Fits, b, T
    <2>5. Replay(b, u) = (b \ known) \cup {n}
        BY <1>3, <1>8, <2>4
    <2>6. ASSUME NEW e PROVE e \in BookOf(V) <=> e \in Replay(b, u)
        <3>1. e \in Entry => e.mid \in Mids
            BY EntryIsSomething
        <3> QED BY <1>4, <1>5, <1>7, <1>8, <2>1, <2>3, <2>5, <3>1
    <2> QED BY <2>2, <2>6 DEF b, V, T
<1>9. CASE u.type = "CANCEL"
    <2>1. /\ V \in [Mids -> Entry \cup {NoOrder}]
          /\ \A m \in Mids : V[m] = IF m = u.mid THEN NoOrder ELSE T[m]
        BY <1>2, <1>4, <1>6, <1>9 DEF Table
    <2>2. Table(V)
        BY <1>4, <2>1 DEF Table
    <2>3. \A e : e \in BookOf(V) <=> e \in Entry /\ V[e.mid] = e
        BY <2>2, InBookOf
    <2>4. Replay(b, u) = b \ known
        BY <1>3, <1>9
    <2>5. ASSUME NEW e PROVE e \in BookOf(V) <=> e \in Replay(b, u)
        <3>1. e \in Entry => e.mid \in Mids /\ e # NoOrder
            BY EntryIsSomething
        <3> QED BY <1>4, <2>1, <2>3, <2>4, <3>1
    <2> QED BY <2>2, <2>5 DEF b, V, T
<1>10. CASE u.type = "TRADE"
    BY <1>2, <1>3, <1>4, <1>10 DEF b, V, T
<1> QED BY <1>1, <1>8, <1>9, <1>10

-----------------------------------------------------------------------------
(* The invariant is inductive.                                             *)

\* The engine adds an update that fits the book everything leads to.
LEMMA OneMore ==
    ASSUME NEW queue \in Seq(HandedMessage), NEW f \in Update \cup {NoUpdate},
           NEW out \in Seq(Update), NEW u \in Update, NEW b, NEW d,
           Leads(b, PendingOf(queue, f, out), d),
           Fits(d, u), Sound(Replay(d, u))
    PROVE  Leads(b, PendingOf(queue, f, out \o <<u>>), Replay(d, u))
<1> DEFINE p == PendingOf(queue, f, out)
           q == PendingOf(queue, f, out \o <<u>>)
           us == <<u>>
<1>1. us \in Seq(Update) /\ Len(us) = 1 /\ us[1] = u
    OBVIOUS
<1>2. /\ Len(p) \in Nat /\ Len(q) = Len(p) + Len(us)
      /\ \A i \in 1 .. Len(p) : q[i] = p[i]
      /\ \A i \in 1 .. Len(us) : q[Len(p) + i] = us[i]
    <2>1. Extends(p, us, q)
        <3>1. us \in Seq(Update)
            BY <1>1
        <3> QED BY <3>1, WriteExtendsPending
    <2> HIDE DEF p, q, us
    <2> QED BY <2>1 DEF Extends
<1>3. Leads(b, p, d)
    OBVIOUS
<1> HIDE DEF p, q, us
<1>4. Len(q) = Len(p) + 1 /\ q[Len(p) + 1] = u
    BY <1>1, <1>2
<1>5. Leads(b, q, Replay(d, u))
    BY <1>2, <1>3, <1>4, LeadsMore
<1> QED BY <1>5 DEF q

\* A trade fits every book and leaves it as it is.
LEMMA TradeFits ==
    ASSUME NEW t \in Update, t.type = "TRADE", NEW b
    PROVE  Fits(b, t) /\ Replay(b, t) = b
BY DEF Fits, Replay

\* What does not come from the engine leaves its book alone.
LEMMA SilentKeeps ==
    ASSUME IInv, Silent
    PROVE  IInv' /\ PublishedBook' = PublishedBook
BY DEF Silent, bookVars, IInv, TypeOK, BookInv, MidsUnique, LevelsAgree, OrdersAt,
   MapAgrees, Uncrossed, PriorityIsArrival, AggressorInv, PublishedBook, Published

\* Two updates written together are one written after the other.
LEMMA TwoWritten ==
    ASSUME NEW S, NEW t \in S, NEW u \in S
    PROVE  <<t>> \in Seq(S) /\ <<u>> \in Seq(S) /\ <<t, u>> = <<t>> \o <<u>>
<1> DEFINE a == <<t>>
           b == <<u>>
           c == <<t, u>>
           d == a \o b
<1>1. /\ a \in Seq(S) /\ b \in Seq(S) /\ c \in Seq(S)
      /\ Len(a) = 1 /\ Len(b) = 1 /\ Len(c) = 2
      /\ a[1] = t /\ b[1] = u /\ c[1] = t /\ c[2] = u
    OBVIOUS
<1> HIDE DEF a, b, c
<1>2. /\ d \in Seq(S) /\ Len(d) = 1 + 1
      /\ \A i \in 1 .. 1 + 1 : d[i] = IF i <= 1 THEN a[i] ELSE b[i - 1]
    <2>1. a \in Seq(S) /\ b \in Seq(S)
        BY <1>1
    <2>2. /\ d \in Seq(S) /\ Len(d) = Len(a) + Len(b)
          /\ \A i \in 1 .. Len(a) + Len(b) : d[i] = IF i <= Len(a) THEN a[i] ELSE b[i - Len(a)]
        BY <2>1, ConcatProperties
    <2>3. Len(a) = 1 /\ Len(b) = 1
        BY <1>1
    <2> QED BY <2>2, <2>3
<1> HIDE DEF d
<1>3. Len(d) = 2 /\ d[1] = t /\ d[2] = u
    BY <1>1, <1>2
<1>4. ASSUME NEW i \in 1 .. 2 PROVE c[i] = d[i]
    <2>1. i = 1 \/ i = 2
        OBVIOUS
    <2> QED BY <1>1, <1>3, <2>1
<1>5. c = d
    BY <1>1, <1>2, <1>3, <1>4, SeqEqual
<1> QED BY <1>1, <1>5 DEF a, b, c, d

\* The engine's steps.
LEMMA EngineKeeps ==
    ASSUME PriceWindow, MDInv, EngineRequest \/ EngineMatching
    PROVE  MDInv'
<1> USE DEF MDInv
<1>1. Next /\ Write(TRUE)
    BY DEF EngineRequest, EngineMatching, Write, Next, Matching
<1>2. IInv'
    BY <1>1, StepIInv
<1>3. /\ outgoing' = outgoing \o updates' /\ forwarding' = forwarding
      /\ nextIncSeqNum' = nextIncSeqNum /\ snapshotMdUpdates' = snapshotMdUpdates
      /\ tickerOrders' = tickerOrders /\ lastIncSeqNum' = lastIncSeqNum
    BY <1>1 DEF Write, publisherVars, synthVars
<1>4. /\ outgoing \in Seq(Update) /\ forwarding \in Update \cup {NoUpdate}
      /\ snapshotMdUpdates \in Seq(HandedMessage) /\ updates' \in Seq(Update)
    BY <1>2 DEF MDTypes, IInv, TypeOK
<1>5. MDTypes' /\ Numbered'
    <2>1. outgoing' \in Seq(Update)
        BY <1>3, <1>4, ConcatProperties
    <2> QED BY <1>3, <2>1 DEF MDTypes, Numbered, Table
<1> DEFINE b == TickerBook
           d == PublishedBook
           P(out) == PendingOf(snapshotMdUpdates, forwarding, out)
<1>6. Leads(b, P(outgoing), d)
    BY DEF Underway, Pending
<1>7. Pending' = P(outgoing') /\ TickerBook' = b
    BY <1>3 DEF Pending, PendingOf, Handed, InHand, TickerBook, BookOf
<1>8. ASSUME NEW u \in Update, NEW out \in Seq(Update), NEW e,
             Leads(b, P(out), e), Fits(e, u), Sound(Replay(e, u))
      PROVE  Leads(b, P(out \o <<u>>), Replay(e, u))
    BY <1>4, <1>8, OneMore
<1>9. Sound(d) /\ Sound(PublishedBook')
    BY <1>2, EngineSound, EngineSoundNext
<1>10. \A u : Changes(u) => u \in Update /\ Fits(d, u) /\ PublishedBook' = Replay(d, u)
    BY DEF Changes
<1>11. \/ updates' = <<>> /\ PublishedBook' = d
       \/ \E u : updates' = <<u>> /\ Changes(u)
       \/ \E t, u : /\ updates' = <<t, u>>
                    /\ t \in Update /\ t.type = "TRADE" /\ Changes(u)
    BY <1>1, <1>2, EngineFits
<1> HIDE DEF b, d, P
<1>12. ASSUME updates' = <<>>, PublishedBook' = d
       PROVE  Leads(b, P(outgoing'), PublishedBook')
    <2>1. outgoing' = outgoing
        BY <1>3, <1>4, <1>12
    <2> QED BY <1>6, <1>12, <2>1
<1>13. ASSUME NEW u, updates' = <<u>>, Changes(u)
       PROVE  Leads(b, P(outgoing'), PublishedBook')
    <2>1. u \in Update /\ Fits(d, u) /\ PublishedBook' = Replay(d, u)
        BY <1>10, <1>13
    <2>2. Leads(b, P(outgoing \o <<u>>), Replay(d, u))
        BY <1>4, <1>6, <1>8, <1>9, <2>1
    <2> QED BY <1>3, <1>13, <2>1, <2>2
<1>14. ASSUME NEW t, NEW u, updates' = <<t, u>>, t \in Update, t.type = "TRADE",
              Changes(u)
       PROVE  Leads(b, P(outgoing'), PublishedBook')
    <2>1. u \in Update /\ Fits(d, u) /\ PublishedBook' = Replay(d, u)
        BY <1>10, <1>14
    <2>2. Fits(d, t) /\ Replay(d, t) = d
        BY <1>14, TradeFits
    <2> DEFINE out == outgoing \o <<t>>
    <2>3. out \in Seq(Update) /\ outgoing' = out \o <<u>>
        <3>1. /\ <<t>> \in Seq(Update) /\ <<u>> \in Seq(Update)
              /\ <<t, u>> = <<t>> \o <<u>>
            BY <1>14, <2>1, TwoWritten
        <3>2. out \in Seq(Update)
            BY <1>4, <3>1, ConcatProperties
        <3>3. outgoing \o (<<t>> \o <<u>>) = (outgoing \o <<t>>) \o <<u>>
            BY <1>4, <3>1, ConcatAssociative
        <3> QED BY <1>3, <1>14, <3>1, <3>2, <3>3
    <2>4. Leads(b, P(out), d)
        <3>1. Leads(b, P(outgoing \o <<t>>), Replay(d, t))
            BY <1>4, <1>6, <1>8, <1>9, <1>14, <2>2
        <3> QED BY <2>2, <3>1
    <2> HIDE DEF out
    <2>5. Leads(b, P(out \o <<u>>), Replay(d, u))
        BY <1>8, <1>9, <2>1, <2>3, <2>4
    <2> QED BY <2>1, <2>3, <2>5
<1>15. Leads(b, P(outgoing'), PublishedBook')
    BY <1>11, <1>12, <1>13, <1>14
<1>16. Underway'
    BY <1>7, <1>15 DEF Underway
<1> QED BY <1>2, <1>5, <1>16

\* The publisher's two steps.
LEMMA SendKeeps ==
    ASSUME MDInv, SendIncremental
    PROVE  MDInv'
<1> USE DEF MDInv
<1>1. /\ forwarding = NoUpdate /\ outgoing # <<>>
      /\ forwarding' = Head(outgoing) /\ outgoing' = Tail(outgoing) /\ Silent
      /\ nextIncSeqNum' = nextIncSeqNum /\ snapshotMdUpdates' = snapshotMdUpdates
      /\ tickerOrders' = tickerOrders /\ lastIncSeqNum' = lastIncSeqNum
    BY DEF SendIncremental, synthVars
<1>2. IInv' /\ PublishedBook' = PublishedBook
    BY <1>1, SilentKeeps
<1>3. outgoing \in Seq(Update) /\ snapshotMdUpdates \in Seq(HandedMessage)
    BY DEF MDTypes
<1>4. Head(outgoing) \in Update /\ Tail(outgoing) \in Seq(Update)
    BY <1>1, <1>3, HeadTailProperties
<1>5. MDTypes' /\ Numbered'
    BY <1>1, <1>4 DEF MDTypes, Numbered, Table
<1> DEFINE p == PendingOf(snapshotMdUpdates, NoUpdate, outgoing)
           q == PendingOf(snapshotMdUpdates, Head(outgoing), Tail(outgoing))
<1>6. Len(q) = Len(p) /\ \A i \in 1 .. Len(p) : q[i] = p[i]
    BY <1>1, <1>3, SendKeepsPending
<1>7. /\ Pending = p /\ Pending' = q /\ TickerBook' = TickerBook
    BY <1>1 DEF Pending, PendingOf, Handed, InHand, TickerBook, BookOf
<1> HIDE DEF p, q
<1>8. Leads(TickerBook, q, PublishedBook)
    BY <1>6, <1>7, LeadsSame DEF Underway
<1>9. Underway'
    BY <1>2, <1>7, <1>8 DEF Underway
<1> QED BY <1>2, <1>5, <1>9

LEMMA ForwardKeeps ==
    ASSUME MDInv, ForwardUpdate
    PROVE  MDInv'
<1> USE DEF MDInv
<1> DEFINE m == [seqNum |-> nextIncSeqNum, update |-> forwarding]
<1>1. /\ forwarding # NoUpdate /\ snapshotMdUpdates' = Append(snapshotMdUpdates, m)
      /\ forwarding' = NoUpdate /\ nextIncSeqNum' = nextIncSeqNum + 1 /\ Silent
      /\ outgoing' = outgoing /\ tickerOrders' = tickerOrders
      /\ lastIncSeqNum' = lastIncSeqNum
    BY DEF ForwardUpdate, synthVars
<1>2. IInv' /\ PublishedBook' = PublishedBook
    BY <1>1, SilentKeeps
<1>3. /\ outgoing \in Seq(Update) /\ snapshotMdUpdates \in Seq(HandedMessage)
      /\ forwarding \in Update /\ lastIncSeqNum \in Nat
    BY <1>1 DEF MDTypes
<1>4. /\ nextIncSeqNum \in Nat /\ Len(snapshotMdUpdates) \in Nat
      /\ nextIncSeqNum = lastIncSeqNum + (Len(snapshotMdUpdates) + 1)
    BY <1>3, LenProperties DEF Numbered
<1>5. m \in HandedMessage /\ m.seqNum = nextIncSeqNum
    BY <1>3, <1>4 DEF HandedMessage
<1> DEFINE p == PendingOf(snapshotMdUpdates, forwarding, outgoing)
           q == PendingOf(Append(snapshotMdUpdates, m), NoUpdate, outgoing)
<1>6. Len(q) = Len(p) /\ \A i \in 1 .. Len(p) : q[i] = p[i]
    BY <1>3, <1>4, ForwardKeepsPending
<1>7. /\ Pending = p /\ Pending' = q /\ TickerBook' = TickerBook
    BY <1>1 DEF Pending, PendingOf, Handed, InHand, TickerBook, BookOf
<1> HIDE DEF m, p, q
<1>8. /\ snapshotMdUpdates' \in Seq(HandedMessage)
      /\ Len(snapshotMdUpdates') = Len(snapshotMdUpdates) + 1
      /\ \A i \in 1 .. Len(snapshotMdUpdates) :
             snapshotMdUpdates'[i] = snapshotMdUpdates[i]
      /\ snapshotMdUpdates'[Len(snapshotMdUpdates) + 1] = m
    BY <1>1, <1>3, <1>5, AppendProperties
<1>9. MDTypes'
    BY <1>1, <1>8 DEF MDTypes, Table
<1>10. Numbered'
    <2> DEFINE k == Len(snapshotMdUpdates)
    <2>1. \A i \in 1 .. k : snapshotMdUpdates[i].seqNum = lastIncSeqNum + i
        BY DEF Numbered
    <2> HIDE DEF k
    <2>2. nextIncSeqNum' = lastIncSeqNum' + (k + 1) + 1
        BY <1>1, <1>3, <1>4 DEF k
    <2>3. ASSUME NEW i \in 1 .. k + 1
          PROVE  snapshotMdUpdates'[i].seqNum = lastIncSeqNum + i
        <3>1. CASE i = k + 1
            BY <1>4, <1>5, <1>8, <3>1 DEF k
        <3>2. CASE i # k + 1
            <4>1. i \in 1 .. k
                BY <1>4, <3>2 DEF k
            <4> QED BY <1>8, <2>1, <4>1 DEF k
        <3> QED BY <3>1, <3>2
    <2> QED BY <1>1, <1>8, <2>2, <2>3 DEF Numbered, k
<1>11. Leads(TickerBook, q, PublishedBook)
    BY <1>6, <1>7, LeadsSame DEF Underway
<1>12. Underway'
    BY <1>2, <1>7, <1>11 DEF Underway
<1> QED BY <1>2, <1>9, <1>10, <1>12

\* The next message fits the synthesizer's book, and what comes after it goes on
\* from there.
LEMMA HeadFits ==
    ASSUME MDInv, snapshotMdUpdates # <<>>
    PROVE  LET u == Head(snapshotMdUpdates).update
               q == PendingOf(Tail(snapshotMdUpdates), forwarding, outgoing)
           IN  Fits(TickerBook, u) /\ Leads(Replay(TickerBook, u), q, PublishedBook)
<1> USE DEF MDInv
<1> DEFINE u == Head(snapshotMdUpdates).update
           p == PendingOf(snapshotMdUpdates, forwarding, outgoing)
           q == PendingOf(Tail(snapshotMdUpdates), forwarding, outgoing)
<1>1. /\ outgoing \in Seq(Update) /\ snapshotMdUpdates \in Seq(HandedMessage)
      /\ forwarding \in Update \cup {NoUpdate}
    BY DEF MDTypes
<1>2. /\ Len(q) \in Nat /\ Len(p) = Len(q) + 1 /\ p[1] = u
      /\ \A i \in 1 .. Len(q) : q[i] = p[i + 1]
    BY <1>1, TakeShortensPending
<1>3. Leads(TickerBook, p, PublishedBook)
    BY DEF Underway, Pending
<1> HIDE DEF p, q, u
<1>4. Fits(TickerBook, p[1]) /\ Leads(Replay(TickerBook, p[1]), q, PublishedBook)
    BY <1>2, <1>3, LeadsLess
<1> QED BY <1>2, <1>4 DEF q, u

\* The synthesizer's step.
LEMMA SnapshotKeeps ==
    ASSUME MDInv, AddToSnapshot
    PROVE  MDInv'
<1> USE DEF MDInv
<1> DEFINE queue == snapshotMdUpdates
           u == Head(queue).update
           rest == Tail(queue)
           q == PendingOf(rest, forwarding, outgoing)
<1>1. /\ queue # <<>> /\ tickerOrders' = Apply(u)
      /\ lastIncSeqNum' = Head(queue).seqNum
      /\ snapshotMdUpdates' = rest /\ Silent /\ outgoing' = outgoing
      /\ forwarding' = forwarding /\ nextIncSeqNum' = nextIncSeqNum
    BY DEF AddToSnapshot, publisherVars
<1>2. IInv' /\ PublishedBook' = PublishedBook
    BY <1>1, SilentKeeps
<1>3. Fits(TickerBook, u) /\ Leads(Replay(TickerBook, u), q, PublishedBook)
    BY <1>1, HeadFits
<1>4. queue \in Seq(HandedMessage) /\ lastIncSeqNum \in Nat /\ Table(tickerOrders)
    BY DEF MDTypes
<1>5. /\ rest \in Seq(HandedMessage) /\ Len(rest) = Len(queue) - 1
      /\ \A i \in 1 .. Len(rest) : rest[i] = queue[i + 1]
      /\ Head(queue) = queue[1] /\ Len(queue) \in Nat /\ Len(queue) > 0
    <2>1. /\ rest \in Seq(HandedMessage) /\ Len(rest) = Len(queue) - 1
          /\ \A i \in 1 .. Len(rest) : rest[i] = queue[i + 1]
        BY <1>1, <1>4, HeadTailProperties
    <2>2. Head(queue) = queue[1] /\ Len(queue) \in Nat /\ Len(queue) > 0
        BY <1>1, <1>4, EmptySeq, LenProperties
    <2> QED BY <2>1, <2>2
<1>6. Table(tickerOrders') /\ TickerBook' = Replay(TickerBook, u)
    <2>1. Table(Apply(u)) /\ BookOf(Apply(u)) = Replay(TickerBook, u)
        BY <1>3, <1>4, ApplyReplays DEF TickerBook
    <2>2. TickerBook' = BookOf(tickerOrders')
        BY DEF TickerBook, BookOf
    <2> QED BY <1>1, <2>1, <2>2
<1>7. Pending' = q
    BY <1>1 DEF Pending, PendingOf, Handed, InHand
<1> HIDE DEF u, rest, q
<1>8. /\ nextIncSeqNum = lastIncSeqNum + Len(queue) + 1
      /\ \A i \in 1 .. Len(queue) : queue[i].seqNum = lastIncSeqNum + i
    BY DEF Numbered
<1>9. lastIncSeqNum' = lastIncSeqNum + 1
    <2>1. 1 \in 1 .. Len(queue)
        BY <1>5
    <2> QED BY <1>1, <1>5, <1>8, <2>1
<1>10. MDTypes'
    BY <1>1, <1>4, <1>5, <1>6, <1>9 DEF MDTypes, Table
<1>11. Numbered'
    <2>1. nextIncSeqNum' = lastIncSeqNum' + Len(rest) + 1
        BY <1>1, <1>4, <1>5, <1>8, <1>9
    <2>2. ASSUME NEW i \in 1 .. Len(rest) PROVE rest[i].seqNum = lastIncSeqNum' + i
        <3>1. i + 1 \in 1 .. Len(queue)
            BY <1>5
        <3>2. queue[i + 1].seqNum = lastIncSeqNum + (i + 1) /\ rest[i] = queue[i + 1]
            BY <1>5, <1>8, <3>1
        <3>3. i \in Nat /\ lastIncSeqNum + (i + 1) = (lastIncSeqNum + 1) + i
            BY <1>4
        <3> QED BY <1>9, <3>2, <3>3
    <2> QED BY <1>1, <2>1, <2>2 DEF Numbered
<1>12. Underway'
    BY <1>2, <1>3, <1>6, <1>7 DEF Underway
<1> QED BY <1>2, <1>10, <1>11, <1>12

\* The invariant holds at first, and after every step of the three threads.
LEMMA InitMDInv == MDInit => MDInv
<1> SUFFICES ASSUME MDInit PROVE MDInv
    OBVIOUS
<1>1. IInv /\ orders = {}
    BY InitIInv DEF MDInit, Init
<1>2. /\ outgoing = <<>> /\ forwarding = NoUpdate /\ nextIncSeqNum = 1
      /\ snapshotMdUpdates = <<>> /\ lastIncSeqNum = 0
      /\ tickerOrders = [m \in Mids |-> NoOrder]
    BY DEF MDInit
<1>3. Table(tickerOrders) /\ TickerBook = {}
    BY <1>2 DEF Table, TickerBook, BookOf
<1>4. MDTypes /\ Numbered
    BY <1>2, <1>3 DEF MDTypes, Numbered
<1>5. PublishedBook = {}
    BY <1>1 DEF PublishedBook
<1>6. Len(Pending) = 0
    <2>1. /\ <<>> \in Seq(HandedMessage) /\ <<>> \in Seq(Update)
          /\ Len(<<>>) = 0
        OBVIOUS
    <2>2. Len(Handed(<<>>)) = 0 /\ Handed(<<>>) \in Seq(Update)
        BY <2>1, HandedIs
    <2>3. Handed(<<>>) = <<>>
        BY <2>2, EmptySeq
    <2>4. InHand(NoUpdate) = <<>>
        BY DEF InHand
    <2> QED BY <1>2, <2>3, <2>4 DEF Pending, PendingOf
<1>7. Underway
    <2> DEFINE c == [i \in 0 .. 0 |-> {}]
               p == Pending
    <2>1. Sound({})
        BY DEF Sound
    <2>2. Len(p) = 0 /\ c[0] = {} /\ DOMAIN c = 0 .. 0
        BY <1>6
    <2> HIDE DEF c, p
    <2>3. Books(c, p) /\ c[Len(p)] = {}
        BY <2>1, <2>2 DEF Books
    <2>4. Leads({}, p, {})
        BY <2>2, <2>3 DEF Leads
    <2> QED BY <1>3, <1>5, <2>4 DEF Underway, p
<1> QED BY <1>1, <1>4, <1>7 DEF MDInv

LEMMA StepMDInv == PriceWindow /\ MDInv /\ [MDNext]_mdVars => MDInv'
<1>1. ASSUME MDInv, UNCHANGED mdVars PROVE MDInv'
    <2>1. UNCHANGED vars /\ outgoing' = outgoing /\ forwarding' = forwarding
          /\ nextIncSeqNum' = nextIncSeqNum /\ snapshotMdUpdates' = snapshotMdUpdates
          /\ tickerOrders' = tickerOrders /\ lastIncSeqNum' = lastIncSeqNum
        BY <1>1 DEF mdVars, publisherVars, synthVars
    <2>2. IInv' /\ PublishedBook' = PublishedBook
        BY <1>1, <2>1 DEF vars, bookVars, outVars, MDInv, IInv, TypeOK, BookInv,
           MidsUnique, LevelsAgree, OrdersAt, MapAgrees, Uncrossed,
           PriorityIsArrival, AggressorInv, PublishedBook, Published
    <2>3. MDTypes' /\ Numbered'
        BY <1>1, <2>1 DEF MDInv, MDTypes, Numbered, Table
    <2>4. Pending' = Pending /\ TickerBook' = TickerBook
        BY <2>1 DEF Pending, PendingOf, Handed, InHand, TickerBook, BookOf
    <2>5. Underway'
        BY <1>1, <2>2, <2>4 DEF MDInv, Underway
    <2> QED BY <2>2, <2>3, <2>5 DEF MDInv
<1> QED BY <1>1, EngineKeeps, SendKeeps, ForwardKeeps, SnapshotKeeps
        DEF MDNext, Publisher, Synthesizer

\* The snapshot's book, what is under way and the engine's book fit together at
\* every moment of the three threads' work.
THEOREM MDInvHolds == PriceWindow => (MDSpec => []MDInv)
<1> SUFFICES ASSUME PriceWindow PROVE MDSpec => []MDInv
    OBVIOUS
<1> QED BY InitMDInv, StepMDInv, PTL DEF MDSpec

-----------------------------------------------------------------------------
(* The theorems.                                                           *)

\* The first update that is under way fits the synthesizer's book.
LEMMA Unsurprised == MDInv => NothingUnexpected
<1> SUFFICES ASSUME MDInv, snapshotMdUpdates # <<>>
             PROVE  Expected(Head(snapshotMdUpdates))
    BY DEF NothingUnexpected
<1> DEFINE m == Head(snapshotMdUpdates)
           u == m.update
<1>1. Table(tickerOrders) /\ snapshotMdUpdates \in Seq(HandedMessage)
    BY DEF MDInv, MDTypes
<1>2. m.seqNum = lastIncSeqNum + 1
    <2>1. 1 \in 1 .. Len(snapshotMdUpdates) /\ m = snapshotMdUpdates[1]
        BY <1>1, EmptySeq, LenProperties
    <2> QED BY <2>1 DEF MDInv, Numbered
<1>3. Fits(BookOf(tickerOrders), u)
    BY HeadFits DEF TickerBook
<1> HIDE DEF m
<1>4. ASSUME u.type = "ADD" PROVE tickerOrders[u.mid] = NoOrder
    BY <1>1, <1>3, <1>4, InTable DEF Fits
<1>5. ASSUME u.type \in {"MODIFY", "CANCEL"}
      PROVE  tickerOrders[u.mid] # NoOrder /\ tickerOrders[u.mid].side = u.side
    <2>1. PICK e \in BookOf(tickerOrders) : e.mid = u.mid /\ e.side = u.side
        BY <1>3, <1>5 DEF Fits
    <2>2. e \in Entry /\ tickerOrders[u.mid] = e
        BY <1>1, <2>1, InBookOf
    <2> QED BY <2>1, <2>2, EntryIsSomething
<1> QED BY <1>2, <1>4, <1>5 DEF Expected, m

\* However far the three threads are apart, the snapshot synthesizer is never
\* handed an update that its ASSERTs would end the exchange for: each has the next
\* number, adds an order that is not there, or changes one that is, on its side.
THEOREM SynthesizerNeverSurprised == PriceWindow => (MDSpec => []NothingUnexpected)
<1> SUFFICES ASSUME PriceWindow PROVE MDSpec => []NothingUnexpected
    OBVIOUS
<1> QED BY MDInvHolds, Unsurprised, PTL

-----------------------------------------------------------------------------
(* What a snapshot cycle sends.                                            *)

\* s lists the orders of the table up to number n, by ascending number.
Listed(T, s, n) ==
    /\ s \in Seq(Entry)
    /\ \A i \in 1 .. Len(s) : s[i].mid <= n /\ T[s[i].mid] = s[i]
    /\ \A m \in 1 .. n : T[m] # NoOrder => \E i \in 1 .. Len(s) : s[i] = T[m]
    /\ \A i, j \in 1 .. Len(s) : i < j => s[i].mid < s[j].mid

\* What the loop over the table makes of the list of those before number m.
Longer(T, s, m) == IF T[m] = NoOrder THEN s ELSE Append(s, T[m])

\* The list stays a list of what the loop has passed.
LEMMA ListGrows ==
    ASSUME NEW T, Table(T), NEW m \in Mids, NEW s, Listed(T, s, m - 1)
    PROVE  Listed(T, Longer(T, s, m), m)
<1>0. m \in Nat /\ m - 1 \in 0 .. m /\ m \in 1 .. m
    BY MaxOrdersAssumption DEF Mids
<1>1. /\ s \in Seq(Entry) /\ Len(s) \in Nat
      /\ \A i \in 1 .. Len(s) : s[i] \in Entry /\ s[i].mid \in Nat
      /\ \A i \in 1 .. Len(s) : s[i].mid <= m - 1 /\ T[s[i].mid] = s[i]
      /\ \A k \in 1 .. m - 1 : T[k] # NoOrder => \E i \in 1 .. Len(s) : s[i] = T[k]
      /\ \A i, j \in 1 .. Len(s) : i < j => s[i].mid < s[j].mid
    BY ElementOfSeq, LenProperties, EntryIsSomething, MidsAreNat DEF Listed
<1>2. \A k \in 1 .. m : k = m \/ k \in 1 .. m - 1
    BY <1>0
<1>3. \A x \in Nat : x <= m - 1 => x <= m /\ x < m
    BY <1>0
<1>4. CASE T[m] = NoOrder
    <2>1. Longer(T, s, m) = s
        BY <1>4 DEF Longer
    <2> QED BY <1>1, <1>2, <1>3, <1>4, <2>1 DEF Listed
<1>5. CASE T[m] # NoOrder
    <2> DEFINE n == Len(s)
               t == Append(s, T[m])
    <2>1. T[m] \in Entry /\ T[m].mid = m
        BY <1>5 DEF Table
    <2>2. /\ t \in Seq(Entry) /\ Len(t) = n + 1
          /\ \A i \in 1 .. n : t[i] = s[i]
          /\ t[n + 1] = T[m]
        BY <1>1, <2>1, AppendProperties
    <2>3. Longer(T, s, m) = t
        BY <1>5 DEF Longer
    <2> HIDE DEF t, n
    <2>4. n \in Nat /\ \A i \in 1 .. n + 1 : i = n + 1 \/ i \in 1 .. n
        BY <1>1 DEF n
    <2>5. ASSUME NEW i \in 1 .. n + 1 PROVE t[i].mid <= m /\ T[t[i].mid] = t[i]
        BY <1>0, <1>1, <1>3, <2>1, <2>2, <2>4 DEF n
    <2>6. ASSUME NEW k \in 1 .. m, T[k] # NoOrder
          PROVE  \E i \in 1 .. n + 1 : t[i] = T[k]
        <3>1. CASE k = m
            <4>1. n + 1 \in 1 .. n + 1
                BY <2>4
            <4> QED BY <2>2, <3>1, <4>1
        <3>2. CASE k \in 1 .. m - 1
            <4>1. PICK i \in 1 .. n : s[i] = T[k]
                BY <1>1, <2>6, <3>2 DEF n
            <4>2. i \in 1 .. n + 1
                BY <2>4
            <4> QED BY <2>2, <4>1, <4>2
        <3> QED BY <1>2, <3>1, <3>2
    <2>7. ASSUME NEW i \in 1 .. n + 1, NEW j \in 1 .. n + 1, i < j
          PROVE  t[i].mid < t[j].mid
        <3>1. i \in 1 .. n
            BY <2>4, <2>7
        <3>2. CASE j = n + 1
            BY <1>1, <1>3, <2>1, <2>2, <3>1, <3>2 DEF n
        <3>3. CASE j \in 1 .. n
            BY <1>1, <2>2, <2>7, <3>1, <3>3 DEF n
        <3> QED BY <2>4, <3>2, <3>3
    <2> QED BY <2>2, <2>3, <2>5, <2>6, <2>7 DEF Listed
<1> QED BY <1>4, <1>5

\* g is what the loop has listed after each number up to n.
Lists(T, g, n) ==
    g = [m \in 0 .. n |-> IF m = 0 THEN <<>> ELSE Longer(T, g[m - 1], m)]

\* The loop is well defined ...
LEMMA ListExists ==
    ASSUME NEW T, NEW n \in Nat
    PROVE  \E g : Lists(T, g, n)
<1> DEFINE Bad == {k \in Nat : ~\E g : Lists(T, g, k)}
<1> SUFFICES ASSUME Bad # {} PROVE FALSE
    OBVIOUS
<1>1. PICK k \in Bad : \A j \in Bad : k <= j
    <2>1. Bad \in SUBSET Nat
        OBVIOUS
    <2> HIDE DEF Bad
    <2> QED BY <2>1, LeastNumber
<1>2. k \in Nat /\ ~\E g : Lists(T, g, k)
    OBVIOUS
<1>3. CASE k = 0
    <2> DEFINE g == [m \in 0 .. 0 |-> <<>>]
    <2>1. \A m \in 0 .. 0 : m = 0
        OBVIOUS
    <2>2. g = [m \in 0 .. 0 |-> IF m = 0 THEN <<>> ELSE Longer(T, g[m - 1], m)]
        BY <2>1
    <2> HIDE DEF g
    <2>3. Lists(T, g, 0)
        BY <2>2 DEF Lists
    <2> QED BY <1>2, <1>3, <2>3
<1>4. CASE k # 0
    <2>1. k - 1 \in Nat /\ ~(k <= k - 1)
        BY <1>2, <1>4
    <2>2. PICK g : Lists(T, g, k - 1)
        BY <1>1, <2>1
    <2> DEFINE h == [m \in 0 .. k |-> IF m = k THEN Longer(T, g[k - 1], k) ELSE g[m]]
    <2>3. \A m \in 0 .. k - 1 : g[m] = IF m = 0 THEN <<>> ELSE Longer(T, g[m - 1], m)
        BY <2>2 DEF Lists
    <2>4. /\ h = [m \in 0 .. k |-> h[m]]
          /\ \A m \in 0 .. k - 1 : h[m] = g[m]
          /\ h[k] = Longer(T, g[k - 1], k)
        BY <1>2
    <2> HIDE DEF h
    <2>5. ASSUME NEW m \in 0 .. k
          PROVE  h[m] = IF m = 0 THEN <<>> ELSE Longer(T, h[m - 1], m)
        <3>1. CASE m = k
            <4>1. k - 1 \in 0 .. k - 1
                BY <2>1
            <4> QED BY <1>4, <2>4, <3>1, <4>1
        <3>2. CASE m # k
            <4>1. m \in 0 .. k - 1 /\ (m # 0 => m - 1 \in 0 .. k - 1)
                BY <1>2, <3>2
            <4> QED BY <2>3, <2>4, <4>1
        <3> QED BY <3>1, <3>2
    <2>6. h = [m \in 0 .. k |-> IF m = 0 THEN <<>> ELSE Longer(T, h[m - 1], m)]
        BY <2>4, <2>5
    <2>7. Lists(T, h, k)
        BY <2>6 DEF Lists
    <2> QED BY <1>2, <2>7
<1> QED BY <1>3, <1>4

\* ... and lists the table.
LEMMA ListsTable ==
    ASSUME NEW T, Table(T), NEW g, Lists(T, g, MaxOrders)
    PROVE  Listed(T, g[MaxOrders], MaxOrders)
<1>1. \A m \in 0 .. MaxOrders :
          g[m] = IF m = 0 THEN <<>> ELSE Longer(T, g[m - 1], m)
    BY DEF Lists
<1>2. MaxOrders \in 0 .. MaxOrders
    BY MaxOrdersAssumption
<1> DEFINE Bad == {m \in 0 .. MaxOrders : ~Listed(T, g[m], m)}
<1> SUFFICES ASSUME Bad # {} PROVE FALSE
    BY <1>2
<1>3. PICK m \in Bad : \A j \in Bad : m <= j
    <2>1. Bad \in SUBSET Nat
        OBVIOUS
    <2> HIDE DEF Bad
    <2> QED BY <2>1, LeastNumber
<1>4. m \in 0 .. MaxOrders /\ ~Listed(T, g[m], m)
    OBVIOUS
<1>5. CASE m = 0
    <2>1. Listed(T, <<>>, 0)
        BY DEF Listed
    <2> QED BY <1>1, <1>4, <1>5, <2>1
<1>6. CASE m # 0
    <2>1. m \in Mids /\ m - 1 \in 0 .. MaxOrders /\ ~(m <= m - 1)
        BY <1>4, <1>6, MaxOrdersAssumption DEF Mids
    <2>2. Listed(T, g[m - 1], m - 1)
        BY <1>3, <2>1
    <2>3. g[m] = Longer(T, g[m - 1], m)
        BY <1>1, <1>4, <1>6
    <2> QED BY <1>4, <2>1, <2>2, <2>3, ListGrows
<1> QED BY <1>5, <1>6

\* A cycle carries the last number applied, and lists the synthesizer's table.
LEMMA SnapshotLists ==
    ASSUME Table(tickerOrders)
    PROVE  /\ PublishSnapshot.last = lastIncSeqNum
           /\ Listed(tickerOrders, PublishSnapshot.orders, MaxOrders)
<1> DEFINE T == tickerOrders
           sent[m \in 0 .. MaxOrders] ==
               IF m = 0 THEN <<>>
               ELSE IF T[m] = NoOrder THEN sent[m - 1]
               ELSE Append(sent[m - 1], T[m])
<1>1. /\ PublishSnapshot.last = lastIncSeqNum
      /\ PublishSnapshot.orders = sent[MaxOrders]
    BY DEF PublishSnapshot
<1>2. PICK g : Lists(T, g, MaxOrders)
    BY MaxOrdersAssumption, ListExists
<1>3. g = [m \in 0 .. MaxOrders |->
              IF m = 0 THEN <<>>
              ELSE IF T[m] = NoOrder THEN g[m - 1]
              ELSE Append(g[m - 1], T[m])]
    BY <1>2, Zenon DEF Lists, Longer
<1>4. sent = [m \in 0 .. MaxOrders |->
                 IF m = 0 THEN <<>>
                 ELSE IF T[m] = NoOrder THEN sent[m - 1]
                 ELSE Append(sent[m - 1], T[m])]
    BY <1>3, Zenon
<1> HIDE DEF sent
<1>5. Lists(T, sent, MaxOrders)
    BY <1>4 DEF Lists, Longer
<1> QED BY <1>1, <1>5, ListsTable

\* The updates after the last number applied are those under way.
LEMMA AfterIsPending ==
    ASSUME MDTypes, Numbered
    PROVE  After(lastIncSeqNum) = Pending
<1> DEFINE queue == snapshotMdUpdates
           k == Len(queue)
<1>1. /\ lastIncSeqNum \in Nat /\ queue \in Seq(HandedMessage) /\ k \in Nat
      /\ DOMAIN queue = 1 .. k
    BY LenProperties DEF MDTypes
<1>2. /\ nextIncSeqNum = lastIncSeqNum + k + 1
      /\ \A i \in 1 .. k : queue[i].seqNum = lastIncSeqNum + i
    BY DEF Numbered
<1>3. nextIncSeqNum - 1 - lastIncSeqNum = k
    <2> HIDE DEF k
    <2> QED BY <1>1, <1>2
<1>4. ASSUME NEW i \in 1 .. k PROVE HandedOn(lastIncSeqNum + i) = queue[i].update
    <2> DEFINE queued == {queue[j] : j \in DOMAIN queue}
               N(m) == m.seqNum = lastIncSeqNum + i
               m0 == CHOOSE m \in queued : N(m)
    <2>1. HandedOn(lastIncSeqNum + i) = m0.update
        BY DEF HandedOn
    <2>2. queue[i] \in queued /\ N(queue[i])
        BY <1>1, <1>2
    <2>3. m0 \in queued /\ N(m0)
        <3> HIDE DEF queued, N
        <3> QED BY <2>2
    <2>4. PICK j \in 1 .. k : m0 = queue[j]
        BY <1>1, <2>3
    <2>5. lastIncSeqNum + j = lastIncSeqNum + i
        BY <1>2, <2>3, <2>4
    <2>6. j = i
        <3> HIDE DEF k
        <3> QED BY <1>1, <2>5
    <2> QED BY <2>1, <2>4, <2>6
<1>5. [i \in 1 .. nextIncSeqNum - 1 - lastIncSeqNum |-> HandedOn(lastIncSeqNum + i)]
          = Handed(queue)
    <2>1. Handed(queue) = [i \in 1 .. k |-> queue[i].update]
        BY DEF Handed
    <2> HIDE DEF k, queue
    <2> QED BY <1>3, <1>4, <2>1
<1>6. (IF forwarding = NoUpdate THEN <<>> ELSE <<forwarding>>) = InHand(forwarding)
    BY DEF InHand
<1> QED BY <1>5, <1>6 DEF After, Pending, PendingOf

\* A reader who takes the cycle and what is numbered after it has the engine's book.
LEMMA Joins == MDInv => SnapshotJoinsStream
<1> SUFFICES ASSUME MDInv PROVE SnapshotJoinsStream
    OBVIOUS
<1> USE DEF MDInv
<1> DEFINE T == tickerOrders
           s == PublishSnapshot.orders
           D == 1 .. Len(s)
<1>1. Table(T)
    BY DEF MDTypes
<1>2. PublishSnapshot.last = lastIncSeqNum /\ Listed(T, s, MaxOrders)
    BY <1>1, SnapshotLists
<1> HIDE DEF s
<1>3. /\ s \in Seq(Entry) /\ DOMAIN s = D
      /\ \A i \in D : s[i] \in Entry /\ T[s[i].mid] = s[i]
      /\ \A m \in Mids : T[m] # NoOrder => \E i \in D : s[i] = T[m]
      /\ \A i, j \in D : i < j => s[i].mid < s[j].mid
    BY <1>2, ElementOfSeq, LenProperties DEF Listed, Mids
<1> HIDE DEF D
<1>4. {s[i] : i \in DOMAIN s} = TickerBook
    <2>1. ASSUME NEW i \in D PROVE s[i] \in TickerBook
        BY <1>1, <1>3, InBookOf DEF TickerBook
    <2>2. ASSUME NEW e \in TickerBook PROVE \E i \in D : s[i] = e
        <3>1. e \in Entry /\ T[e.mid] = e
            BY <1>1, <2>2, InBookOf DEF TickerBook
        <3>2. e.mid \in Mids /\ T[e.mid] # NoOrder
            BY <3>1, EntryIsSomething
        <3> QED BY <1>3, <3>1, <3>2
    <2> QED BY <1>3, <2>1, <2>2
<1>5. Leads(TickerBook, Pending, PublishedBook)
    BY DEF Underway
<1>6. Len(Pending) \in Nat
    <2>1. /\ outgoing \in Seq(Update) /\ snapshotMdUpdates \in Seq(HandedMessage)
          /\ forwarding \in Update \cup {NoUpdate}
        BY DEF MDTypes
    <2> QED BY <2>1, PendingIs DEF Pending
<1>7. ReplayAll({s[i] : i \in DOMAIN s}, After(PublishSnapshot.last)) = PublishedBook
    <2>1. ReplayAll(TickerBook, Pending) = PublishedBook
        BY <1>5, <1>6, LeadsIsReplay
    <2> QED BY <1>2, <1>4, <2>1, AfterIsPending
<1>8. Sound(TickerBook)
    <2> DEFINE p == Pending
    <2>1. PICK c : Books(c, p) /\ c[0] = TickerBook
        BY <1>5 DEF Leads
    <2>2. 0 \in 0 .. Len(p)
        BY <1>6
    <2> QED BY <2>1, <2>2 DEF Books
<1>9. ASSUME NEW i \in DOMAIN s, NEW j \in DOMAIN s, i < j,
             s[i].side = s[j].side, s[i].price = s[j].price
      PROVE  s[i].priority < s[j].priority
    <2>1. s[i] \in TickerBook /\ s[j] \in TickerBook
        BY <1>4
    <2>2. s[i].mid < s[j].mid
        BY <1>3, <1>9
    <2> QED BY <1>8, <1>9, <2>1, <2>2 DEF Sound
<1> QED BY <1>7, <1>9 DEF SnapshotJoinsStream, s

\* Whenever a snapshot cycle is sent, however far the engine, the publisher and the
\* synthesizer are apart, the cycle and the updates numbered after the number it
\* carries give the engine's book, and the cycle lists the orders of each price in
\* the order in which they trade.
THEOREM CycleJoinsStream == PriceWindow => (MDSpec => []SnapshotJoinsStream)
<1> SUFFICES ASSUME PriceWindow PROVE MDSpec => []SnapshotJoinsStream
    OBVIOUS
<1> QED BY MDInvHolds, Joins, PTL
=============================================================================
