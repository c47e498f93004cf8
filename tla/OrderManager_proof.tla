-------------------------- MODULE OrderManager_proof --------------------------
(***************************************************************************)
(* A client's position keeps to its limit, it has one order on a side at   *)
(* most, and responses meet the order they are about: for every limit,     *)
(* clip and set of prices, and any number of orders.  The profit that the  *)
(* loss limit is checked against is real where averages are exact.         *)
(***************************************************************************)
EXTENDS OrderManager, SequenceTheorems, FiniteSetTheorems, TLAPS

-----------------------------------------------------------------------------
(* The inductive invariant: what there is of a side's order in the two     *)
(* channels and in the exchange's book, given the state it has in its slot.*)

\* Request i carries a new order of side s.
IsNew(s, i) == requests[i].type = "NEW" /\ requests[i].side = s

\* Only a rejected cancel has no side.
SidesKnown ==
    \A i \in DOMAIN responses :
        responses[i].side \in Sides <=> responses[i].type # "CANCEL_REJECTED"

\* An order that is not dead has an id and a quantity.
AliveIsKnown(s) ==
    slot[s].state \in Alive => slot[s].oid # Invalid /\ slot[s].qty # Invalid

\* Nothing is out there of an order that is dead.
DeadIsGone(s) ==
    slot[s].state \in Dead =>
        /\ \A i \in DOMAIN requests : ~IsNew(s, i)
        /\ \A o \in open : o.side # s
        /\ \A i \in DOMAIN responses : responses[i].side # s

\* What is out there is of the slot's order.
SameOrder(s) ==
    /\ \A i \in DOMAIN requests : IsNew(s, i) => requests[i].oid = slot[s].oid
    /\ \A o \in open : o.side = s => o.oid = slot[s].oid
    /\ \A i \in DOMAIN responses : responses[i].side = s => responses[i].oid = slot[s].oid

\* While the new order is on its way, there is nothing else of its side.
NewIsAlone(s) ==
    \A i \in DOMAIN requests : IsNew(s, i) =>
        /\ slot[s].state = "PENDING_NEW"
        /\ requests[i].qty = slot[s].qty
        /\ \A j \in DOMAIN requests : IsNew(s, j) => j = i
        /\ \A o \in open : o.side # s
        /\ \A j \in DOMAIN responses : responses[j].side # s

\* The acceptance is the first response about an order, and the only one.
AcceptedIsFirst(s) ==
    \A i \in DOMAIN responses :
        responses[i].side = s /\ responses[i].type = "ACCEPTED" =>
            /\ slot[s].state = "PENDING_NEW"
            /\ \A j \in DOMAIN responses : responses[j].side = s =>
                   i <= j /\ (responses[j].type = "ACCEPTED" => j = i)

\* The last response about an order.
IsFinal(r) == r.type = "CANCELED" \/ (r.type = "FILLED" /\ r.leaves = 0)

\* After the last response, and in the book, there is nothing of the order.
FinalIsLast(s) ==
    \A i \in DOMAIN responses :
        responses[i].side = s /\ IsFinal(responses[i]) =>
            /\ \A o \in open : o.side # s
            /\ \A j \in DOMAIN responses : responses[j].side = s => j <= i

\* A fill takes no more than what the client believes is left, nor than what the
\* fills before it have left; and of that the book has no more.
FillsAddUp(s) ==
    /\ \A o, p \in open : o.side = s /\ p.side = s => o = p
    /\ \A o \in open : o.side = s => o.qty <= slot[s].qty
    /\ \A i \in DOMAIN responses :
           responses[i].side = s /\ responses[i].type = "FILLED" =>
               /\ responses[i].exec + responses[i].leaves <= slot[s].qty
               /\ \A o \in open : o.side = s => o.qty <= responses[i].leaves
               /\ \A j \in DOMAIN responses :
                      j < i /\ responses[j].side = s /\ responses[j].type = "FILLED" =>
                          responses[i].exec + responses[i].leaves <= responses[j].leaves

SideInv(s) == /\ AliveIsKnown(s)
              /\ DeadIsGone(s)
              /\ SameOrder(s)
              /\ NewIsAlone(s)
              /\ AcceptedIsFirst(s)
              /\ FinalIsLast(s)
              /\ FillsAddUp(s)

IInv == /\ TypeOK
        /\ SidesKnown
        /\ \A s \in Sides : SideInv(s)
        /\ PositionWithinLimit

-----------------------------------------------------------------------------
(* Types.                                                                  *)

\* A fill keeps the keeper's type.
LEMMA AddFillType ==
    ASSUME KeeperTypeOK, NEW s \in Sides, NEW p \in Int, NEW q \in Nat,
           AddFill(s, p, q)
    PROVE  KeeperTypeOK'
<1>1. /\ Scale \in Int
      /\ SideToValue(s) \in Int
      /\ Opposite(s) \in Sides
      /\ Abs(position) \in Int
      /\ position = 0 \/ Abs(position) > 0
    BY ScaleAssumption DEF KeeperTypeOK, SideToValue, Opposite, Sides, Abs
<1>2. Scale * p \in Int /\ Scale * p * q \in Int
    BY <1>1
<1>3. ASSUME NEW n \in Int, NEW t \in Sides, position # 0
      PROVE  CostOf(n, t) \in Int
    <2>1. n * openVWAP[t] \in Int
        BY DEF KeeperTypeOK
    <2> QED BY <1>1, <1>3, <2>1 DEF CostOf
<1>4. q * SideToValue(s) \in Int
    BY <1>1
<1>5. position' \in Int
    BY <1>4 DEF AddFill, KeeperTypeOK
<1>6. position * SideToValue(s) >= 0 \/ position # 0
    BY <1>1 DEF KeeperTypeOK
<1>7. openVWAP' \in [Sides -> Int]
    <2> DEFINE new == position + q * SideToValue(s)
    <2>1. new \in Int /\ Abs(new) \in Int
        BY <1>4 DEF KeeperTypeOK, Abs
    <2>2. Scale * p * Abs(new) \in Int
        BY <1>2, <2>1
    <2>3. openVWAP[s] + Scale * p * q \in Int
        BY <1>2 DEF KeeperTypeOK
    <2>4. CASE new = 0
        BY <2>4 DEF AddFill, OpenAfter
    <2>5. CASE new # 0 /\ position * SideToValue(s) >= 0
        BY <2>3, <2>5 DEF AddFill, OpenAfter, KeeperTypeOK
    <2>6. CASE new # 0 /\ ~(position * SideToValue(s) >= 0) /\ new * position < 0
        BY <2>2, <2>6 DEF AddFill, OpenAfter
    <2>7. CASE new # 0 /\ ~(position * SideToValue(s) >= 0) /\ ~(new * position < 0)
        <3>1. CostOf(Abs(new), Opposite(s)) \in Int
            BY <1>1, <1>3, <1>6, <2>1, <2>7
        <3> QED BY <2>7, <3>1 DEF AddFill, OpenAfter, KeeperTypeOK
    <2> QED BY <2>4, <2>5, <2>6, <2>7
<1>8. Realized(s, p, q) \in Int
    <2> DEFINE closed == Lesser(q, Abs(position))
    <2>1. closed \in Int
        BY <1>1 DEF Lesser
    <2>2. Scale * p * closed \in Int
        BY <1>2, <2>1
    <2>3. CASE ~(position * SideToValue(s) >= 0)
        <3>1. CostOf(closed, Opposite(s)) - Scale * p * closed \in Int
            BY <1>1, <1>3, <1>6, <2>1, <2>2, <2>3
        <3>2. SideToValue(s) * (CostOf(closed, Opposite(s)) - Scale * p * closed) \in Int
            BY <1>1, <3>1
        <3> QED BY <2>3, <3>2 DEF Realized
    <2> QED BY <2>3 DEF Realized
<1>9. realPnL' \in Int
    BY <1>8 DEF AddFill, KeeperTypeOK
<1>10. Unrealized(position', openVWAP', Scale * p) \in Int
    <2>1. position' * (Scale * p) \in Int
        BY <1>2, <1>5
    <2> QED BY <1>7, <2>1 DEF Unrealized, Sides
<1>11. totalPnL' \in Int
    BY <1>9, <1>10 DEF AddFill
<1>12. cash' \in Int
    <2>1. Scale * p * q * SideToValue(s) \in Int
        BY <1>1, <1>2
    <2> QED BY <2>1 DEF AddFill, KeeperTypeOK
<1>13. mark' \in Int
    BY <1>2 DEF AddFill
<1> QED BY <1>5, <1>7, <1>9, <1>11, <1>12, <1>13 DEF KeeperTypeOK

\* A change of the best prices keeps the keeper's type.
LEMMA UpdateBBOType ==
    ASSUME KeeperTypeOK, NEW bid \in Int, NEW ask \in Int, UpdateBBO(bid, ask)
    PROVE  KeeperTypeOK'
<1> DEFINE price == (Scale * (bid + ask)) \div 2
<1>1. price \in Int
    <2>1. Scale * (bid + ask) \in Int
        BY ScaleAssumption
    <2> QED BY <2>1
<1>2. Unrealized(position, openVWAP, price) \in Int
    <2>1. position * price \in Int
        BY <1>1 DEF KeeperTypeOK
    <2> QED BY <2>1 DEF Unrealized, Sides, KeeperTypeOK
<1>3. totalPnL' \in Int
    BY <1>2 DEF UpdateBBO, TotalPnLAt, KeeperTypeOK
<1>4. mark' \in Int
    BY <1>1 DEF UpdateBBO, KeeperTypeOK
<1> QED BY <1>3, <1>4 DEF UpdateBBO, KeeperTypeOK

-----------------------------------------------------------------------------
(* Sequences.                                                              *)

\* What is in a queue when its head is taken.
LEMMA AfterTail ==
    ASSUME NEW S, NEW q \in Seq(S), q # <<>>
    PROVE  /\ Tail(q) \in Seq(S)
           /\ DOMAIN Tail(q) \subseteq Nat \ {0}
           /\ \A i \in DOMAIN Tail(q) : i + 1 \in DOMAIN q /\ Tail(q)[i] = q[i + 1]
           /\ 1 \in DOMAIN q
           /\ Head(q) = q[1]
           /\ Head(q) \in S
<1>1. Len(q) \in Nat \ {0} /\ DOMAIN q = 1 .. Len(q)
    BY EmptySeq, LenProperties
<1>2. /\ Tail(q) \in Seq(S)
      /\ Len(Tail(q)) = Len(q) - 1
      /\ \A i \in 1 .. Len(Tail(q)) : Tail(q)[i] = q[i + 1]
      /\ Head(q) \in S
    BY HeadTailProperties
<1>3. DOMAIN Tail(q) = 1 .. Len(q) - 1
    BY <1>2, LenProperties
<1>4. Head(q) = q[1]
    BY SMT
<1> QED BY <1>1, <1>2, <1>3, <1>4

\* What is in a queue after a message was put in.
LEMMA AfterAppend ==
    ASSUME NEW S, NEW q \in Seq(S), NEW e \in S
    PROVE  /\ Append(q, e) \in Seq(S)
           /\ DOMAIN q \subseteq Nat \ {0}
           /\ Len(q) + 1 \in Nat \ {0}
           /\ DOMAIN Append(q, e) = DOMAIN q \cup {Len(q) + 1}
           /\ \A i \in DOMAIN q : i < Len(q) + 1 /\ Append(q, e)[i] = q[i]
           /\ Append(q, e)[Len(q) + 1] = e
<1>1. Len(q) \in Nat /\ DOMAIN q = 1 .. Len(q)
    BY LenProperties
<1>2. Append(q, e) \in Seq(S) /\ Len(Append(q, e)) = Len(q) + 1
    BY AppendProperties
<1>3. DOMAIN Append(q, e) = 1 .. Len(q) + 1
    BY <1>2, LenProperties
<1>4. 1 .. Len(q) + 1 = (1 .. Len(q)) \cup {Len(q) + 1}
    BY <1>1
<1> QED BY <1>1, <1>2, <1>3, <1>4, AppendProperties

\* Where a place lies that is in the first of three runs or in one of the others,
\* which have one element at most.
LEMMA PlaceInThree ==
    ASSUME NEW m \in Nat, NEW n \in {0, 1}, NEW k \in {0, 1}, NEW i \in 1 .. m + n + k
    PROVE  \/ i \in 1 .. m
           \/ i = m + 1 /\ n = 1
           \/ i = m + n + 1 /\ k = 1
OBVIOUS

\* What is in a queue after two short runs were put in.
TwoPut(S, q, a, b, r) ==
    /\ r \in Seq(S)
    /\ DOMAIN q \subseteq Nat
    /\ \A i \in DOMAIN q : i <= Len(q)
    /\ \A i \in DOMAIN r :
           \/ i \in DOMAIN q /\ r[i] = q[i]
           \/ i = Len(q) + 1 /\ Len(a) = 1 /\ r[i] = a[1]
           \/ i = Len(q) + Len(a) + 1 /\ Len(b) = 1 /\ r[i] = b[1]

\* Two short sequences behind a third are put in.
LEMMA AfterTwo ==
    ASSUME NEW S, NEW q \in Seq(S), NEW a \in Seq(S), NEW b \in Seq(S),
           Len(a) \in {0, 1}, Len(b) \in {0, 1}
    PROVE  TwoPut(S, q, a, b, q \o a \o b)
<1>1. Len(q) \in Nat /\ Len(a) \in Nat /\ Len(b) \in Nat /\ DOMAIN q = 1 .. Len(q)
    BY LenProperties
<1>2. /\ q \o a \in Seq(S)
      /\ Len(q \o a) = Len(q) + Len(a)
      /\ \A i \in 1 .. Len(q) + Len(a) :
             (q \o a)[i] = IF i <= Len(q) THEN q[i] ELSE a[i - Len(q)]
    BY ConcatProperties
<1>3. /\ q \o a \o b \in Seq(S)
      /\ Len(q \o a \o b) = Len(q) + Len(a) + Len(b)
      /\ \A i \in 1 .. Len(q) + Len(a) + Len(b) :
             (q \o a \o b)[i] = IF i <= Len(q) + Len(a) THEN (q \o a)[i]
                                ELSE b[i - (Len(q) + Len(a))]
    BY <1>2, ConcatProperties
<1>4. DOMAIN (q \o a \o b) = 1 .. Len(q) + Len(a) + Len(b)
    BY <1>3, LenProperties
<1>5. ASSUME NEW i \in DOMAIN (q \o a \o b)
      PROVE  \/ i \in DOMAIN q /\ (q \o a \o b)[i] = q[i]
             \/ i = Len(q) + 1 /\ Len(a) = 1 /\ (q \o a \o b)[i] = a[1]
             \/ i = Len(q) + Len(a) + 1 /\ Len(b) = 1 /\ (q \o a \o b)[i] = b[1]
    <2>1. \/ i \in 1 .. Len(q)
          \/ i = Len(q) + 1 /\ Len(a) = 1
          \/ i = Len(q) + Len(a) + 1 /\ Len(b) = 1
        <3> DEFINE m == Len(q)
                   n == Len(a)
                   k == Len(b)
        <3>1. m \in Nat /\ n \in {0, 1} /\ k \in {0, 1} /\ i \in 1 .. m + n + k
            BY <1>1, <1>4
        <3>2. i \in 1 .. m \/ (i = m + 1 /\ n = 1) \/ (i = m + n + 1 /\ k = 1)
            <4> HIDE DEF m, n, k
            <4> QED BY <3>1, PlaceInThree
        <3> QED BY <3>2
    <2>2. CASE i \in 1 .. Len(q)
        BY <1>1, <1>2, <1>3, <2>2
    <2>3. CASE i = Len(q) + 1 /\ Len(a) = 1
        <3>1. (q \o a \o b)[i] = (q \o a)[i]
            BY <1>1, <1>3, <2>3
        <3>2. (q \o a)[i] = a[i - Len(q)] /\ i - Len(q) = 1
            BY <1>1, <1>2, <2>3
        <3> QED BY <2>3, <3>1, <3>2
    <2>4. CASE i = Len(q) + Len(a) + 1 /\ Len(b) = 1
        <3>1. /\ (q \o a \o b)[i] = b[i - (Len(q) + Len(a))]
              /\ i - (Len(q) + Len(a)) = 1
            BY <1>1, <1>3, <2>4
        <3> QED BY <2>4, <3>1
    <2> QED BY <1>1, <2>1, <2>2, <2>3, <2>4
<1> QED BY <1>1, <1>3, <1>5 DEF TwoPut

-----------------------------------------------------------------------------
(* The initial states.                                                     *)

\* The two sides.
LEMMA TwoSides == /\ "BUY" \in Sides /\ "SELL" \in Sides
                  /\ \A s \in Sides : s = "BUY" \/ s = "SELL"
BY DEF Sides

\* The invariant holds at first.
LEMMA InitInv == Init => IInv
<1> SUFFICES ASSUME Init PROVE IInv
    OBVIOUS
<1>1. TypeOK
    <2>1. openVWAP \in [Sides -> Int]
        <3>1. openVWAP \in [Sides -> Uninitialized]
            BY DEF Init, KeeperInit
        <3>2. \A t \in Sides : openVWAP[t] \in Int
            BY <3>1, UninitializedAssumption
        <3> QED BY <3>1, <3>2
    <2>5. KeeperTypeOK
        BY <2>1 DEF Init, KeeperInit, KeeperTypeOK
    <2>2. slot \in [Sides -> [oid : Oids \cup {Invalid}, price : LimitPrices,
                              qty : Nat \cup {Invalid}, state : Alive \cup Dead]]
        BY DEF Init, Dead, LimitPrices, Invalid
    <2>3. nextOrderId \in 1 .. MaxOrders + 1
        BY OrdersAssumption DEF Init
    <2>4. requests \in Seq(Request) /\ responses \in Seq(Response)
        BY EmptySeq DEF Init
    <2> QED BY <2>2, <2>3, <2>4, <2>5 DEF Init, TypeOK
<1>2. DOMAIN requests = {} /\ DOMAIN responses = {} /\ open = {}
    BY DEF Init
<1>3. SidesKnown
    BY <1>2 DEF SidesKnown
<1>4. ASSUME NEW s \in Sides PROVE SideInv(s)
    BY <1>2 DEF Init, Alive, Pending, SideInv, AliveIsKnown, DeadIsGone, SameOrder,
                NewIsAlone, AcceptedIsFirst,
                FinalIsLast, FillsAddUp
<1>5. PositionWithinLimit
    BY LimitsAssumption, TwoSides
    DEF Init, KeeperInit, PositionWithinLimit, Exposure, Alive, Pending
<1> QED BY <1>1, <1>3, <1>4, <1>5 DEF IInv

-----------------------------------------------------------------------------
(* The client moves its orders.                                            *)

\* How many ids a move needs.
LEMMA IdsNeeded ==
    ASSUME NEW C \in SUBSET Sides
    PROVE  /\ Cardinality(C) \in Nat
           /\ C # {} => Cardinality(C) >= 1
           /\ "BUY" \in C /\ "SELL" \in C => Cardinality(C) = 2
<1>1. C = {} \/ C = {"BUY"} \/ C = {"SELL"} \/ C = {"BUY"} \cup {"SELL"}
    BY DEF Sides
<1>2. CASE C = {}
    BY <1>2, FS_EmptySet
<1>3. CASE C = {"BUY"}
    BY <1>3, FS_Singleton
<1>4. CASE C = {"SELL"}
    BY <1>4, FS_Singleton
<1>5. CASE C = {"BUY"} \cup {"SELL"}
    <2>1. IsFiniteSet({"BUY"}) /\ Cardinality({"BUY"}) = 1
        BY FS_Singleton
    <2>2. Cardinality({"BUY"} \cup {"SELL"}) = 2
        BY <2>1, FS_AddElement
    <2> QED BY <1>5, <2>2
<1> QED BY <1>1, <1>2, <1>3, <1>4, <1>5

\* The client cancels and sends orders: the order it sends is the only one of its side,
\* and if it is filled the limit holds.
LEMMA MoveOrdersInv ==
    ASSUME IInv, NEW price, \A s \in Sides : price[s] \in Int, NEW pnl,
           MoveOrders(price, pnl), KeeperTypeOK', position' = position
    PROVE  IInv'
<1> DEFINE cancelled == {s \in Sides : Cancels(s, price[s])}
           created   == {s \in Sides : Creates(s, price[s], pnl)}
           oid(s) == IF s \in cancelled THEN slot[s].oid
                     ELSE IF s = "SELL" /\ "BUY" \in created THEN nextOrderId + 1
                     ELSE nextOrderId
           new(s) == [oid |-> oid(s), price |-> price[s], qty |-> Clip,
                      state |-> "PENDING_NEW"]
           Sent(s) == IF s \in cancelled THEN <<CancelRequest(s)>>
                      ELSE IF s \in created THEN <<NewRequest(s, oid(s), price[s])>>
                      ELSE <<>>
           place(s) == IF s = "BUY" THEN Len(requests) + 1
                       ELSE Len(requests) + Len(Sent("BUY")) + 1
<1> USE TwoSides
<1>1. /\ nextOrderId + Cardinality(created) <= MaxOrders + 1
      /\ slot' = [s \in Sides |->
             IF s \in cancelled THEN [slot[s] EXCEPT !.state = "PENDING_CANCEL"]
             ELSE IF s \in created THEN new(s)
             ELSE slot[s]]
      /\ nextOrderId' = nextOrderId + Cardinality(created)
      /\ requests' = requests \o Sent("BUY") \o Sent("SELL")
      /\ UNCHANGED <<algo, open, responses>>
    BY DEF MoveOrders
<1> HIDE DEF oid, Sent
<1>2. TypeOK /\ PositionWithinLimit
    BY DEF IInv
<1>3. ASSUME NEW s \in Sides
      PROVE  /\ s \in cancelled => slot[s].state = "LIVE" /\ s \notin created
             /\ s \in created => slot[s].state \in Dead /\ Allowed(s, pnl)
    BY DEF Cancels, Creates, Dead
<1>4. ASSUME NEW s \in created
      PROVE  oid(s) \in Oids
    <2>1. created \in SUBSET Sides
        OBVIOUS
    <2>2. /\ Cardinality(created) \in Nat
          /\ Cardinality(created) >= 1
          /\ "BUY" \in created /\ "SELL" \in created => Cardinality(created) = 2
        BY <2>1, IdsNeeded
    <2>3. nextOrderId \in Nat \ {0}
        BY <1>2, OrdersAssumption DEF TypeOK
    <2>4. nextOrderId <= MaxOrders
        BY <1>1, <2>2, <2>3, OrdersAssumption
    <2>5. s = "SELL" /\ "BUY" \in created => nextOrderId + 1 <= MaxOrders
        BY <1>1, <2>2, <2>3, OrdersAssumption
    <2> QED BY <1>3, <2>3, <2>4, <2>5, OrdersAssumption DEF oid, Oids
<1>5. ASSUME NEW s \in Sides
      PROVE  /\ slot[s].oid \in Oids \cup {Invalid}
             /\ slot[s].price \in Int
             /\ slot[s].qty \in Nat \cup {Invalid}
             /\ slot[s] = [oid |-> slot[s].oid, price |-> slot[s].price,
                           qty |-> slot[s].qty, state |-> slot[s].state]
    BY <1>2 DEF TypeOK, LimitPrices
<1>6. ASSUME NEW s \in Sides
      PROVE  /\ Sent(s) \in Seq(Request)
             /\ Len(Sent(s)) \in {0, 1}
             /\ Len(Sent(s)) = 1 => s \in cancelled \cup created
             /\ s \in cancelled => Sent(s)[1] = CancelRequest(s)
             /\ s \in created => Sent(s)[1] = NewRequest(s, oid(s), price[s])
    <2>1. CASE s \in cancelled
        <3>1. slot[s].oid \in Oids /\ slot[s].qty \in Nat
            BY <1>3, <1>5, <2>1 DEF IInv, SideInv, AliveIsKnown, Alive
        <3>2. CancelRequest(s) \in Request
            BY <1>5, <3>1 DEF CancelRequest, Request, LimitPrices
        <3>3. Sent(s) = <<CancelRequest(s)>>
            BY <2>1 DEF Sent
        <3> HIDE DEF cancelled, created
        <3> QED BY <1>3, <2>1, <3>2, <3>3
    <2>2. CASE s \in created
        <3>1. NewRequest(s, oid(s), price[s]) \in Request
            BY <1>4, <2>2, ClipAssumption DEF NewRequest, Request, LimitPrices
        <3>2. s \notin cancelled /\ Sent(s) = <<NewRequest(s, oid(s), price[s])>>
            BY <1>3, <2>2 DEF Sent
        <3> HIDE DEF cancelled, created
        <3> QED BY <2>2, <3>1, <3>2
    <2>3. CASE s \notin cancelled /\ s \notin created
        <3>1. Sent(s) = <<>>
            BY <2>3 DEF Sent
        <3> HIDE DEF cancelled, created
        <3> QED BY <2>3, <3>1, EmptySeq
    <2> QED BY <2>1, <2>2, <2>3
<1>7. requests \in Seq(Request)
    BY <1>2 DEF TypeOK
<1> DEFINE buy  == Sent("BUY")
           sell == Sent("SELL")
<1>7a. TwoPut(Request, requests, buy, sell, requests')
    <2>1. requests' = requests \o buy \o sell
        BY <1>1
    <2>2. /\ buy \in Seq(Request) /\ sell \in Seq(Request)
          /\ Len(buy) \in {0, 1} /\ Len(sell) \in {0, 1}
        BY <1>6
    <2> HIDE DEF buy, sell
    <2> QED BY <1>7, <2>1, <2>2, AfterTwo
<1>8. /\ requests' \in Seq(Request)
      /\ DOMAIN requests \subseteq Nat
      /\ \A i \in DOMAIN requests : i <= Len(requests)
      /\ Len(requests) \in Nat
    BY <1>7, <1>7a, LenProperties DEF TwoPut
<1>9. ASSUME NEW i \in DOMAIN requests'
      PROVE  \/ i \in DOMAIN requests /\ requests'[i] = requests[i]
             \/ \E s \in Sides : /\ i = place(s)
                                 /\ \/ s \in cancelled /\ requests'[i] = CancelRequest(s)
                                    \/ s \in created
                                       /\ requests'[i] = NewRequest(s, oid(s), price[s])
    <2>1. \/ i \in DOMAIN requests /\ requests'[i] = requests[i]
          \/ /\ i = Len(requests) + 1 /\ Len(Sent("BUY")) = 1
             /\ requests'[i] = Sent("BUY")[1]
          \/ /\ i = Len(requests) + Len(Sent("BUY")) + 1 /\ Len(Sent("SELL")) = 1
             /\ requests'[i] = Sent("SELL")[1]
        BY <1>7a DEF TwoPut
    <2>2. i = Len(requests) + 1 => i = place("BUY")
        OBVIOUS
    <2>3. i = Len(requests) + Len(Sent("BUY")) + 1 => i = place("SELL")
        OBVIOUS
    <2> HIDE DEF cancelled, created, place
    <2> QED BY <1>6, <2>1, <2>2, <2>3
<1>10. ASSUME NEW s \in Sides, NEW i \in DOMAIN requests', IsNew(s, i)'
       PROVE  \/ i \in DOMAIN requests /\ IsNew(s, i) /\ requests'[i] = requests[i]
              \/ /\ s \in created /\ i = place(s)
                 /\ requests'[i] = NewRequest(s, oid(s), price[s])
    <2>1. \A t \in Sides : /\ CancelRequest(t).type = "CANCEL"
                           /\ NewRequest(t, oid(t), price[t]).side = t
        BY DEF CancelRequest, NewRequest
    <2> HIDE DEF cancelled, created, place
    <2>2. requests'[i].type = "NEW" /\ requests'[i].side = s
        BY <1>10 DEF IsNew
    <2> QED BY <1>9, <2>1, <2>2 DEF IsNew
<1>11. ASSUME NEW s \in Sides
       PROVE  SideInv(s)'
    <2>1. SideInv(s)
        BY DEF IInv
    <2>2. open' = open /\ responses' = responses
        BY <1>1
    <2>3. CASE s \in created
        <3>1. /\ slot'[s].state = "PENDING_NEW"
              /\ slot'[s].oid = oid(s)
              /\ slot'[s].qty = Clip
            BY <1>1, <1>3, <2>3
        <3>2. /\ \A i \in DOMAIN requests : ~IsNew(s, i)
              /\ \A o \in open : o.side # s
              /\ \A i \in DOMAIN responses : responses[i].side # s
            BY <1>3, <2>1, <2>3 DEF SideInv, DeadIsGone
        <3>3. /\ NewRequest(s, oid(s), price[s]).oid = oid(s)
              /\ NewRequest(s, oid(s), price[s]).qty = Clip
            BY DEF NewRequest
        <3> HIDE DEF cancelled, created, place
        <3>4. \A i \in DOMAIN requests' : IsNew(s, i)' =>
                  i = place(s) /\ requests'[i].oid = oid(s) /\ requests'[i].qty = Clip
            BY <1>10, <3>2, <3>3
        <3>5. oid(s) # Invalid /\ Clip # Invalid
            BY <1>4, <2>3, ClipAssumption DEF Oids, Invalid
        <3>6. AliveIsKnown(s)' /\ DeadIsGone(s)' /\ SameOrder(s)'
            BY <2>2, <3>1, <3>2, <3>4, <3>5
            DEF AliveIsKnown, DeadIsGone, SameOrder, Dead
        <3>7. NewIsAlone(s)'
            BY <2>2, <3>1, <3>2, <3>4 DEF NewIsAlone
        <3>8. AcceptedIsFirst(s)' /\ FinalIsLast(s)' /\ FillsAddUp(s)'
            BY <2>2, <3>2 DEF AcceptedIsFirst, FinalIsLast, FillsAddUp
        <3> QED BY <3>6, <3>7, <3>8 DEF SideInv
    <2>4. CASE s \notin created
        <3>1. /\ slot'[s].oid = slot[s].oid
              /\ slot'[s].qty = slot[s].qty
              /\ \/ slot'[s].state = slot[s].state
                 \/ slot[s].state = "LIVE" /\ slot'[s].state = "PENDING_CANCEL"
            BY <1>1, <1>3, <1>5, <2>4
        <3> HIDE DEF cancelled, created, place
        <3>2. \A i \in DOMAIN requests' : IsNew(s, i)' =>
                  i \in DOMAIN requests /\ IsNew(s, i) /\ requests'[i] = requests[i]
            BY <1>10, <2>4
        <3>3. AliveIsKnown(s)' /\ DeadIsGone(s)' /\ SameOrder(s)'
            BY <2>1, <2>2, <3>1, <3>2
            DEF SideInv, AliveIsKnown, DeadIsGone, SameOrder, Dead, Alive, Pending
        <3>4. NewIsAlone(s)'
            BY <2>1, <2>2, <3>1, <3>2 DEF SideInv, NewIsAlone
        <3>5. AcceptedIsFirst(s)' /\ FinalIsLast(s)' /\ FillsAddUp(s)'
            BY <2>1, <2>2, <3>1
            DEF SideInv, AcceptedIsFirst, FinalIsLast, FillsAddUp
        <3> QED BY <3>3, <3>4, <3>5 DEF SideInv
    <2> QED BY <2>3, <2>4
<1>12. TypeOK'
    <2>1. nextOrderId' \in 1 .. MaxOrders + 1
        <3>1. Cardinality(created) \in Nat
            BY IdsNeeded
        <3>2. nextOrderId \in Nat \ {0}
            BY <1>2, OrdersAssumption DEF TypeOK
        <3> HIDE DEF created
        <3> QED BY <1>1, <3>1, <3>2, OrdersAssumption
    <2>2. ASSUME NEW s \in Sides
          PROVE  slot'[s] \in [oid : Oids \cup {Invalid}, price : LimitPrices,
                               qty : Nat \cup {Invalid}, state : Alive \cup Dead]
        <3>1. CASE s \in cancelled
            <4>1. slot'[s] = [slot[s] EXCEPT !.state = "PENDING_CANCEL"]
                BY <1>1, <3>1
            <4>2. slot[s] \in [oid : Oids \cup {Invalid}, price : LimitPrices,
                               qty : Nat \cup {Invalid}, state : Alive \cup Dead]
                BY <1>2 DEF TypeOK
            <4> QED BY <4>1, <4>2 DEF Alive, Pending
        <3>2. CASE s \in created
            BY <1>1, <1>3, <1>4, <3>2, ClipAssumption DEF LimitPrices, Alive, Pending
        <3>3. CASE s \notin cancelled /\ s \notin created
            BY <1>1, <1>2, <3>3 DEF TypeOK
        <3> QED BY <3>1, <3>2, <3>3
    <2>3. slot' \in [Sides -> [oid : Oids \cup {Invalid}, price : LimitPrices,
                               qty : Nat \cup {Invalid}, state : Alive \cup Dead]]
        <3>1. DOMAIN slot' = Sides /\ slot' = [s \in Sides |-> slot'[s]]
            BY <1>1
        <3> QED BY <2>2, <3>1
    <2> QED BY <1>1, <1>2, <1>8, <2>1, <2>3 DEF TypeOK
<1>13. SidesKnown'
    BY <1>1 DEF IInv, SidesKnown
<1>14. ASSUME NEW s \in Sides
       PROVE  \/ Exposure(s)' = Exposure(s)
              \/ Exposure(s)' = Clip /\ Allowed(s, pnl)
    <2>1. CASE s \in cancelled
        <3>1. slot'[s] = [slot[s] EXCEPT !.state = "PENDING_CANCEL"]
            BY <1>1, <2>1
        <3>2. slot'[s].qty = slot[s].qty /\ slot'[s].state = "PENDING_CANCEL"
            BY <1>5, <3>1
        <3>3. slot[s].state = "LIVE"
            BY <1>3, <2>1
        <3> QED BY <3>2, <3>3 DEF Exposure, Alive, Pending
    <2>2. CASE s \in created
        BY <1>1, <1>3, <2>2 DEF Exposure, Alive, Pending
    <2>3. CASE s \notin cancelled /\ s \notin created
        BY <1>1, <2>3 DEF Exposure
    <2> QED BY <2>1, <2>2, <2>3
<1>15. PositionWithinLimit'
    <2>1. position \in Int /\ MaxPosition \in Nat /\ Clip \in Nat
        BY <1>2, LimitsAssumption, ClipAssumption DEF TypeOK, KeeperTypeOK
    <2>2. Allowed("BUY", pnl) => position + Clip <= MaxPosition
        BY <2>1 DEF Allowed, Abs, SideToValue
    <2>3. Allowed("SELL", pnl) => position - Clip >= -MaxPosition
        BY <2>1 DEF Allowed, Abs, SideToValue
    <2> QED BY <1>2, <1>14, <2>1, <2>2, <2>3 DEF PositionWithinLimit
<1> QED BY <1>11, <1>12, <1>13, <1>15 DEF IInv

-----------------------------------------------------------------------------
(* The exchange.                                                           *)

\* What follows for both channels from the types.
LEMMA Channels ==
    ASSUME TypeOK
    PROVE  /\ requests \in Seq(Request) /\ responses \in Seq(Response)
           /\ DOMAIN responses \subseteq Nat \ {0}
           /\ \A i \in DOMAIN responses : responses[i] \in Response
           /\ \A i \in DOMAIN requests : requests[i] \in Request
<1>1. requests \in Seq(Request) /\ responses \in Seq(Response)
    BY DEF TypeOK
<1>2. /\ DOMAIN responses = 1 .. Len(responses) /\ Len(responses) \in Nat
      /\ DOMAIN requests = 1 .. Len(requests)
    BY <1>1, LenProperties
<1> QED BY <1>1, <1>2, ElementOfSeq

\* A side's part of the invariant stays when no more than heads of the two channels and
\* orders of the book go: d and e are how far the requests and the responses move up.
LEMMA OtherSide ==
    ASSUME IInv, NEW s \in Sides, NEW d \in {0, 1}, NEW e \in {0, 1},
           slot'[s] = slot[s],
           DOMAIN requests' \subseteq Nat, DOMAIN responses' \subseteq Nat,
           \A i \in DOMAIN requests' : IsNew(s, i)' =>
               i + d \in DOMAIN requests /\ requests'[i] = requests[i + d],
           \A o \in open' : o.side = s => o \in open,
           \A j \in DOMAIN responses' : responses'[j].side = s =>
               j + e \in DOMAIN responses /\ responses'[j] = responses[j + e]
    PROVE  SideInv(s)'
<1>1. SideInv(s)
    BY DEF IInv
<1>2. \A i \in DOMAIN requests' : IsNew(s, i)' => IsNew(s, i + d)
    BY DEF IsNew
<1>3. AliveIsKnown(s)' /\ DeadIsGone(s)'
    BY <1>1, <1>2 DEF SideInv, AliveIsKnown, DeadIsGone
<1>4. SameOrder(s)'
    BY <1>1, <1>2 DEF SideInv, SameOrder
<1>5. NewIsAlone(s)'
    <2> SUFFICES ASSUME NEW i \in DOMAIN requests', IsNew(s, i)'
        PROVE  /\ slot'[s].state = "PENDING_NEW"
               /\ requests'[i].qty = slot'[s].qty
               /\ \A j \in DOMAIN requests' : IsNew(s, j)' => j = i
               /\ \A o \in open' : o.side # s
               /\ \A j \in DOMAIN responses' : responses'[j].side # s
        BY DEF NewIsAlone
    <2>1. IsNew(s, i + d) /\ i + d \in DOMAIN requests
        BY <1>2
    <2>2. \A j \in DOMAIN requests' : IsNew(s, j)' => j + d = i + d
        BY <1>1, <1>2, <2>1 DEF SideInv, NewIsAlone
    <2>3. \A j \in DOMAIN requests' : IsNew(s, j)' => j = i
        BY <2>2
    <2> QED BY <1>1, <2>1, <2>3 DEF SideInv, NewIsAlone
<1>6. AcceptedIsFirst(s)'
    <2> SUFFICES ASSUME NEW i \in DOMAIN responses',
                        responses'[i].side = s, responses'[i].type = "ACCEPTED"
        PROVE  /\ slot'[s].state = "PENDING_NEW"
               /\ \A j \in DOMAIN responses' : responses'[j].side = s =>
                      i <= j /\ (responses'[j].type = "ACCEPTED" => j = i)
        BY DEF AcceptedIsFirst
    <2>1. /\ slot[s].state = "PENDING_NEW"
          /\ \A j \in DOMAIN responses' : responses'[j].side = s =>
                 i + e <= j + e /\ (responses'[j].type = "ACCEPTED" => j + e = i + e)
        BY <1>1 DEF SideInv, AcceptedIsFirst
    <2> QED BY <2>1
<1>7. FinalIsLast(s)'
    <2> SUFFICES ASSUME NEW i \in DOMAIN responses',
                        responses'[i].side = s, IsFinal(responses'[i])
        PROVE  /\ \A o \in open' : o.side # s
               /\ \A j \in DOMAIN responses' : responses'[j].side = s => j <= i
        BY DEF FinalIsLast
    <2>1. /\ \A o \in open' : o.side # s
          /\ \A j \in DOMAIN responses' : responses'[j].side = s => j + e <= i + e
        BY <1>1 DEF SideInv, FinalIsLast
    <2> QED BY <2>1
<1>8. FillsAddUp(s)'
    <2>1. \A i, j \in DOMAIN responses' : j < i => j + e < i + e
        OBVIOUS
    <2> QED BY <1>1, <2>1 DEF SideInv, FillsAddUp
<1> QED BY <1>3, <1>4, <1>5, <1>6, <1>7, <1>8 DEF SideInv

\* The matching engine accepts a new order.
LEMMA AcceptNewInv ==
    ASSUME IInv, AcceptNew
    PROVE  IInv'
<1> DEFINE r == Head(requests)
           new == [oid |-> r.oid, side |-> r.side, price |-> r.price, qty |-> r.qty]
           accepted == [type |-> "ACCEPTED", oid |-> r.oid, side |-> r.side,
                        price |-> r.price, exec |-> 0, leaves |-> r.qty]
           n == Len(responses) + 1
<1>1. /\ requests # <<>> /\ r.type = "NEW"
      /\ open' = open \cup {new}
      /\ responses' = Append(responses, accepted)
      /\ requests' = Tail(requests)
      /\ UNCHANGED <<keeperVars, clientVars>>
    BY DEF AcceptNew
<1>2. TypeOK
    BY DEF IInv
<1>3. /\ requests' \in Seq(Request)
      /\ DOMAIN requests' \subseteq Nat \ {0}
      /\ \A i \in DOMAIN requests' : i + 1 \in DOMAIN requests
                                     /\ requests'[i] = requests[i + 1]
      /\ 1 \in DOMAIN requests /\ r = requests[1] /\ r \in Request
    BY <1>1, <1>2, Channels, AfterTail
<1>4. /\ new \in [oid : Oids, side : Sides, price : LimitPrices, qty : Nat]
      /\ accepted \in Response
    BY <1>3 DEF Request, Response
<1>5. /\ responses' \in Seq(Response)
      /\ DOMAIN responses \subseteq Nat \ {0}
      /\ n \in Nat \ {0}
      /\ DOMAIN responses' = DOMAIN responses \cup {n}
      /\ \A i \in DOMAIN responses : i < n /\ responses'[i] = responses[i]
      /\ responses'[n] = accepted
    BY <1>1, <1>2, <1>4, Channels, AfterAppend
<1>6. r.side \in Sides
    BY <1>3 DEF Request
<1>7. /\ accepted.type = "ACCEPTED" /\ accepted.side = r.side /\ accepted.oid = r.oid
      /\ new.side = r.side /\ new.oid = r.oid /\ new.qty = r.qty
    OBVIOUS
<1> HIDE DEF r, new, accepted, n
<1>8. TypeOK'
    BY <1>1, <1>2, <1>3, <1>4, <1>5 DEF TypeOK, KeeperTypeOK, keeperVars, clientVars
<1>9. SidesKnown'
    BY <1>5, <1>6, <1>7 DEF IInv, SidesKnown
<1>10. ASSUME NEW s \in Sides
       PROVE  SideInv(s)'
    <2>1. SideInv(s) /\ slot'[s] = slot[s]
        BY <1>1 DEF IInv, clientVars
    <2>2. \A i \in DOMAIN requests' : IsNew(s, i)' => IsNew(s, i + 1)
        BY <1>3 DEF IsNew
    <2>3. CASE s = r.side
        <3>1. IsNew(s, 1)
            BY <1>1, <1>3, <2>3 DEF IsNew
        <3>2. /\ slot[s].state = "PENDING_NEW"
              /\ r.qty = slot[s].qty
              /\ \A j \in DOMAIN requests : IsNew(s, j) => j = 1
              /\ \A o \in open : o.side # s
              /\ \A j \in DOMAIN responses : responses[j].side # s
              /\ r.oid = slot[s].oid
            BY <1>3, <2>1, <3>1 DEF SideInv, NewIsAlone, SameOrder
        <3>3. \A i \in DOMAIN requests' : ~IsNew(s, i)'
            BY <1>3, <2>2, <3>2
        <3>4. /\ \A o \in open' : o.side = s => o = new
              /\ \A j \in DOMAIN responses' : responses'[j].side = s => j = n
            BY <1>1, <1>5, <3>2
        <3>5. AliveIsKnown(s)' /\ DeadIsGone(s)' /\ SameOrder(s)' /\ NewIsAlone(s)'
            BY <1>5, <1>7, <2>1, <3>2, <3>3, <3>4
            DEF SideInv, AliveIsKnown, DeadIsGone, SameOrder, NewIsAlone, Dead
        <3>6. AcceptedIsFirst(s)'
            BY <1>5, <2>1, <3>2, <3>4 DEF AcceptedIsFirst
        <3>7. FinalIsLast(s)'
            BY <1>5, <1>7, <3>4 DEF FinalIsLast, IsFinal
        <3>8. r.qty \in Nat
            BY <1>3 DEF Request
        <3>9. FillsAddUp(s)'
            BY <1>5, <1>7, <2>1, <3>2, <3>4, <3>8 DEF FillsAddUp
        <3> QED BY <3>5, <3>6, <3>7, <3>9 DEF SideInv
    <2>4. CASE s # r.side
        <3>1. /\ \A o \in open' : o.side = s => o \in open
              /\ \A j \in DOMAIN responses' : responses'[j].side = s =>
                     j \in DOMAIN responses /\ responses'[j] = responses[j]
            BY <1>1, <1>5, <1>7, <2>4
        <3>2. DOMAIN responses' \subseteq Nat /\ \A j \in DOMAIN responses' : j + 0 = j
            BY <1>5
        <3> QED BY <1>3, <2>1, <3>1, <3>2, OtherSide
    <2> QED BY <2>3, <2>4
<1>11. PositionWithinLimit'
    BY <1>1 DEF IInv, PositionWithinLimit, Exposure, keeperVars, clientVars
<1> QED BY <1>8, <1>9, <1>10, <1>11 DEF IInv



\* What is known of a side that has an order in the book.
LEMMA Resting ==
    ASSUME IInv, NEW o \in open
    PROVE  /\ o \in [oid : Oids, side : Sides, price : LimitPrices, qty : Nat]
           /\ o.side \in Sides /\ o.qty \in Nat
           /\ slot[o.side].state \notin Dead
           /\ slot[o.side].oid = o.oid
           /\ \A i \in DOMAIN requests : ~IsNew(o.side, i)
           /\ \A p \in open : p.side = o.side => p = o
           /\ \A i \in DOMAIN responses :
                  responses[i].side = o.side => ~IsFinal(responses[i])
<1>1. o \in [oid : Oids, side : Sides, price : LimitPrices, qty : Nat]
    BY DEF IInv, TypeOK
<1>2. SideInv(o.side)
    BY <1>1 DEF IInv
<1> QED BY <1>1, <1>2 DEF SideInv, DeadIsGone, SameOrder, NewIsAlone, FinalIsLast, FillsAddUp

\* An order that is taken from the book, with what is put back of it, if anything, and
\* a response to its client: a cancel, or a fill of all that is not put back.
LEMMA BookStep ==
    ASSUME IInv, NEW o \in open, NEW r \in Response,
           r.side = o.side, r.oid = o.oid,
           \/ r.type = "CANCELED" /\ \A p \in open' : p.side # o.side
           \/ /\ r.type = "FILLED" /\ r.exec + r.leaves = o.qty
              /\ \A p \in open' : p.side = o.side =>
                     p.oid = o.oid /\ p.qty = r.leaves /\ r.leaves # 0
              /\ \A p, q \in open' : p.side = o.side /\ q.side = o.side => p = q,
           responses' = Append(responses, r),
           slot' = slot,
           \A i \in DOMAIN requests' : ~IsNew(o.side, i)'
    PROVE  SideInv(o.side)'
<1> DEFINE s == o.side
           n == Len(responses) + 1
<1>1. /\ DOMAIN responses \subseteq Nat \ {0}
      /\ n \in Nat \ {0}
      /\ DOMAIN responses' = DOMAIN responses \cup {n}
      /\ \A i \in DOMAIN responses : i < n /\ responses'[i] = responses[i]
      /\ responses'[n] = r
    BY Channels, AfterAppend DEF IInv
<1>2. s \in Sides /\ SideInv(s)
    BY Resting DEF IInv
<1>3. r.exec \in Nat /\ r.leaves \in Nat /\ o.qty \in Nat
    BY Resting DEF Response
<1>4. /\ \A i \in DOMAIN responses : responses[i].exec \in Nat /\ responses[i].leaves \in Nat
      /\ slot[s].qty \in Nat \cup {Invalid}
    BY <1>2, Channels DEF IInv, TypeOK, Response
<1> HIDE DEF n
<1>5. AliveIsKnown(s)' /\ DeadIsGone(s)' /\ SameOrder(s)'
    BY <1>1, <1>2, Resting DEF SideInv, AliveIsKnown, DeadIsGone, SameOrder
<1>6. NewIsAlone(s)'
    BY DEF NewIsAlone
<1>7. AcceptedIsFirst(s)'
    BY <1>1, <1>2 DEF SideInv, AcceptedIsFirst
<1>8. FinalIsLast(s)'
    <2>1. ASSUME NEW i \in DOMAIN responses', responses'[i].side = s, IsFinal(responses'[i])
          PROVE  i = n
        BY <1>1, <2>1, Resting
    <2>2. IsFinal(r) => \A p \in open' : p.side # s
        BY DEF IsFinal
    <2>3. \A j \in DOMAIN responses' : j <= n
        BY <1>1
    <2> QED BY <1>1, <2>1, <2>2, <2>3 DEF FinalIsLast
<1>9. FillsAddUp(s)'
    <2>1. \A p, q \in open' : p.side = s /\ q.side = s => p = q
        OBVIOUS
    <2>2. o.qty <= slot[s].qty
        BY <1>2 DEF SideInv, FillsAddUp
    <2>3. \A i \in DOMAIN responses :
              responses[i].side = s /\ responses[i].type = "FILLED" =>
                  /\ responses[i].exec + responses[i].leaves <= slot[s].qty
                  /\ o.qty <= responses[i].leaves
                  /\ \A j \in DOMAIN responses :
                      j < i /\ responses[j].side = s /\ responses[j].type = "FILLED" =>
                          responses[i].exec + responses[i].leaves <= responses[j].leaves
        BY <1>2 DEF SideInv, FillsAddUp
    <2>4. \A p \in open' : p.side = s => p.qty = r.leaves /\ r.exec + r.leaves = o.qty
        OBVIOUS
    <2>5. \A p \in open' : p.side = s => p.qty <= slot'[s].qty
        BY <1>3, <1>4, <2>2, <2>4 DEF Invalid
    <2>6. ASSUME NEW i \in DOMAIN responses',
                 responses'[i].side = s, responses'[i].type = "FILLED"
          PROVE  /\ responses'[i].exec + responses'[i].leaves <= slot'[s].qty
                 /\ \A p \in open' : p.side = s => p.qty <= responses'[i].leaves
                 /\ \A j \in DOMAIN responses' :
                      j < i /\ responses'[j].side = s /\ responses'[j].type = "FILLED" =>
                        responses'[i].exec + responses'[i].leaves <= responses'[j].leaves
        <3>1. CASE i = n
            <4>1. r.type = "FILLED" /\ r.exec + r.leaves = o.qty
                BY <1>1, <2>6, <3>1
            <4>2. \A j \in DOMAIN responses' : j < i =>
                      j \in DOMAIN responses /\ responses'[j] = responses[j]
                BY <1>1, <3>1
            <4>3. \A p \in open' : p.side = s => p.qty <= r.leaves
                BY <1>3, <2>4
            <4> QED BY <1>1, <2>2, <2>3, <3>1, <4>1, <4>2, <4>3
        <3>2. CASE i # n
            <4>1. i \in DOMAIN responses /\ responses'[i] = responses[i]
                BY <1>1, <3>2
            <4>2. \A j \in DOMAIN responses' : j < i =>
                      j \in DOMAIN responses /\ responses'[j] = responses[j]
                BY <1>1, <4>1
            <4>3. \A p \in open' : p.side = s => p.qty <= responses[i].leaves
                BY <1>3, <1>4, <2>3, <2>4, <2>6, <4>1
            <4> QED BY <2>3, <2>6, <4>1, <4>2, <4>3
        <3> QED BY <3>1, <3>2
    <2> QED BY <2>1, <2>5, <2>6 DEF FillsAddUp
<1> QED BY <1>5, <1>6, <1>7, <1>8, <1>9 DEF SideInv


\* The matching engine cancels an order, or knows of none.
LEMMA CancelOrderInv ==
    ASSUME IInv, CancelOrder
    PROVE  IInv'
<1> DEFINE q == Head(requests)
           found == {o \in open : o.oid = q.oid}
           rejected == [type |-> "CANCEL_REJECTED", oid |-> q.oid, side |-> "INVALID",
                        price |-> Invalid, exec |-> 0, leaves |-> 0]
           canceled(o) == [type |-> "CANCELED", oid |-> o.oid, side |-> o.side,
                           price |-> o.price, exec |-> 0, leaves |-> o.qty]
           n == Len(responses) + 1
<1>1. /\ requests # <<>>
      /\ open' = open \ found
      /\ requests' = Tail(requests)
      /\ UNCHANGED <<keeperVars, clientVars>>
    BY DEF CancelOrder
<1>2. PICK r : /\ responses' = Append(responses, r)
               /\ \/ r = rejected
                  \/ \E o \in found : r = canceled(o)
    BY DEF CancelOrder
<1>3. TypeOK
    BY DEF IInv
<1>4. /\ requests' \in Seq(Request)
      /\ DOMAIN requests' \subseteq Nat \ {0}
      /\ \A i \in DOMAIN requests' : i + 1 \in DOMAIN requests
                                     /\ requests'[i] = requests[i + 1]
      /\ q \in Request
    BY <1>1, <1>3, Channels, AfterTail
<1>5. /\ rejected \in Response /\ rejected.side = "INVALID"
      /\ rejected.type = "CANCEL_REJECTED" /\ rejected.side \notin Sides
    BY <1>4 DEF Request, Response, LimitPrices, Invalid, Sides
<1>6. ASSUME NEW o \in found
      PROVE  /\ canceled(o) \in Response /\ canceled(o).type = "CANCELED"
             /\ canceled(o).side = o.side /\ canceled(o).oid = o.oid
             /\ o \in open /\ o.side \in Sides
    <2>1. o \in open
        OBVIOUS
    <2>2. o \in [oid : Oids, side : Sides, price : LimitPrices, qty : Nat]
        BY <2>1, Resting
    <2> QED BY <2>1, <2>2 DEF Response, LimitPrices
<1>7. r \in Response /\ (r.side \in Sides <=> r.type # "CANCEL_REJECTED")
    BY <1>2, <1>5, <1>6
<1>8. /\ responses' \in Seq(Response)
      /\ DOMAIN responses \subseteq Nat \ {0}
      /\ n \in Nat \ {0}
      /\ DOMAIN responses' = DOMAIN responses \cup {n}
      /\ \A i \in DOMAIN responses : i < n /\ responses'[i] = responses[i]
      /\ responses'[n] = r
    BY <1>2, <1>3, <1>7, Channels, AfterAppend
<1>9. open' \subseteq open /\ \A o \in found : o \notin open'
    BY <1>1
<1> HIDE DEF q, found, rejected, canceled, n
<1>10. TypeOK'
    BY <1>1, <1>3, <1>4, <1>8, <1>9 DEF TypeOK, KeeperTypeOK, keeperVars, clientVars
<1>11. SidesKnown'
    BY <1>7, <1>8 DEF IInv, SidesKnown
<1>12. ASSUME NEW s \in Sides
       PROVE  SideInv(s)'
    <2>1. CASE r.side = s
        <3>1. PICK o \in found : r = canceled(o)
            BY <1>2, <1>5, <2>1
        <3>2. /\ o \in open /\ o.side = s /\ r.oid = o.oid /\ r.type = "CANCELED"
            BY <1>6, <2>1, <3>1
        <3>3. \A p \in open' : p.side # s
            BY <1>9, <3>2, Resting
        <3>4. \A i \in DOMAIN requests' : ~IsNew(s, i)'
            <4>1. \A i \in DOMAIN requests : ~IsNew(s, i)
                BY <3>2, Resting
            <4> QED BY <1>4, <4>1 DEF IsNew
        <3>5. slot' = slot
            BY <1>1 DEF clientVars
        <3> QED BY <1>2, <1>7, <2>1, <3>2, <3>3, <3>4, <3>5, BookStep
    <2>2. CASE r.side # s
        <3>1. \A j \in DOMAIN responses' : responses'[j].side = s =>
                  j \in DOMAIN responses /\ responses'[j] = responses[j]
            BY <1>8, <2>2
        <3>2. DOMAIN responses' \subseteq Nat /\ \A j \in DOMAIN responses' : j + 0 = j
            BY <1>8
        <3>3. slot'[s] = slot[s]
            BY <1>1 DEF clientVars
        <3> QED BY <1>4, <1>9, <3>1, <3>2, <3>3, OtherSide
    <2> QED BY <2>1, <2>2
<1>13. PositionWithinLimit'
    BY <1>1 DEF IInv, PositionWithinLimit, Exposure, keeperVars, clientVars
<1> QED BY <1>10, <1>11, <1>12, <1>13 DEF IInv

\* Somebody trades with an order.
LEMMA FillInv ==
    ASSUME IInv, NEW o \in open, Fill(o)
    PROVE  IInv'
<1> DEFINE n == Len(responses) + 1
           filled(q, p) == [type |-> "FILLED", oid |-> o.oid, side |-> o.side,
                            price |-> p, exec |-> q, leaves |-> o.qty - q]
           left(q) == IF q = o.qty THEN {} ELSE {[o EXCEPT !.qty = @ - q]}
<1>1. PICK q \in FillQtys(o), p \in FillPrices(o) :
          /\ open' = (open \ {o}) \cup left(q)
          /\ responses' = Append(responses, filled(q, p))
          /\ UNCHANGED <<keeperVars, clientVars, requests>>
    BY DEF Fill
<1> DEFINE r == filled(q, p)
<1>2. /\ o \in [oid : Oids, side : Sides, price : LimitPrices, qty : Nat]
      /\ o.side \in Sides /\ o.qty \in Nat /\ o.oid \in Oids /\ o.price \in LimitPrices
    BY Resting
<1>3. q \in Nat \ {0} /\ q <= o.qty /\ o.qty - q \in Nat /\ (o.qty - q = 0 <=> q = o.qty)
    BY <1>2 DEF FillQtys
<1>4. p \in Int
    BY <1>2, PricesAssumption DEF FillPrices, LimitPrices
<1>5. /\ r \in Response
      /\ r.type = "FILLED" /\ r.side = o.side /\ r.oid = o.oid
      /\ r.exec = q /\ r.leaves = o.qty - q
    BY <1>2, <1>3, <1>4 DEF Response, LimitPrices
<1>6. ASSUME NEW x \in left(q)
      PROVE  /\ x \in [oid : Oids, side : Sides, price : LimitPrices, qty : Nat]
             /\ x.side = o.side /\ x.oid = o.oid /\ x.qty = o.qty - q
             /\ o.qty - q # 0
             /\ x = [o EXCEPT !.qty = o.qty - q]
    BY <1>2, <1>3
<1>7. TypeOK /\ responses' = Append(responses, r)
    BY <1>1 DEF IInv
<1>8. /\ responses' \in Seq(Response)
      /\ DOMAIN responses \subseteq Nat \ {0}
      /\ n \in Nat \ {0}
      /\ DOMAIN responses' = DOMAIN responses \cup {n}
      /\ \A i \in DOMAIN responses : i < n /\ responses'[i] = responses[i]
      /\ responses'[n] = r
    BY <1>5, <1>7, Channels, AfterAppend
<1> HIDE DEF n, r, left
<1>9. open' \subseteq [oid : Oids, side : Sides, price : LimitPrices, qty : Nat]
    BY <1>1, <1>6, <1>7 DEF TypeOK
<1>10. TypeOK'
    BY <1>1, <1>7, <1>8, <1>9 DEF TypeOK, KeeperTypeOK, keeperVars, clientVars
<1>11. SidesKnown'
    BY <1>2, <1>5, <1>8 DEF IInv, SidesKnown
<1>12. requests' = requests /\ slot' = slot
    BY <1>1 DEF clientVars
<1>13. ASSUME NEW s \in Sides
       PROVE  SideInv(s)'
    <2>1. CASE s = o.side
        <3>1. \A i \in DOMAIN requests' : ~IsNew(o.side, i)'
            BY <1>12, Resting DEF IsNew
        <3>2. \A x \in open' : x.side = o.side => x \in left(q)
            BY <1>1, Resting
        <3>3. \A x \in open' : x.side = o.side =>
                  x.oid = o.oid /\ x.qty = r.leaves /\ r.leaves # 0
            BY <1>5, <1>6, <3>2
        <3>4. \A x, y \in open' : x.side = o.side /\ y.side = o.side => x = y
            BY <1>6, <3>2
        <3>5. r.exec + r.leaves = o.qty
            BY <1>2, <1>3, <1>5
        <3> QED BY <1>5, <1>7, <1>12, <2>1, <3>1, <3>3, <3>4, <3>5, BookStep
    <2>2. CASE s # o.side
        <3>1. \A j \in DOMAIN responses' : responses'[j].side = s =>
                  j \in DOMAIN responses /\ responses'[j] = responses[j]
            BY <1>5, <1>8, <2>2
        <3>2. DOMAIN responses' \subseteq Nat /\ \A j \in DOMAIN responses' : j + 0 = j
            BY <1>8
        <3>3. \A x \in open' : x.side = s => x \in open
            BY <1>1, <1>6, <2>2
        <3>4. DOMAIN requests' \subseteq Nat /\ \A j \in DOMAIN requests' : j + 0 = j
            BY <1>7, <1>12, LenProperties, Channels
        <3> QED BY <1>12, <3>1, <3>2, <3>3, <3>4, OtherSide
    <2> QED BY <2>1, <2>2
<1>14. PositionWithinLimit'
    BY <1>1 DEF IInv, PositionWithinLimit, Exposure, keeperVars, clientVars
<1> QED BY <1>10, <1>11, <1>13, <1>14 DEF IInv

-----------------------------------------------------------------------------
(* Responses.                                                              *)

\* A response is applied to the order it is about: the client's order is over when
\* there is nothing more of it, and a fill moves to the position what it takes from
\* the order.
LEMMA OnOrderUpdateInv ==
    ASSUME IInv, OnOrderUpdate
    PROVE  IInv'
<1> DEFINE r == Head(responses)
<1>1. /\ responses # <<>>
      /\ IF r.type = "FILLED" THEN AddFill(r.side, r.price, r.exec)
                              ELSE UNCHANGED keeperVars
      /\ slot' = IF r.type = "CANCEL_REJECTED" THEN slot
                 ELSE [slot EXCEPT ![r.side] = Updated(@, r)]
      /\ responses' = Tail(responses)
      /\ UNCHANGED <<algo, nextOrderId, requests, open>>
    BY DEF OnOrderUpdate
<1>2. TypeOK /\ SidesKnown /\ PositionWithinLimit
    BY DEF IInv
<1>3. /\ responses' \in Seq(Response)
      /\ DOMAIN responses' \subseteq Nat \ {0}
      /\ \A i \in DOMAIN responses' : i + 1 \in DOMAIN responses
                                      /\ responses'[i] = responses[i + 1]
      /\ 1 \in DOMAIN responses /\ r = responses[1] /\ r \in Response
    BY <1>1, <1>2, Channels, AfterTail
<1>4. /\ r.type \in {"ACCEPTED", "FILLED", "CANCELED", "CANCEL_REJECTED"}
      /\ r.exec \in Nat /\ r.leaves \in Nat /\ r.price \in Int
      /\ r.side \in Sides <=> r.type # "CANCEL_REJECTED"
    BY <1>2, <1>3 DEF Response, LimitPrices, SidesKnown
<1> HIDE DEF r
<1>5. ASSUME NEW s \in Sides
      PROVE  /\ slot[s] \in [oid : Oids \cup {Invalid}, price : LimitPrices,
                             qty : Nat \cup {Invalid}, state : Alive \cup Dead]
             /\ slot[s].qty \in Nat \cup {Invalid}
             /\ slot[s].state \in Alive \cup Dead
             /\ SideInv(s)
    BY <1>2 DEF IInv, TypeOK
<1>6. ASSUME NEW s \in Sides, s = r.side
      PROVE  /\ slot'[s] = Updated(slot[s], r)
             /\ slot'[s].oid = slot[s].oid
             /\ slot'[s].qty = (IF r.type = "FILLED" THEN r.leaves ELSE slot[s].qty)
             /\ slot[s].state \in Alive /\ slot[s].qty \in Nat
             /\ slot'[s].state \in Alive \cup Dead
             /\ slot'[s].state \in Dead => IsFinal(r)
             /\ IsFinal(r) => slot'[s].state = "DEAD"
             /\ slot'[s] \in [oid : Oids \cup {Invalid}, price : LimitPrices,
                              qty : Nat \cup {Invalid}, state : Alive \cup Dead]
    <2>1. r.type \in {"ACCEPTED", "FILLED", "CANCELED"}
        BY <1>4, <1>6
    <2>2. slot'[s] = Updated(slot[s], r)
        BY <1>1, <1>2, <1>6, <2>1 DEF TypeOK
    <2>3. slot[s].state \in Alive
        BY <1>3, <1>5, <1>6 DEF SideInv, DeadIsGone
    <2>4. slot[s].qty \in Nat
        BY <1>5, <2>3 DEF SideInv, AliveIsKnown
    <2>5. CASE r.type = "ACCEPTED"
        <3>1. slot'[s] = [slot[s] EXCEPT !.state = "LIVE"]
            BY <2>2, <2>5 DEF Updated
        <3> QED BY <1>5, <2>2, <2>3, <2>4, <2>5, <3>1 DEF Alive, Pending, Dead, IsFinal
    <2>6. CASE r.type = "CANCELED"
        <3>1. slot'[s] = [slot[s] EXCEPT !.state = "DEAD"]
            BY <2>2, <2>6 DEF Updated
        <3> QED BY <1>5, <2>2, <2>3, <2>4, <2>6, <3>1 DEF Alive, Pending, Dead, IsFinal
    <2>7. CASE r.type = "FILLED"
        <3>1. slot'[s] = [slot[s] EXCEPT !.qty = r.leaves,
                              !.state = IF r.leaves = 0 THEN "DEAD" ELSE @]
            BY <2>2, <2>7 DEF Updated
        <3> QED BY <1>4, <1>5, <2>2, <2>3, <2>4, <2>7, <3>1
                DEF Alive, Pending, Dead, IsFinal
    <2> QED BY <2>1, <2>5, <2>6, <2>7
<1>7. ASSUME NEW s \in Sides, s # r.side
      PROVE  slot'[s] = slot[s]
    BY <1>1, <1>2, <1>7 DEF TypeOK
<1>8. TypeOK'
    <2>1. KeeperTypeOK'
        <3>1. CASE r.type = "FILLED"
            BY <1>1, <1>2, <1>4, <3>1, AddFillType DEF TypeOK
        <3>2. CASE r.type # "FILLED"
            BY <1>1, <1>2, <3>2 DEF TypeOK, KeeperTypeOK, keeperVars
        <3> QED BY <3>1, <3>2
    <2>2. slot' \in [Sides -> [oid : Oids \cup {Invalid}, price : LimitPrices,
                               qty : Nat \cup {Invalid}, state : Alive \cup Dead]]
        <3>1. \A s \in Sides :
                  slot'[s] \in [oid : Oids \cup {Invalid}, price : LimitPrices,
                                qty : Nat \cup {Invalid}, state : Alive \cup Dead]
            BY <1>5, <1>6, <1>7
        <3>2. slot' = [s \in Sides |-> slot'[s]]
            BY <1>1, <1>2 DEF TypeOK
        <3> QED BY <3>1, <3>2
    <2> QED BY <1>1, <1>2, <1>3, <2>1, <2>2 DEF TypeOK
<1>9. SidesKnown'
    BY <1>2, <1>3 DEF SidesKnown
<1>10. ASSUME NEW s \in Sides
       PROVE  SideInv(s)'
    <2>1. CASE s = r.side
        <3>1. /\ SideInv(s)
              /\ slot'[s].oid = slot[s].oid
              /\ slot'[s].qty = (IF r.type = "FILLED" THEN r.leaves ELSE slot[s].qty)
              /\ slot[s].state \in Alive
              /\ slot'[s].state \in Dead => IsFinal(r)
            BY <1>5, <1>6, <2>1
        <3>2. IsFinal(r) => /\ \A o \in open : o.side # s
                            /\ \A i \in DOMAIN responses' : responses'[i].side # s
            <4> SUFFICES ASSUME IsFinal(r)
                         PROVE  /\ \A o \in open : o.side # s
                                /\ \A i \in DOMAIN responses' : responses'[i].side # s
                OBVIOUS
            <4>1. FinalIsLast(s)
                BY <3>1 DEF SideInv
            <4> QED BY <1>3, <2>1, <4>1 DEF FinalIsLast
        <3>3. \A i \in DOMAIN requests' : ~IsNew(s, i)'
            BY <1>1, <1>3, <2>1, <3>1 DEF SideInv, NewIsAlone, IsNew
        <3>4. AliveIsKnown(s)'
            BY <1>4, <3>1 DEF SideInv, AliveIsKnown, Invalid
        <3>5. DeadIsGone(s)'
            BY <1>1, <3>1, <3>2, <3>3 DEF DeadIsGone
        <3>6. SameOrder(s)' /\ NewIsAlone(s)'
            BY <1>1, <1>3, <3>1, <3>3 DEF SideInv, SameOrder, NewIsAlone
        <3>7. AcceptedIsFirst(s)'
            <4>1. \A i \in DOMAIN responses' :
                      ~(responses'[i].side = s /\ responses'[i].type = "ACCEPTED")
                BY <1>3, <2>1, <3>1 DEF SideInv, AcceptedIsFirst
            <4> QED BY <4>1 DEF AcceptedIsFirst
        <3>8. FinalIsLast(s)'
            <4> SUFFICES ASSUME NEW i \in DOMAIN responses',
                                responses'[i].side = s, IsFinal(responses'[i])
                PROVE  /\ \A o \in open' : o.side # s
                       /\ \A j \in DOMAIN responses' : responses'[j].side = s => j <= i
                BY DEF FinalIsLast
            <4>1. /\ \A o \in open : o.side # s
                  /\ \A j \in DOMAIN responses' : responses'[j].side = s => j + 1 <= i + 1
                BY <1>3, <3>1 DEF SideInv, FinalIsLast
            <4> QED BY <1>1, <1>3, <4>1
        <3>9. FillsAddUp(s)'
            <4>1. /\ \A o, p \in open' : o.side = s /\ p.side = s => o = p
                  /\ \A o \in open' : o.side = s => o.qty <= slot'[s].qty
                BY <1>1, <1>3, <2>1, <3>1 DEF SideInv, FillsAddUp
            <4>2. ASSUME NEW i \in DOMAIN responses',
                         responses'[i].side = s, responses'[i].type = "FILLED"
                  PROVE  /\ responses'[i].exec + responses'[i].leaves <= slot'[s].qty
                         /\ \A o \in open' : o.side = s => o.qty <= responses'[i].leaves
                         /\ \A j \in DOMAIN responses' :
                              j < i /\ responses'[j].side = s
                                    /\ responses'[j].type = "FILLED" =>
                                responses'[i].exec + responses'[i].leaves
                                    <= responses'[j].leaves
                <5>1. i + 1 \in DOMAIN responses /\ responses'[i] = responses[i + 1] /\ 1 < i + 1
                    BY <1>3
                <5>2. /\ responses[i + 1].exec + responses[i + 1].leaves <= slot[s].qty
                      /\ \A o \in open : o.side = s => o.qty <= responses[i + 1].leaves
                      /\ \A j \in DOMAIN responses :
                             j < i + 1 /\ responses[j].side = s
                                       /\ responses[j].type = "FILLED" =>
                                 responses[i + 1].exec + responses[i + 1].leaves
                                     <= responses[j].leaves
                    BY <3>1, <4>2, <5>1 DEF SideInv, FillsAddUp
                <5>3. responses'[i].exec + responses'[i].leaves <= slot'[s].qty
                    BY <1>3, <2>1, <3>1, <5>1, <5>2
                <5>4. \A j \in DOMAIN responses' : j < i => j + 1 < i + 1
                    BY <1>3
                <5> QED BY <1>1, <1>3, <5>1, <5>2, <5>3, <5>4
            <4> QED BY <4>1, <4>2 DEF FillsAddUp
        <3> QED BY <3>4, <3>5, <3>6, <3>7, <3>8, <3>9 DEF SideInv
    <2>2. CASE s # r.side
        <3>1. DOMAIN requests' \subseteq Nat /\ \A i \in DOMAIN requests' : i + 0 = i
            BY <1>1, <1>2, Channels, LenProperties
        <3> QED BY <1>1, <1>3, <1>7, <2>2, <3>1, OtherSide
    <2> QED BY <2>1, <2>2
<1>11. PositionWithinLimit'
    <2>1. /\ position \in Int /\ MaxPosition \in Nat
          /\ position + Exposure("BUY") <= MaxPosition
          /\ position - Exposure("SELL") >= -MaxPosition
        BY <1>2, LimitsAssumption DEF TypeOK, KeeperTypeOK, PositionWithinLimit
    <2>2. ASSUME NEW s \in Sides
          PROVE  Exposure(s) \in Nat /\ (s # r.side => Exposure(s)' = Exposure(s))
        BY <1>5, <1>7 DEF Exposure, SideInv, AliveIsKnown
    <2>3. ASSUME NEW s \in Sides, s = r.side
          PROVE  /\ Exposure(s) = slot[s].qty
                 /\ Exposure(s)' = IF IsFinal(r) THEN 0 ELSE slot'[s].qty
        BY <1>6, <2>3 DEF Exposure, Alive, Pending, Dead
    <2>4. CASE r.type = "FILLED"
        <3>1. position' = position + r.exec * SideToValue(r.side)
            BY <1>1, <2>4 DEF AddFill
        <3>2. r.side \in Sides /\ r.exec + r.leaves <= slot[r.side].qty
            BY <1>3, <1>4, <1>5, <2>4 DEF SideInv, FillsAddUp
        <3>3. \A s \in Sides : s = r.side =>
                  /\ Exposure(s)' = r.leaves
                  /\ r.exec + r.leaves <= Exposure(s)
            BY <1>6, <2>3, <2>4, <3>2 DEF IsFinal
        <3>4. CASE r.side = "BUY"
            <4>1. position' = position + r.exec
                BY <1>4, <3>1, <3>4 DEF SideToValue
            <4> QED BY <1>4, <2>1, <2>2, <3>2, <3>3, <3>4, <4>1, TwoSides
                    DEF PositionWithinLimit
        <3>5. CASE r.side = "SELL"
            <4>1. position' = position - r.exec
                BY <1>4, <2>1, <3>1, <3>5 DEF SideToValue
            <4> QED BY <1>4, <2>1, <2>2, <3>2, <3>3, <3>5, <4>1, TwoSides
                    DEF PositionWithinLimit
        <3> QED BY <3>2, <3>4, <3>5, TwoSides
    <2>5. CASE r.type # "FILLED"
        <3>1. position' = position
            BY <1>1, <2>5 DEF keeperVars
        <3>2. ASSUME NEW s \in Sides
              PROVE  Exposure(s)' \in Nat /\ Exposure(s)' <= Exposure(s)
            BY <1>6, <2>2, <2>3, <2>5
        <3> QED BY <2>1, <2>2, <3>1, <3>2, TwoSides DEF PositionWithinLimit
    <2> QED BY <2>4, <2>5
<1> QED BY <1>8, <1>9, <1>10, <1>11 DEF IInv

\* A step of the keeper alone that leaves the position.
LEMMA UnchangedInv ==
    ASSUME IInv, UNCHANGED <<clientVars, requests, open, responses>>,
           KeeperTypeOK', position' = position
    PROVE  IInv'
<1> USE DEF clientVars
<1>1. TypeOK' /\ SidesKnown' /\ PositionWithinLimit'
    BY DEF IInv, TypeOK, SidesKnown, PositionWithinLimit, Exposure
<1>2. ASSUME NEW s \in Sides PROVE SideInv(s)'
    <2>1. SideInv(s)
        BY DEF IInv
    <2>2. AliveIsKnown(s)' /\ DeadIsGone(s)' /\ SameOrder(s)' /\ NewIsAlone(s)'
        BY <2>1 DEF SideInv, AliveIsKnown, DeadIsGone, SameOrder, NewIsAlone, IsNew
    <2>3. AcceptedIsFirst(s)' /\ FinalIsLast(s)' /\ FillsAddUp(s)'
        BY <2>1 DEF SideInv, AcceptedIsFirst, FinalIsLast, FillsAddUp
    <2> QED BY <2>2, <2>3 DEF SideInv
<1> QED BY <1>1, <1>2 DEF IInv

\* Every step keeps the invariant.
LEMMA NextInv == IInv /\ [Next]_vars => IInv'
<1> SUFFICES ASSUME IInv, [Next]_vars PROVE IInv'
    OBVIOUS
<1>1. ASSUME NEW bid \in Prices, NEW ask \in Prices, OnOrderBookUpdate(bid, ask)
      PROVE  IInv'
    <2>1. bid \in Int /\ ask \in Int
        BY PricesAssumption
    <2>2. UpdateBBO(bid, ask) /\ position' = position
        BY <1>1 DEF OnOrderBookUpdate, UpdateBBO
    <2>3. KeeperTypeOK'
        BY <2>1, <2>2, UpdateBBOType DEF IInv, TypeOK
    <2>4. ASSUME NEW price \in MakerQuotes(bid, ask), MoveOrders(price, totalPnL')
          PROVE  IInv'
        <3>1. \A s \in Sides : price[s] \in Int
            BY <2>1 DEF MakerQuotes, Sides
        <3> QED BY <2>2, <2>3, <2>4, <3>1, MoveOrdersInv
    <2>5. CASE UNCHANGED <<clientVars, requests, open, responses>>
        BY <2>2, <2>3, <2>5, UnchangedInv
    <2> QED BY <1>1, <2>4, <2>5 DEF OnOrderBookUpdate
<1>2. ASSUME NEW bid \in Prices, NEW ask \in Prices, NEW s \in Sides,
             OnTradeUpdate(s, bid, ask)
      PROVE  IInv'
    <2>1. MoveOrders(TakerQuote(s, bid, ask), totalPnL) /\ UNCHANGED keeperVars
        BY <1>2 DEF OnTradeUpdate
    <2>2. \A t \in Sides : TakerQuote(s, bid, ask)[t] \in Int
        BY PricesAssumption DEF TakerQuote, Sides, Invalid
    <2>3. KeeperTypeOK' /\ position' = position
        BY <2>1 DEF IInv, TypeOK, KeeperTypeOK, keeperVars
    <2> QED BY <2>1, <2>2, <2>3, MoveOrdersInv
<1>3. ASSUME UNCHANGED vars PROVE IInv'
    <2>1. KeeperTypeOK' /\ position' = position
        BY <1>3 DEF IInv, TypeOK, KeeperTypeOK, vars, keeperVars
    <2> QED BY <1>3, <2>1, UnchangedInv DEF vars
<1> QED BY <1>1, <1>2, <1>3, OnOrderUpdateInv, AcceptNewInv, CancelOrderInv, FillInv
        DEF Next, Exchange

-----------------------------------------------------------------------------
(* The theorems.                                                           *)

\* The invariant holds throughout.
LEMMA Invariant == Spec => []IInv
BY InitInv, NextInv, PTL DEF Spec

\* The client's variables, the channels and the exchange's book keep to their types: every
\* request names an order id that was given out and a quantity, although a slot may have
\* neither, and no quantity falls below zero.
THEOREM TypeCorrect == Spec => []TypeOK
<1>1. IInv => TypeOK
    BY DEF IInv
<1> QED BY <1>1, Invariant, PTL

\* checkPreTradeRisk is enough: whatever is filled, and in whatever order fills, cancels
\* and quotes come, the position stays within its limit.
THEOREM PositionLimited == Spec => []PositionWithinLimit
<1>1. IInv => PositionWithinLimit
    BY DEF IInv
<1> QED BY <1>1, Invariant, PTL

\* moveOrder never leaves two orders on a side, nor one the client has forgotten.
THEOREM OneOrderASide == Spec => []OneOrderPerSide
<1>1. IInv => OneOrderPerSide
    <2> SUFFICES ASSUME IInv, NEW s \in Sides, NEW id \in OutThere(s)
        PROVE  slot[s].state \in Alive /\ id = slot[s].oid
        BY DEF OneOrderPerSide
    <2>1. SideInv(s) /\ slot[s].state \in Alive \cup Dead
        BY DEF IInv, TypeOK
    <2>2. \/ \E o \in open : o.side = s /\ id = o.oid
          \/ \E i \in DOMAIN requests : IsNew(s, i) /\ id = requests[i].oid
        BY DEF OutThere, IsNew
    <2> QED BY <2>1, <2>2 DEF SideInv, DeadIsGone, SameOrder
<1> QED BY <1>1, Invariant, PTL

\* onOrderUpdate may go by the side alone: the order it finds there is the one that
\* the response is about.
THEOREM ResponsesMeetOrders == Spec => []ResponseMeetsItsOrder
<1>1. IInv => ResponseMeetsItsOrder
    <2> SUFFICES ASSUME IInv, NEW i \in DOMAIN responses, responses[i].side \in Sides
        PROVE  /\ slot[responses[i].side].state \in Alive
               /\ slot[responses[i].side].oid = responses[i].oid
        BY DEF ResponseMeetsItsOrder
    <2>1. /\ SideInv(responses[i].side)
          /\ slot[responses[i].side].state \in Alive \cup Dead
        BY DEF IInv, TypeOK
    <2> QED BY <2>1 DEF SideInv, DeadIsGone, SameOrder
<1> QED BY <1>1, Invariant, PTL

-----------------------------------------------------------------------------
(* The profit and loss.                                                    *)

\* The open position's cost, by the side it is on.
OpenSide == IF position > 0 THEN "BUY" ELSE "SELL"

\* The average price of the open position is whole in the unit of money: the code
\* divides doubles there, and the model integers.
AverageIsWhole ==
    position # 0 => \E a \in Int : openVWAP[OpenSide] = a * Abs(position)

\* What the fills have brought in is what was realized, less what the open position
\* has cost; a flat position has cost nothing.
Settled ==
    /\ position > 0 => realPnL - openVWAP["BUY"] = cash
    /\ position < 0 => realPnL + openVWAP["SELL"] = cash
    /\ position = 0 => /\ realPnL = cash
                       /\ openVWAP["BUY"] = 0 /\ openVWAP["SELL"] = 0

Balance == Settled /\ AccountsBalance

\* A whole number of times d, divided by d.
LEMMA DivExact ==
    ASSUME NEW x \in Int, NEW d \in Nat \ {0}
    PROVE  (x * d) \div d = x
OBVIOUS

\* Products of sums.
LEMMA MultDistributes ==
    ASSUME NEW m \in Int, NEW x \in Int, NEW y \in Int
    PROVE  /\ m * (x + y) = m * x + m * y
           /\ m * (x - y) = m * x - m * y
           /\ m * (-x) = -(m * x)
           /\ m * x \in Int /\ m * x = x * m
OBVIOUS

\* A part of the position costs its share.
LEMMA CostOfPart ==
    ASSUME KeeperTypeOK, position # 0, NEW a \in Int, NEW n \in Nat, NEW t \in Sides,
           openVWAP[t] = a * Abs(position)
    PROVE  CostOf(n, t) = a * n
<1> DEFINE d == Abs(position)
<1>1. d \in Nat \ {0}
    BY DEF KeeperTypeOK, Abs
<1>2. CostOf(n, t) = (n * (a * d)) \div d
    BY DEF CostOf
<1> HIDE DEF d
<1>3. n * (a * d) = (a * n) * d /\ a * n \in Int
    BY <1>1
<1> QED BY <1>1, <1>2, <1>3, DivExact

\* The money of a fill.
LEMMA FillSettles ==
    ASSUME KeeperTypeOK, AverageIsWhole, Settled, KeeperTypeOK',
           NEW s \in Sides, NEW p \in Int, NEW q \in Nat, AddFill(s, p, q)
    PROVE  Balance'
<1> DEFINE m == Scale * p
           v == SideToValue(s)
           t == Opposite(s)
           new == position + q * v
           size == Abs(position)
           closed == Lesser(q, size)
<1>1. /\ m \in Int /\ v \in {1, -1} /\ t \in Sides /\ t # s
      /\ position \in Int /\ realPnL \in Int /\ cash \in Int /\ size \in Nat
      /\ openVWAP["BUY"] \in Int /\ openVWAP["SELL"] \in Int
      /\ openVWAP \in [Sides -> Int]
    BY ScaleAssumption DEF KeeperTypeOK, SideToValue, Opposite, Sides, Abs
<1>2. /\ position' = new /\ openVWAP' = OpenAfter(s, p, q)
      /\ realPnL' = realPnL + Realized(s, p, q)
      /\ totalPnL' = realPnL' + Unrealized(position', openVWAP', m)
      /\ cash' = cash - m * q * v /\ mark' = m
    BY DEF AddFill
<1>3. m * q \in Int /\ m * size \in Int /\ m * closed \in Int /\ closed \in Nat
      /\ new \in Int
    BY <1>1 DEF Lesser
<1>4. PICK a \in Int : position # 0 => openVWAP[OpenSide] = a * size
    <2>1. 0 \in Int
        OBVIOUS
    <2> QED BY <2>1 DEF AverageIsWhole
<1>5. ASSUME position # 0, t = OpenSide, NEW n \in Nat PROVE CostOf(n, t) = a * n
    BY <1>1, <1>4, <1>5, CostOfPart
<1> DEFINE mq == m * q
           mc == m * closed
           mz == m * size
           ac == a * closed
           aq == a * q
           az == a * size
           opposed == ~(position * v >= 0)
<1>6. /\ cash' = cash - mq * v /\ mq \in Int /\ mc \in Int /\ m * q * v = mq * v
      /\ q \in Nat
    BY <1>2, <1>3
<1>7. /\ s = "BUY" => v = 1 /\ t = "SELL"
      /\ s = "SELL" => v = -1 /\ t = "BUY"
      /\ s \in {"BUY", "SELL"}
    BY DEF SideToValue, Opposite, Sides
<1>8. /\ position > 0 => size = position
      /\ position < 0 => size = -position
      /\ size = 0 <=> position = 0
      /\ closed = IF q <= size THEN q ELSE size
    BY <1>1 DEF Abs, Lesser
<1>9. Realized(s, p, q) = IF opposed THEN v * (CostOf(closed, t) - mc) ELSE 0
    BY DEF Realized
<1>10. openVWAP' = IF new = 0 THEN [x \in Sides |-> 0]
                   ELSE IF ~opposed THEN [openVWAP EXCEPT ![s] = @ + mq]
                   ELSE IF new * position < 0
                   THEN [x \in Sides |-> IF x = s THEN m * Abs(new) ELSE 0]
                   ELSE [openVWAP EXCEPT ![t] = CostOf(Abs(new), t)]
    BY <1>2 DEF OpenAfter
<1>11. /\ new = IF s = "BUY" THEN position + q ELSE position - q
       /\ cash' = IF s = "BUY" THEN cash - mq ELSE cash + mq
       /\ opposed <=> IF s = "BUY" THEN position < 0 ELSE position > 0
       /\ opposed => t = OpenSide /\ position # 0
    <2>1. CASE s = "BUY"
        BY <1>1, <1>6, <1>7, <2>1 DEF OpenSide
    <2>2. CASE s = "SELL"
        BY <1>1, <1>6, <1>7, <2>2 DEF OpenSide
    <2> QED BY <1>7, <2>1, <2>2
<1>12. ASSUME opposed
       PROVE  realPnL' = IF s = "BUY" THEN realPnL + ac - mc ELSE realPnL - ac + mc
    <2>1. CostOf(closed, t) = ac
        BY <1>3, <1>5, <1>11, <1>12
    <2>2. ac \in Int
        BY <1>3
    <2>3. realPnL' = realPnL + v * (ac - mc)
        BY <1>2, <1>9, <1>12, <2>1
    <2> HIDE DEF ac, mc, v
    <2> QED BY <1>1, <1>6, <1>7, <2>2, <2>3
<1>13. ~opposed => realPnL' = realPnL
    BY <1>1, <1>2, <1>9
<1>14. new # 0 /\ opposed =>
           (new * position < 0 <=> q > size) /\ (q > size => Abs(new) = q - size)
                                            /\ (q <= size => Abs(new) = size - q)
    <2> HIDE DEF new, size, opposed
    <2>1. ASSUME new # 0, opposed, position > 0
          PROVE  /\ new * position < 0 <=> q > size
                 /\ q > size => Abs(new) = q - size
                 /\ q <= size => Abs(new) = size - q
        <3>1. new = position - q /\ size = position
            BY <1>1, <1>7, <1>8, <1>11, <2>1
        <3>2. new * position < 0 <=> new < 0
            BY <1>1, <1>3, <2>1
        <3> QED BY <1>1, <1>3, <1>6, <3>1, <3>2 DEF Abs
    <2>2. ASSUME new # 0, opposed, position < 0
          PROVE  /\ new * position < 0 <=> q > size
                 /\ q > size => Abs(new) = q - size
                 /\ q <= size => Abs(new) = size - q
        <3>1. new = position + q /\ size = -position
            BY <1>1, <1>7, <1>8, <1>11, <2>2
        <3>2. new * position < 0 <=> new > 0
            BY <1>1, <1>3, <2>2
        <3> QED BY <1>1, <1>3, <1>6, <3>1, <3>2 DEF Abs
    <2> QED BY <1>1, <1>11, <2>1, <2>2
<1>15. position' = new /\ KeeperTypeOK'
    BY <1>2
\* What the products of the fill and the position come to.
<1>16. /\ q <= size => closed = q /\ mc = mq /\ ac = aq
       /\ q > size => closed = size /\ mc = mz /\ ac = az
       /\ m * (q - size) = mq - mz
       /\ a * (size - q) = az - aq
       /\ az \in Int /\ aq \in Int /\ mz \in Int
    <2>1. q \in Int /\ size \in Int
        BY <1>1
    <2>2. /\ q <= size => closed = q
          /\ q > size => closed = size
        BY <1>1, <1>8
    <2> HIDE DEF m, size, closed
    <2> QED BY <1>1, <2>1, <2>2, MultDistributes
<1>17. position # 0 => openVWAP[OpenSide] = az
    BY <1>4
<1> HIDE DEF m, v, t, new, size, closed, mq, mc, mz, ac, aq, az, opposed
<1> DEFINE bought == openVWAP["BUY"]
           sold == openVWAP["SELL"]
<1>18. /\ position \in Int /\ realPnL \in Int /\ cash \in Int
       /\ bought \in Int /\ sold \in Int /\ mq \in Int /\ mz \in Int /\ az \in Int
       /\ aq \in Int
       /\ position > 0 => realPnL - bought = cash
       /\ position < 0 => realPnL + sold = cash
       /\ position = 0 => realPnL = cash /\ bought = 0 /\ sold = 0
       /\ s = "BUY" => openVWAP[s] = bought /\ openVWAP[t] = sold
       /\ s = "SELL" => openVWAP[s] = sold /\ openVWAP[t] = bought
    BY <1>1, <1>6, <1>7, <1>16 DEF Settled
<1>19. cash' = IF s = "BUY" THEN cash - mq ELSE cash + mq
    BY <1>11
<1> HIDE DEF bought, sold
\* To flat.
<1>20. ASSUME new = 0 PROVE Settled'
    <2>1. openVWAP'["BUY"] = 0 /\ openVWAP'["SELL"] = 0
        BY <1>10, <1>20 DEF Sides
    <2>2. CASE opposed
        <3>1. q = size /\ ac = az /\ mc = mq
            BY <1>1, <1>6, <1>7, <1>8, <1>11, <1>16, <1>20, <2>2
        <3>2. openVWAP[t] = az
            BY <1>11, <1>17, <2>2
        <3>3. realPnL' = cash'
            <4>1. /\ s = "BUY" => position < 0
                  /\ s # "BUY" => position > 0
                BY <1>11, <2>2
            <4>2. realPnL' = IF s = "BUY" THEN realPnL + az - mq ELSE realPnL - az + mq
                BY <1>12, <2>2, <3>1
            <4>3. s = "BUY" => sold = az
                BY <1>18, <3>2
            <4>4. s = "SELL" => bought = az
                BY <1>18, <3>2
            <4> QED BY <1>7, <1>18, <1>19, <4>1, <4>2, <4>3, <4>4
        <3> QED BY <1>15, <1>20, <2>1, <3>3 DEF Settled
    <2>3. CASE ~opposed
        <3>1. position = 0 /\ q = 0
            BY <1>1, <1>6, <1>7, <1>11, <1>20, <2>3
        <3>2. mq = 0
            BY <1>1, <3>1 DEF mq
        <3>3. realPnL' = cash'
            BY <1>1, <1>6, <1>11, <1>13, <2>3, <3>1, <3>2 DEF Settled
        <3> QED BY <1>15, <1>20, <2>1, <3>3 DEF Settled
    <2> QED BY <2>2, <2>3
\* Opened, or increased.
<1>21. ASSUME new # 0, ~opposed PROVE Settled'
    <2>1. openVWAP'[s] = openVWAP[s] + mq /\ openVWAP'[t] = openVWAP[t]
        BY <1>1, <1>10, <1>21
    <2>2. CASE s = "BUY"
        <3>1. position >= 0 /\ new > 0 /\ cash' = cash - mq /\ realPnL' = realPnL
            BY <1>1, <1>3, <1>6, <1>11, <1>13, <1>21, <2>2
        <3>2. realPnL' - openVWAP'["BUY"] = cash'
            BY <1>7, <1>18, <2>1, <2>2, <3>1
        <3> QED BY <1>3, <1>15, <3>1, <3>2 DEF Settled
    <2>3. CASE s = "SELL"
        <3>1. position <= 0 /\ new < 0 /\ cash' = cash + mq /\ realPnL' = realPnL
            BY <1>1, <1>3, <1>6, <1>11, <1>13, <1>21, <2>3
        <3>2. realPnL' + openVWAP'["SELL"] = cash'
            BY <1>7, <1>18, <2>1, <2>3, <3>1
        <3> QED BY <1>3, <1>15, <3>1, <3>2 DEF Settled
    <2> QED BY <1>7, <2>2, <2>3
\* Flipped.
<1>22. ASSUME new # 0, opposed, q > size PROVE Settled'
    <2>1. openVWAP'[s] = mq - mz
        BY <1>1, <1>10, <1>14, <1>16, <1>22
    <2>2. openVWAP[t] = az /\ mc = mz /\ ac = az
        BY <1>11, <1>16, <1>17, <1>22
    <2>3. CASE s = "BUY"
        <3>1. position < 0 /\ new > 0 /\ cash' = cash - mq
            BY <1>1, <1>6, <1>8, <1>11, <1>22, <2>3
        <3>2. realPnL' = realPnL + az - mz
            BY <1>12, <1>22, <2>1, <2>2, <2>3
        <3>3. realPnL' - openVWAP'["BUY"] = cash'
            BY <1>7, <1>18, <2>1, <2>2, <2>3, <3>1, <3>2
        <3> QED BY <1>3, <1>15, <3>1, <3>3 DEF Settled
    <2>4. CASE s = "SELL"
        <3>1. position > 0 /\ new < 0 /\ cash' = cash + mq
            BY <1>1, <1>6, <1>7, <1>8, <1>11, <1>22, <2>4
        <3>2. realPnL' = realPnL - az + mz
            BY <1>7, <1>12, <1>22, <2>1, <2>2, <2>4
        <3>3. realPnL' + openVWAP'["SELL"] = cash'
            BY <1>7, <1>18, <2>1, <2>2, <2>4, <3>1, <3>2
        <3> QED BY <1>3, <1>15, <3>1, <3>3 DEF Settled
    <2> QED BY <1>7, <2>3, <2>4
\* Decreased.
<1>23. ASSUME new # 0, opposed, q <= size PROVE Settled'
    <2>1. Abs(new) \in Nat /\ Abs(new) = size - q
        BY <1>1, <1>6, <1>14, <1>23
    <2>2. CostOf(Abs(new), t) = a * Abs(new)
        BY <1>5, <1>11, <1>23, <2>1
    <2>3. openVWAP'[t] = az - aq
        BY <1>1, <1>10, <1>14, <1>16, <1>23, <2>1, <2>2
    <2>4. openVWAP[t] = az /\ ac = aq /\ mc = mq
        BY <1>11, <1>16, <1>17, <1>23
    <2>5. CASE s = "BUY"
        <3>1. position < 0 /\ new < 0 /\ cash' = cash - mq
            BY <1>1, <1>6, <1>8, <1>11, <1>23, <2>5
        <3>2. realPnL' = realPnL + aq - mq
            BY <1>12, <1>23, <2>4, <2>5
        <3>3. realPnL' + openVWAP'["SELL"] = cash'
            BY <1>7, <1>18, <2>3, <2>4, <2>5, <3>1, <3>2
        <3> QED BY <1>3, <1>15, <3>1, <3>3 DEF Settled
    <2>6. CASE s = "SELL"
        <3>1. position > 0 /\ new > 0 /\ cash' = cash + mq
            BY <1>1, <1>6, <1>7, <1>8, <1>11, <1>23, <2>6
        <3>2. realPnL' = realPnL - aq + mq
            BY <1>7, <1>12, <1>23, <2>4, <2>6
        <3>3. realPnL' - openVWAP'["BUY"] = cash'
            BY <1>7, <1>18, <2>3, <2>4, <2>6, <3>1, <3>2
        <3> QED BY <1>3, <1>15, <3>1, <3>3 DEF Settled
    <2> QED BY <1>7, <2>5, <2>6
<1>24. Settled'
    BY <1>1, <1>6, <1>20, <1>21, <1>22, <1>23
<1>25. AccountsBalance'
    <2>1. Unrealized(position', openVWAP', m) = cash' + position' * mark' - realPnL'
        <3>1. position' * m \in Int /\ mark' = m
            BY <1>1, <1>2, <1>3, <1>15 DEF m
        <3> DEFINE worth == position' * m
        <3>2. /\ cash' \in Int /\ realPnL' \in Int /\ position' \in Int
              /\ openVWAP'["BUY"] \in Int /\ openVWAP'["SELL"] \in Int
            BY DEF KeeperTypeOK, Sides
        <3>3. Unrealized(position', openVWAP', m) =
                  IF position' >= 0
                  THEN worth - (IF position' = 0 THEN 0 ELSE openVWAP'["BUY"])
                  ELSE openVWAP'["SELL"] + worth
            BY DEF Unrealized
        <3> HIDE DEF worth
        <3>4. Unrealized(position', openVWAP', m) = cash' + worth - realPnL'
            <4>1. worth \in Int
                BY <3>1 DEF worth
            <4>2. position' = 0 => worth = 0
                BY <1>1, <3>1 DEF worth
            <4> QED BY <1>24, <3>2, <3>3, <4>1, <4>2 DEF Settled
        <3> QED BY <3>1, <3>4 DEF worth
    <2>2. totalPnL' = realPnL' + Unrealized(position', openVWAP', m)
        BY <1>2 DEF m
    <2>3. cash' \in Int /\ realPnL' \in Int /\ position' * mark' \in Int
        BY DEF KeeperTypeOK
    <2> QED BY <2>1, <2>2, <2>3 DEF AccountsBalance
<1> QED BY <1>24, <1>25 DEF Balance

\* The value of the position at the best prices.
LEMMA UpdateBBOSettles ==
    ASSUME KeeperTypeOK, Balance, NEW bid \in Int, NEW ask \in Int,
           UpdateBBO(bid, ask)
    PROVE  Balance'
<1> DEFINE m == (Scale * (bid + ask)) \div 2
<1>1. m \in Int
    <2>1. Scale * (bid + ask) \in Int
        BY ScaleAssumption
    <2> QED BY <2>1
<1>2. /\ totalPnL' = IF position = 0 THEN totalPnL
                     ELSE realPnL + Unrealized(position, openVWAP, m)
      /\ mark' = IF position = 0 THEN mark ELSE m
      /\ position' = position /\ realPnL' = realPnL /\ openVWAP' = openVWAP
      /\ cash' = cash
    BY DEF UpdateBBO, TotalPnLAt
<1> HIDE DEF m
<1>3. Settled'
    BY <1>2 DEF Balance, Settled
<1>4. /\ position \in Int /\ realPnL \in Int /\ cash \in Int
      /\ openVWAP["BUY"] \in Int /\ openVWAP["SELL"] \in Int /\ mark \in Int
    BY DEF KeeperTypeOK, Sides
<1>5. CASE position = 0
    <2>1. totalPnL' = totalPnL /\ mark' = mark
        BY <1>2, <1>5
    <2> QED BY <1>2, <1>3, <2>1 DEF Balance, AccountsBalance
<1>6. CASE position # 0
    <2> DEFINE worth == position * m
    <2>1. worth \in Int
        BY <1>1, <1>4
    <2>2. Unrealized(position, openVWAP, m) =
              IF position > 0 THEN worth - openVWAP["BUY"]
                              ELSE openVWAP["SELL"] + worth
        BY <1>4, <1>6 DEF Unrealized
    <2>3. totalPnL' = realPnL + Unrealized(position, openVWAP, m)
        BY <1>2, <1>6
    <2> HIDE DEF worth
    <2>4. totalPnL' = cash + worth
        BY <1>4, <1>6, <2>1, <2>2, <2>3 DEF Balance, Settled
    <2> QED BY <1>2, <1>3, <1>6, <2>4 DEF Balance, AccountsBalance, worth
<1> QED BY <1>5, <1>6

\* Every step keeps the accounts.
LEMMA StepBalances ==
    IInv /\ AverageIsWhole /\ Balance /\ [Next]_vars => Balance'
<1> SUFFICES ASSUME IInv, AverageIsWhole, Balance, [Next]_vars PROVE Balance'
    OBVIOUS
<1>1. IInv' /\ KeeperTypeOK /\ KeeperTypeOK'
    BY NextInv DEF IInv, TypeOK
<1>2. ASSUME UNCHANGED keeperVars PROVE Balance'
    BY <1>2 DEF keeperVars, Balance, Settled, AccountsBalance
<1>3. ASSUME NEW bid \in Prices, NEW ask \in Prices, OnOrderBookUpdate(bid, ask)
      PROVE  Balance'
    <2>1. bid \in Int /\ ask \in Int /\ UpdateBBO(bid, ask)
        BY <1>3, PricesAssumption DEF OnOrderBookUpdate
    <2> QED BY <1>1, <2>1, UpdateBBOSettles
<1>4. ASSUME OnOrderUpdate PROVE Balance'
    <2> DEFINE r == Head(responses)
    <2>1. /\ responses # <<>>
          /\ IF r.type = "FILLED" THEN AddFill(r.side, r.price, r.exec)
                                  ELSE UNCHANGED keeperVars
        BY <1>4 DEF OnOrderUpdate
    <2>2. r \in Response /\ (r.type = "FILLED" => r.side \in Sides)
        <3>1. responses \in Seq(Response) /\ SidesKnown
            BY DEF IInv, TypeOK
        <3>2. 1 \in DOMAIN responses /\ r = responses[1] /\ r \in Response
            BY <2>1, <3>1, AfterTail
        <3> QED BY <3>1, <3>2 DEF SidesKnown
    <2> HIDE DEF r
    <2>3. CASE r.type = "FILLED"
        <3>1. r.side \in Sides /\ r.price \in Int /\ r.exec \in Nat
            BY <2>2, <2>3 DEF Response, LimitPrices
        <3> QED BY <1>1, <2>1, <2>3, <3>1, FillSettles DEF Balance
    <2> QED BY <1>2, <2>1, <2>3
<1> QED BY <1>2, <1>3, <1>4 DEF Next, Exchange, OnTradeUpdate, AcceptNew, CancelOrder,
        Fill, vars

\* As long as the average price of the position is whole in the unit of money, and
\* openVWAP begins as zero, the profit that the loss limit is checked against is the
\* money that the fills have brought in and what the position is worth, whatever
\* openings, partial closes, closes and flips there were, of any size at any price.
THEOREM ProfitIsReal ==
    Uninitialized = {0} => (Spec /\ []AverageIsWhole => []AccountsBalance)
<1> SUFFICES ASSUME Uninitialized = {0}
             PROVE  Spec /\ []AverageIsWhole => []AccountsBalance
    OBVIOUS
<1>1. Init => Balance
    BY DEF Init, KeeperInit, Balance, Settled, AccountsBalance, Sides
<1>2. Balance => AccountsBalance
    BY DEF Balance
<1> QED BY <1>1, <1>2, Invariant, StepBalances, PTL DEF Spec
=============================================================================
