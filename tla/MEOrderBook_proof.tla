-------------------------- MODULE MEOrderBook_proof --------------------------
(***************************************************************************)
(* The order book is correct for every set of clients, ids, prices and     *)
(* quantities, as long as the prices fit the table of levels, and matching *)
(* can always go on and uses something up in each step.                    *)
(***************************************************************************)
EXTENDS MEOrderBook, WellFoundedInduction, TLAPS

\* Market order ids are given out once and in increasing order.
MidsUnique ==
    /\ \A o, p \in orders : o.mid = p.mid => o = p
    /\ \A o \in orders : o.mid < nextMid

\* What holds of the book's containers at every step, the match loop included.
BookInv ==
    /\ MidsUnique
    /\ LevelsAgree
    /\ MapAgrees
    /\ Uncrossed
    /\ PriorityIsArrival

\* The order being matched has something left, is younger than the book, and
\* its client has no resting order of that id.
AggressorInv ==
    aggressor # Nobody =>
        /\ aggressor.leaves # 0
        /\ aggressor.mid < nextMid
        /\ \A o \in orders : o.mid < aggressor.mid
        /\ cidOid[aggressor.client][aggressor.oid] = 0

IInv == TypeOK /\ BookInv /\ AggressorInv

-----------------------------------------------------------------------------
(* Facts about one state.                                                  *)

\* A price has a slot in the table of levels.
LEMMA IndexInTable ==
    ASSUME NEW p \in Prices
    PROVE  PriceToIndex(p) \in Indices
BY PricesAssumption, LevelsAssumption, SMT DEF PriceToIndex, Indices

\* Market order ids are numbers.
LEMMA MidsAreNat ==
    ASSUME NEW m \in Mids
    PROVE  m \in Nat /\ m # 0
BY MaxOrdersAssumption DEF Mids

\* Writing one entry of the hash map keeps its type.
LEMMA MapType ==
    ASSUME cidOid \in [Clients -> [OrderIds -> 0 .. MaxOrders]],
           NEW c \in Clients, NEW oid \in OrderIds, NEW m \in 0 .. MaxOrders
    PROVE  [cidOid EXCEPT ![c][oid] = m]
               \in [Clients -> [OrderIds -> 0 .. MaxOrders]]
<1>1. [cidOid[c] EXCEPT ![oid] = m] \in [OrderIds -> 0 .. MaxOrders]
    OBVIOUS
<1>2. [cidOid EXCEPT ![c][oid] = m]
          = [cidOid EXCEPT ![c] = [cidOid[c] EXCEPT ![oid] = m]]
    OBVIOUS
<1> QED BY <1>1, <1>2

\* The level of an order is the order's: the top of a side is the best price
\* of all orders on that side.
LEMMA TopIsBest ==
    ASSUME TypeOK, LevelsAgree, NEW s \in Sides,
           NEW o \in orders, IsTop(s, o), NEW x \in orders, x.side = s
    PROVE  /\ o.side = s
           /\ ~Better(s, x.price, o.price)
           /\ PriceToIndex(x.price) = PriceToIndex(o.price) =>
                  o.mid <= x.mid /\ x.price = o.price
<1>1. /\ PriceToIndex(o.price) \in Indices
      /\ PriceToIndex(x.price) \in Indices
    BY IndexInTable DEF TypeOK, Order
<1>2. /\ level[PriceToIndex(o.price)] = [side |-> o.side, price |-> o.price]
      /\ level[PriceToIndex(x.price)] = [side |-> x.side, price |-> x.price]
    BY DEF LevelsAgree
<1> QED BY <1>1, <1>2 DEF IsTop, IsBestLevel, IsFirst, OrdersAt

\* When CheckForMatch stops, nothing in the book can trade with the new order.
LEMMA NothingCrosses ==
    ASSUME TypeOK, LevelsAgree, aggressor # Nobody, NoMatch(aggressor),
           NEW x \in orders, x.side = Opposite(aggressor.side)
    PROVE  ~Crosses(aggressor.side, aggressor.price, x.price)
<1> DEFINE s == Opposite(aggressor.side)
<1>1. aggressor \in Aggressor /\ s \in Sides /\ x \in Order
    BY DEF TypeOK, Aggressor, Opposite, Sides
<1>2. CASE \A i \in Indices : level[i].side # s
    <2>1. PriceToIndex(x.price) \in Indices
        BY <1>1, IndexInTable DEF Order
    <2>2. level[PriceToIndex(x.price)] = [side |-> x.side, price |-> x.price]
        BY DEF LevelsAgree
    <2> QED BY <1>2, <2>1, <2>2
<1>3. ASSUME NEW o \in orders, IsTop(s, o),
             ~Crosses(aggressor.side, aggressor.price, o.price)
      PROVE  ~Crosses(aggressor.side, aggressor.price, x.price)
    <2>1. ~Better(s, x.price, o.price)
        BY <1>1, <1>3, TopIsBest
    <2>2. /\ x.price \in Nat /\ o.price \in Nat /\ aggressor.price \in Nat
          /\ aggressor.side \in Sides
        BY <1>1, PricesAssumption DEF TypeOK, Order, Aggressor
    <2> QED BY <1>3, <2>1, <2>2 DEF Better, Crosses, Opposite, Sides
<1> QED BY <1>2, <1>3 DEF NoMatch

-----------------------------------------------------------------------------
(* The operations on the containers.                                       *)

\* RemoveOrder keeps the containers consistent.
LEMMA RemoveKeepsBook ==
    ASSUME TypeOK, BookInv, NEW o \in orders, RemoveOrder(o),
           nextMid' = nextMid
    PROVE  BookInv'
<1> DEFINE i == PriceToIndex(o.price)
<1>1. /\ orders' = orders \ {o}
      /\ cidOid' = [cidOid EXCEPT ![o.client][o.oid] = 0]
      /\ level' = IF OrdersAt(i) = {o} THEN [level EXCEPT ![i] = NoLevel]
                                       ELSE level
    BY DEF RemoveOrder
<1>2. MidsUnique' /\ Uncrossed' /\ PriorityIsArrival'
    BY <1>1 DEF BookInv, MidsUnique, Uncrossed, PriorityIsArrival
<1>3. LevelsAgree'
    <2>1. ASSUME NEW x \in orders'
          PROVE  level'[PriceToIndex(x.price)]
                     = [side |-> x.side, price |-> x.price]
        <3>1. x \in orders /\ x # o
            BY <1>1
        <3>2. OrdersAt(i) = {o} => PriceToIndex(x.price) # i
            BY <3>1 DEF OrdersAt
        <3> QED BY <1>1, <3>1, <3>2 DEF BookInv, LevelsAgree, TypeOK
    <2>2. ASSUME NEW j \in Indices, level'[j] # NoLevel
          PROVE  OrdersAt(j)' # {}
        <3>1. level[j] # NoLevel /\ (OrdersAt(i) = {o} => j # i)
            BY <1>1, <2>2 DEF TypeOK
        <3>2. OrdersAt(j) # {}
            BY <3>1 DEF BookInv, LevelsAgree
        <3>3. OrdersAt(j)' = OrdersAt(j) \ {o}
            BY <1>1 DEF OrdersAt
        <3>4. o \in OrdersAt(j) => j = i
            BY DEF OrdersAt
        <3> QED BY <3>1, <3>2, <3>3, <3>4
    <2> QED BY <2>1, <2>2 DEF LevelsAgree
<1>4. MapAgrees'
    <2>1. ASSUME NEW x \in orders'
          PROVE  cidOid'[x.client][x.oid] = x.mid
        <3>1. x \in orders /\ x # o /\ x \in Order /\ o \in Order
            BY <1>1 DEF TypeOK
        <3>2. cidOid[x.client][x.oid] = x.mid /\ cidOid[o.client][o.oid] = o.mid
            BY <3>1 DEF BookInv, MapAgrees
        <3>3. <<x.client, x.oid>> # <<o.client, o.oid>>
            BY <3>1, <3>2 DEF BookInv, MidsUnique
        <3> QED BY <1>1, <3>1, <3>2, <3>3 DEF TypeOK, Order
    <2>2. ASSUME NEW c \in Clients, NEW oid \in OrderIds, cidOid'[c][oid] # 0
          PROVE  \E x \in orders' : /\ x.mid = cidOid'[c][oid]
                                    /\ x.client = c /\ x.oid = oid
        <3>1. cidOid'[c][oid] = cidOid[c][oid] /\ <<c, oid>> # <<o.client, o.oid>>
            BY <1>1, <2>2 DEF TypeOK, Order
        <3>2. PICK x \in orders : /\ x.mid = cidOid[c][oid]
                                  /\ x.client = c /\ x.oid = oid
            BY <2>2, <3>1 DEF BookInv, MapAgrees
        <3> QED BY <1>1, <3>1, <3>2
    <2> QED BY <2>1, <2>2 DEF MapAgrees
<1> QED BY <1>2, <1>3, <1>4 DEF BookInv

\* AddOrder(SMEOrder *) keeps them consistent for an order younger than the
\* book, of an id its client has free, that nothing in the book can trade with.
LEMMA InsertKeepsBook ==
    ASSUME TypeOK, BookInv, PriceWindow, NEW n \in Order,
           n.mid < nextMid,
           \A x \in orders : x.mid < n.mid,
           cidOid[n.client][n.oid] = 0,
           \A x \in orders : x.side = Opposite(n.side) =>
               ~Crosses(n.side, n.price, x.price),
           n.priority \in GetNextPriority(n.price),
           Insert(n), nextMid' = nextMid
    PROVE  BookInv'
<1> DEFINE i == PriceToIndex(n.price)
<1>1. /\ orders' = orders \cup {n}
      /\ cidOid' = [cidOid EXCEPT ![n.client][n.oid] = n.mid]
      /\ level' = IF level[i] = NoLevel
                  THEN [level EXCEPT ![i] = [side |-> n.side, price |-> n.price]]
                  ELSE level
    BY DEF Insert
<1>2. i \in Indices /\ n.mid \in Nat /\ nextMid \in Nat
    <2>1. n.price \in Prices /\ n.mid \in Mids /\ nextMid \in 1 .. MaxOrders + 1
        BY DEF Order, TypeOK
    <2> QED BY <2>1, IndexInTable, MaxOrdersAssumption DEF Mids
<1>3. \A x \in orders : x \in Order /\ x.mid \in Nat /\ x.price \in Nat
                          /\ x.price \in Prices
    <2> SUFFICES ASSUME NEW x \in orders
                 PROVE  /\ x \in Order /\ x.mid \in Nat /\ x.price \in Nat
                        /\ x.price \in Prices
        OBVIOUS
    <2>1. x \in Order
        BY DEF TypeOK
    <2>2. x.mid \in Mids /\ x.price \in Prices
        BY <2>1 DEF Order
    <2> QED BY <2>1, <2>2, MidsAreNat, PricesAssumption
<1>4. n.price \in Nat /\ n.price \in Prices /\ n.side \in Sides
    BY PricesAssumption DEF Order
\* An order already in the level has the new order's side and price.
<1>5. ASSUME NEW x \in orders, PriceToIndex(x.price) = i
      PROVE  x.price = n.price /\ x.side = n.side
    <2>1. x.price = n.price
        BY <1>3, <1>4, <1>5 DEF PriceWindow
    <2>2. x.side \in Sides
        BY <1>3 DEF Order
    <2> QED BY <2>1, <2>2, <1>3, <1>4 DEF Sides, Opposite, Crosses
<1>6. MidsUnique'
    BY <1>1, <1>2, <1>3 DEF BookInv, MidsUnique
<1>7. Uncrossed'
    BY <1>1, <1>3, <1>4 DEF BookInv, Uncrossed, Opposite, Crosses, Sides
<1>8. PriorityIsArrival'
    <2>1. ASSUME NEW x \in orders, x.price = n.price
          PROVE  x.priority < n.priority
        <3>1. PriceToIndex(x.price) = i /\ x \in OrdersAt(i)
            BY <2>1 DEF OrdersAt
        <3>2. level[i] # NoLevel
            <4>1. level[i] = [side |-> x.side, price |-> x.price]
                BY <3>1 DEF BookInv, LevelsAgree
            <4>2. x.side \in Sides
                BY <1>3 DEF Order
            <4> QED BY <4>1, <4>2 DEF NoLevel, Sides
        <3>3. PICK l \in orders : IsLast(l, i) /\ n.priority = l.priority + 1
            BY <3>2 DEF GetNextPriority
        <3>4. l.price = n.price /\ l.side = n.side /\ x.side = n.side
            BY <1>5, <3>1, <3>3 DEF IsLast, OrdersAt
        <3>5. x.mid <= l.mid /\ x.mid \in Nat /\ l.mid \in Nat
            BY <1>3, <3>1, <3>3 DEF IsLast
        <3>6. x.priority \in Nat /\ l.priority \in Nat
            BY <1>3 DEF Order
        <3>7. CASE x.mid = l.mid
            <4>1. x = l
                BY <3>7 DEF BookInv, MidsUnique
            <4> QED BY <3>3, <3>6, <4>1
        <3>8. CASE x.mid # l.mid
            <4>1. x.priority < l.priority
                BY <2>1, <3>4, <3>5, <3>8 DEF BookInv, PriorityIsArrival
            <4> QED BY <3>3, <3>6, <4>1
        <3> QED BY <3>7, <3>8
    <2>2. ASSUME NEW x \in orders', NEW y \in orders',
                 x.side = y.side, x.price = y.price, x.mid < y.mid
          PROVE  x.priority < y.priority
        <3>1. CASE x \in orders /\ y \in orders
            BY <2>2, <3>1 DEF BookInv, PriorityIsArrival
        <3>2. CASE x \in orders /\ y = n
            BY <2>1, <2>2, <3>2
        <3>3. CASE x = n
            <4>1. ~(y \in orders)
                BY <1>2, <1>3, <2>2, <3>3
            <4>2. y = n
                BY <1>1, <4>1
            <4> QED BY <1>2, <2>2, <3>3, <4>2
        <3> QED BY <1>1, <3>1, <3>2, <3>3
    <2> QED BY <2>2 DEF PriorityIsArrival
<1>9. LevelsAgree'
    <2>1. ASSUME NEW x \in orders'
          PROVE  level'[PriceToIndex(x.price)]
                     = [side |-> x.side, price |-> x.price]
        <3>1. CASE x \in orders
            <4>1. level[PriceToIndex(x.price)] = [side |-> x.side, price |-> x.price]
                BY <3>1 DEF BookInv, LevelsAgree
            <4>2. x.side \in Sides
                BY <1>3, <3>1 DEF Order
            <4>3. level[PriceToIndex(x.price)] # NoLevel
                BY <4>1, <4>2 DEF NoLevel, Sides
            <4> QED BY <1>1, <1>2, <4>1, <4>3 DEF TypeOK
        <3>2. CASE x = n /\ level[i] = NoLevel
            BY <1>1, <1>2, <3>2 DEF TypeOK
        <3>3. CASE x = n /\ level[i] # NoLevel
            <4>1. PICK y \in orders : PriceToIndex(y.price) = i
                BY <1>2, <3>3 DEF BookInv, LevelsAgree, OrdersAt
            <4>2. y.price = n.price /\ y.side = n.side
                BY <1>5, <4>1
            <4>3. level[i] = [side |-> y.side, price |-> y.price]
                BY <4>1 DEF BookInv, LevelsAgree
            <4> QED BY <1>1, <3>3, <4>2, <4>3
        <3> QED BY <1>1, <3>1, <3>2, <3>3
    <2>2. ASSUME NEW j \in Indices, level'[j] # NoLevel
          PROVE  OrdersAt(j)' # {}
        <3>1. OrdersAt(j) \subseteq OrdersAt(j)'
            BY <1>1 DEF OrdersAt
        <3>2. CASE j = i
            BY <1>1, <3>2 DEF OrdersAt
        <3>3. CASE j # i
            <4>1. level[j] # NoLevel
                BY <1>1, <2>2, <3>3 DEF TypeOK
            <4> QED BY <3>1, <4>1 DEF BookInv, LevelsAgree
        <3> QED BY <3>2, <3>3
    <2> QED BY <2>1, <2>2 DEF LevelsAgree
<1>10. MapAgrees'
    <2>1. ASSUME NEW x \in orders'
          PROVE  cidOid'[x.client][x.oid] = x.mid
        <3>1. CASE x = n
            BY <1>1, <3>1 DEF TypeOK, Order
        <3>2. CASE x \in orders
            <4>1. cidOid[x.client][x.oid] = x.mid /\ x.mid \in Mids
                BY <1>3, <3>2 DEF BookInv, MapAgrees, Order
            <4>2. ~(x.client = n.client /\ x.oid = n.oid)
                BY <4>1, MaxOrdersAssumption DEF Mids
            <4> QED BY <1>1, <1>3, <3>2, <4>1, <4>2 DEF TypeOK, Order
        <3> QED BY <1>1, <3>1, <3>2
    <2>2. ASSUME NEW c \in Clients, NEW oid \in OrderIds, cidOid'[c][oid] # 0
          PROVE  \E x \in orders' : /\ x.mid = cidOid'[c][oid]
                                    /\ x.client = c /\ x.oid = oid
        <3>1. CASE c = n.client /\ oid = n.oid
            BY <1>1, <3>1 DEF TypeOK, Order
        <3>2. CASE ~(c = n.client /\ oid = n.oid)
            <4>1. cidOid'[c][oid] = cidOid[c][oid]
                BY <1>1, <3>2 DEF TypeOK, Order
            <4> QED BY <1>1, <2>2, <4>1 DEF BookInv, MapAgrees
        <3> QED BY <3>1, <3>2
    <2> QED BY <2>1, <2>2 DEF MapAgrees
<1> QED BY <1>6, <1>7, <1>8, <1>9, <1>10 DEF BookInv

\* A partial fill changes a quantity and nothing the containers depend on.
LEMMA PartialFillKeepsBook ==
    ASSUME TypeOK, BookInv, NEW o \in orders, NEW fill,
           orders' = (orders \ {o}) \cup {[o EXCEPT !.qty = @ - fill]},
           cidOid' = cidOid, level' = level, nextMid' = nextMid
    PROVE  BookInv'
<1> DEFINE rest == [o EXCEPT !.qty = @ - fill]
<1>1. /\ o \in Order
      /\ rest.mid = o.mid /\ rest.client = o.client /\ rest.oid = o.oid
      /\ rest.side = o.side /\ rest.price = o.price
      /\ rest.priority = o.priority
    BY DEF TypeOK, Order
<1> HIDE DEF rest
<1>2. orders' = (orders \ {o}) \cup {rest}
    BY DEF rest
<1>3. MidsUnique' /\ Uncrossed' /\ PriorityIsArrival'
    BY <1>1, <1>2 DEF BookInv, MidsUnique, Uncrossed, PriorityIsArrival
<1>4. MapAgrees'
    BY <1>1, <1>2 DEF BookInv, MapAgrees
<1>5. LevelsAgree'
    <2>1. \A x \in orders' : level'[PriceToIndex(x.price)]
                                 = [side |-> x.side, price |-> x.price]
        <3> SUFFICES ASSUME NEW x \in orders'
                     PROVE  level[PriceToIndex(x.price)]
                                = [side |-> x.side, price |-> x.price]
            OBVIOUS
        <3>1. PICK y \in orders : y.price = x.price /\ y.side = x.side
            BY <1>1, <1>2
        <3>2. level[PriceToIndex(y.price)] = [side |-> y.side, price |-> y.price]
            BY DEF BookInv, LevelsAgree
        <3> QED BY <3>1, <3>2
    <2>2. \A i : OrdersAt(i) # {} => OrdersAt(i)' # {}
        BY <1>1, <1>2 DEF OrdersAt
    <2> QED BY <2>1, <2>2 DEF BookInv, LevelsAgree
<1> QED BY <1>3, <1>4, <1>5 DEF BookInv

-----------------------------------------------------------------------------
(* The steps.                                                              *)

LEMMA InitIInv == Init => IInv
BY MaxOrdersAssumption
   DEF Init, IInv, TypeOK, BookInv, MidsUnique, LevelsAgree, MapAgrees, Uncrossed,
       PriorityIsArrival, AggressorInv, Indices, NoLevel, Nobody

\* RemoveOrder and Insert keep the containers' types.
LEMMA RemoveTypes ==
    ASSUME TypeOK, NEW o \in orders, RemoveOrder(o)
    PROVE  /\ orders' \subseteq Order
           /\ cidOid' \in [Clients -> [OrderIds -> 0 .. MaxOrders]]
           /\ level' \in [Indices -> [side : Sides, price : Prices] \cup {NoLevel}]
<1>1. o \in Order /\ o.client \in Clients /\ o.oid \in OrderIds
    BY DEF TypeOK, Order
<1>2. 0 \in 0 .. MaxOrders
    BY MaxOrdersAssumption
<1>3. cidOid' \in [Clients -> [OrderIds -> 0 .. MaxOrders]]
    BY <1>1, <1>2, MapType DEF RemoveOrder, TypeOK
<1>4. level' \in [Indices -> [side : Sides, price : Prices] \cup {NoLevel}]
    BY DEF RemoveOrder, TypeOK
<1> QED BY <1>3, <1>4 DEF RemoveOrder, TypeOK

LEMMA InsertTypes ==
    ASSUME TypeOK, NEW n \in Order, Insert(n)
    PROVE  /\ orders' \subseteq Order
           /\ cidOid' \in [Clients -> [OrderIds -> 0 .. MaxOrders]]
           /\ level' \in [Indices -> [side : Sides, price : Prices] \cup {NoLevel}]
<1>1. /\ n.client \in Clients /\ n.oid \in OrderIds /\ n.mid \in Mids
      /\ n.side \in Sides /\ n.price \in Prices
    BY DEF Order
<1>2. n.mid \in 0 .. MaxOrders
    BY <1>1, MaxOrdersAssumption DEF Mids
<1>3. cidOid' \in [Clients -> [OrderIds -> 0 .. MaxOrders]]
    BY <1>1, <1>2, MapType DEF Insert, TypeOK
<1>4. level' \in [Indices -> [side : Sides, price : Prices] \cup {NoLevel}]
    BY <1>1 DEF Insert, TypeOK
<1> QED BY <1>3, <1>4 DEF Insert, TypeOK

\* Each of the four kinds of step keeps the containers consistent.
LEMMA StepBookInv ==
    ASSUME PriceWindow, IInv, Next
    PROVE  BookInv'
<1> USE DEF IInv
<1>1. ASSUME NEW c \in Clients, NEW oid \in OrderIds, NEW s \in Sides,
             NEW p \in Prices, NEW q \in Quantities, AddOrder(c, oid, s, p, q)
      PROVE  BookInv'
    <2>1. /\ orders' = orders /\ cidOid' = cidOid /\ level' = level
          /\ nextMid' = nextMid + 1
        BY <1>1 DEF AddOrder, bookVars
    <2>2. \A o \in orders : o.mid \in Nat /\ nextMid \in Nat
        BY MaxOrdersAssumption DEF TypeOK, Order, Mids
    <2>3. MidsUnique'
        BY <2>1, <2>2 DEF BookInv, MidsUnique
    <2> QED BY <2>1, <2>3 DEF BookInv, LevelsAgree, OrdersAt, MapAgrees,
                Uncrossed, PriorityIsArrival
<1>2. ASSUME NEW o \in orders, Match(o)
      PROVE  BookInv'
    <2> DEFINE fill == FillQty(aggressor.leaves, o.qty)
               rest == [o EXCEPT !.qty = @ - fill]
    <2>1. nextMid' = nextMid
        BY <1>2 DEF Match
    <2>2. CASE rest.qty = 0
        BY <1>2, <2>1, <2>2, RemoveKeepsBook DEF Match
    <2>3. CASE rest.qty # 0
        <3>1. /\ orders' = (orders \ {o}) \cup {rest}
              /\ cidOid' = cidOid /\ level' = level
            BY <1>2, <2>3 DEF Match
        <3> HIDE DEF fill
        <3> QED BY <2>1, <3>1, PartialFillKeepsBook
    <2> QED BY <2>2, <2>3
<1>3. CASE AddRemainder
    <2> DEFINE N(k) == [mid |-> aggressor.mid, client |-> aggressor.client,
                        oid |-> aggressor.oid, side |-> aggressor.side,
                        price |-> aggressor.price, qty |-> aggressor.leaves,
                        priority |-> k]
    <2>1. PICK k \in GetNextPriority(aggressor.price) : Insert(N(k))
        BY <1>3 DEF AddRemainder
    <2>2. aggressor # Nobody /\ NoMatch(aggressor) /\ nextMid' = nextMid
        BY <1>3 DEF AddRemainder
    <2>3. aggressor \in Aggressor
        BY <2>2 DEF TypeOK
    <2>4. k \in Nat
        BY <2>1 DEF GetNextPriority, TypeOK, Order
    <2>5. N(k) \in Order
        BY <2>3, <2>4 DEF Order, Aggressor
    <2>6. \A x \in orders : x.side = Opposite(aggressor.side) =>
              ~Crosses(aggressor.side, aggressor.price, x.price)
        BY <2>2, NothingCrosses DEF BookInv
    <2>7. /\ N(k).mid = aggressor.mid /\ N(k).client = aggressor.client
          /\ N(k).oid = aggressor.oid /\ N(k).side = aggressor.side
          /\ N(k).price = aggressor.price /\ N(k).priority = k
        OBVIOUS
    <2> HIDE DEF N
    <2> QED BY <2>1, <2>2, <2>5, <2>6, <2>7, InsertKeepsBook DEF AggressorInv
<1>4. ASSUME NEW c \in Clients, NEW oid \in OrderIds, CancelOrder(c, oid)
      PROVE  BookInv'
    <2>1. nextMid' = nextMid
        BY <1>4 DEF CancelOrder
    <2>2. CASE CancelFound(c, oid)
        BY <2>1, <2>2, RemoveKeepsBook DEF CancelFound
    <2>3. CASE CancelUnknown(c, oid)
        BY <2>1, <2>3 DEF CancelUnknown, bookVars, BookInv, MidsUnique, LevelsAgree,
           OrdersAt, MapAgrees, Uncrossed, PriorityIsArrival
    <2> QED BY <1>4, <2>2, <2>3 DEF CancelOrder
<1> QED BY <1>1, <1>2, <1>3, <1>4 DEF Next, Matching

\* The order being matched stays younger than the book until it joins it.
LEMMA StepAggressorInv ==
    ASSUME IInv, Next
    PROVE  AggressorInv'
<1> USE DEF IInv
<1>0. \A o \in orders : o.mid \in Nat /\ nextMid \in Nat
    <2> SUFFICES ASSUME NEW o \in orders PROVE o.mid \in Nat /\ nextMid \in Nat
        OBVIOUS
    <2>1. o.mid \in Mids /\ nextMid \in 1 .. MaxOrders + 1
        BY DEF TypeOK, Order
    <2> QED BY <2>1, MaxOrdersAssumption DEF Mids
<1>1. ASSUME NEW c \in Clients, NEW oid \in OrderIds, NEW s \in Sides,
             NEW p \in Prices, NEW q \in Quantities, AddOrder(c, oid, s, p, q)
      PROVE  AggressorInv'
    <2>1. /\ orders' = orders /\ cidOid' = cidOid /\ cidOid[c][oid] = 0
          /\ nextMid' = nextMid + 1 /\ nextMid \in Nat
        BY <1>1, MaxOrdersAssumption DEF AddOrder, bookVars, TypeOK
    <2>2. aggressor' # Nobody =>
              /\ aggressor'.leaves # 0 /\ aggressor'.mid = nextMid
              /\ aggressor'.client = c /\ aggressor'.oid = oid
        BY <1>1 DEF AddOrder, Remaining
    <2> QED BY <1>0, <2>1, <2>2 DEF AggressorInv, BookInv, MidsUnique
<1>2. ASSUME NEW o \in orders, Match(o)
      PROVE  AggressorInv'
    <2>1. aggressor \in Aggressor /\ aggressor # Nobody /\ nextMid' = nextMid
        BY <1>2 DEF Match, TypeOK
    <2>2. aggressor' # Nobody =>
              /\ aggressor'.leaves # 0 /\ aggressor'.mid = aggressor.mid
              /\ aggressor'.client = aggressor.client
              /\ aggressor'.oid = aggressor.oid
        BY <1>2, <2>1 DEF Match, Remaining, Aggressor
    <2>3. \A x \in orders' : \E y \in orders : x.mid = y.mid
        BY <1>2 DEF Match, RemoveOrder, TypeOK, Order
    <2>4. cidOid'[aggressor.client][aggressor.oid] = 0
        <3>1. cidOid[aggressor.client][aggressor.oid] = 0
            BY <2>1 DEF AggressorInv
        <3>2. CASE cidOid' = cidOid
            BY <3>1, <3>2
        <3>3. CASE cidOid' = [cidOid EXCEPT ![o.client][o.oid] = 0]
            <4>1. /\ aggressor.client \in Clients /\ aggressor.oid \in OrderIds
                  /\ cidOid \in [Clients -> [OrderIds -> 0 .. MaxOrders]]
                BY <2>1 DEF TypeOK, Aggressor
            <4> QED BY <3>1, <3>3, <4>1
        <3> QED BY <1>2, <3>2, <3>3 DEF Match, RemoveOrder
    <2> QED BY <2>1, <2>2, <2>3, <2>4 DEF AggressorInv
<1>3. CASE AddRemainder
    BY <1>3 DEF AddRemainder, AggressorInv
<1>4. ASSUME NEW c \in Clients, NEW oid \in OrderIds, CancelOrder(c, oid)
      PROVE  AggressorInv'
    BY <1>4 DEF CancelOrder, AggressorInv
<1> QED BY <1>1, <1>2, <1>3, <1>4 DEF Next, Matching

\* The members keep their types, and what is sent is well formed.
LEMMA StepTypeOK ==
    ASSUME IInv, Next
    PROVE  TypeOK'
<1> USE DEF IInv
<1>1. ASSUME NEW c \in Clients, NEW oid \in OrderIds, NEW s \in Sides,
             NEW p \in Prices, NEW q \in Quantities, AddOrder(c, oid, s, p, q)
      PROVE  TypeOK'
    <2>1. nextMid \in Mids /\ nextMid' \in 1 .. MaxOrders + 1 /\ q \in Nat
        BY <1>1, MaxOrdersAssumption, QuantitiesAssumption
        DEF AddOrder, TypeOK, Mids
    <2>2. aggressor' \in Aggressor \cup {Nobody}
        BY <1>1, <2>1 DEF AddOrder, Remaining, Aggressor
    <2>3. responses' \in Seq(Response)
        BY <1>1, <2>1 DEF AddOrder, Respond, Response
    <2> QED BY <1>1, <2>1, <2>2, <2>3 DEF AddOrder, bookVars, TypeOK
<1>2. ASSUME NEW o \in orders, Match(o)
      PROVE  TypeOK'
    <2> DEFINE fill == FillQty(aggressor.leaves, o.qty)
               rest == [o EXCEPT !.qty = @ - fill]
    <2>1. aggressor \in Aggressor /\ o \in Order
        BY <1>2 DEF Match, TypeOK
    <2>2. /\ fill \in Nat /\ o.qty - fill \in Nat /\ aggressor.leaves - fill \in Nat
          /\ o.qty \in Nat
        BY <2>1 DEF Order, Aggressor, FillQty
    <2>3. rest \in Order /\ rest.qty = o.qty - fill
        BY <2>1, <2>2 DEF Order
    <2>4. aggressor' \in Aggressor \cup {Nobody}
        BY <1>2, <2>1, <2>2 DEF Match, Remaining, Aggressor
    <2> HIDE DEF fill, rest
    <2>5. responses' \in Seq(Response)
        <3>1. responses' =
                 <<Respond("FILLED", aggressor.client, aggressor.oid, aggressor.mid,
                           aggressor.side, o.price, fill, aggressor.leaves - fill),
                   Respond("FILLED", o.client, o.oid, o.mid, o.side, o.price,
                           fill, rest.qty)>>
            BY <1>2 DEF Match, fill, rest
        <3>2. /\ Respond("FILLED", aggressor.client, aggressor.oid, aggressor.mid,
                         aggressor.side, o.price, fill, aggressor.leaves - fill)
                     \in Response
              /\ Respond("FILLED", o.client, o.oid, o.mid, o.side, o.price,
                         fill, rest.qty) \in Response
            BY <2>1, <2>2, <2>3 DEF Respond, Response, Order, Aggressor
        <3> QED BY <3>1, <3>2
    <2>6. updates' \in Seq(Update)
        <3>1. updates' =
                 <<Publish("TRADE", Invalid, aggressor.side, o.price, fill, Invalid),
                   IF rest.qty = 0
                   THEN Publish("CANCEL", o.mid, o.side, o.price, o.qty, Invalid)
                   ELSE Publish("MODIFY", o.mid, o.side, o.price, rest.qty,
                                o.priority)>>
            BY <1>2 DEF Match, fill, rest
        <3>2. /\ Publish("TRADE", Invalid, aggressor.side, o.price, fill, Invalid)
                     \in Update
              /\ Publish("CANCEL", o.mid, o.side, o.price, o.qty, Invalid) \in Update
              /\ Publish("MODIFY", o.mid, o.side, o.price, rest.qty, o.priority)
                     \in Update
            BY <2>1, <2>2, <2>3 DEF Publish, Update, Order, Aggressor
        <3> QED BY <3>1, <3>2
    <2>7. CASE rest.qty = 0
        <3>1. RemoveOrder(o) /\ nextMid' = nextMid
            BY <1>2, <2>7 DEF Match, fill, rest
        <3> QED BY <2>4, <2>5, <2>6, <3>1, RemoveTypes DEF TypeOK
    <2>8. CASE rest.qty # 0
        <3>1. /\ orders' = (orders \ {o}) \cup {rest}
              /\ cidOid' = cidOid /\ level' = level /\ nextMid' = nextMid
            BY <1>2, <2>8 DEF Match, fill, rest
        <3> QED BY <2>3, <2>4, <2>5, <2>6, <3>1 DEF TypeOK
    <2> QED BY <2>7, <2>8
<1>3. CASE AddRemainder
    <2> DEFINE N(k) == [mid |-> aggressor.mid, client |-> aggressor.client,
                        oid |-> aggressor.oid, side |-> aggressor.side,
                        price |-> aggressor.price, qty |-> aggressor.leaves,
                        priority |-> k]
    <2>1. PICK k \in GetNextPriority(aggressor.price) :
              /\ Insert(N(k))
              /\ updates' = <<Publish("ADD", aggressor.mid, aggressor.side,
                                      aggressor.price, aggressor.leaves, k)>>
        BY <1>3 DEF AddRemainder
    <2>2. aggressor \in Aggressor
        BY <1>3 DEF AddRemainder, TypeOK
    <2>3. k \in Nat
        BY <2>1 DEF GetNextPriority, TypeOK, Order
    <2>4. N(k) \in Order
        BY <2>2, <2>3 DEF Order, Aggressor
    <2>5. updates' \in Seq(Update)
        BY <2>1, <2>2, <2>3 DEF Publish, Update, Aggressor
    <2>6. /\ orders' \subseteq Order
          /\ cidOid' \in [Clients -> [OrderIds -> 0 .. MaxOrders]]
          /\ level' \in [Indices -> [side : Sides, price : Prices] \cup {NoLevel}]
        BY <2>1, <2>4, InsertTypes
    <2> QED BY <1>3, <2>5, <2>6 DEF AddRemainder, TypeOK
<1>4. ASSUME NEW c \in Clients, NEW oid \in OrderIds, CancelOrder(c, oid)
      PROVE  TypeOK'
    <2>1. CASE CancelFound(c, oid)
        <3>1. PICK o \in orders :
                  /\ RemoveOrder(o)
                  /\ responses' = <<Respond("CANCELED", c, oid, o.mid, o.side,
                                            o.price, Invalid, o.qty)>>
                  /\ updates' = <<Publish("CANCEL", o.mid, o.side, o.price, 0,
                                          o.priority)>>
            BY <2>1 DEF CancelFound
        <3>2. o \in Order
            BY DEF TypeOK
        <3>3. responses' \in Seq(Response) /\ updates' \in Seq(Update)
            BY <3>1, <3>2 DEF Respond, Response, Publish, Update, Order
        <3> QED BY <1>4, <3>1, <3>3, RemoveTypes DEF CancelOrder, TypeOK
    <2>2. CASE CancelUnknown(c, oid)
        BY <1>4, <2>2 DEF CancelOrder, CancelUnknown, bookVars, TypeOK, Respond,
           Response
    <2> QED BY <1>4, <2>1, <2>2 DEF CancelOrder
<1> QED BY <1>1, <1>2, <1>3, <1>4 DEF Next, Matching

-----------------------------------------------------------------------------
(* The theorems.                                                           *)

LEMMA StepIInv == PriceWindow /\ IInv /\ [Next]_vars => IInv'
<1>1. ASSUME IInv, UNCHANGED vars PROVE IInv'
    BY <1>1 DEF vars, bookVars, outVars, IInv, TypeOK, BookInv, MidsUnique,
       LevelsAgree, OrdersAt, MapAgrees, Uncrossed, PriorityIsArrival,
       AggressorInv
<1> QED BY <1>1, StepBookInv, StepAggressorInv, StepTypeOK DEF IInv

\* The book stays in order while its prices fit the window of levels.
THEOREM IInvHolds == PriceWindow => (Spec => []IInv)
<1> SUFFICES ASSUME PriceWindow PROVE Spec => []IInv
    OBVIOUS
<1> QED BY InitIInv, StepIInv, PTL DEF Spec

\* The members of the book, and every response and update it sends, are well
\* formed at every step.
THEOREM TypeCorrect == PriceWindow => (Spec => []TypeOK)
<1> SUFFICES ASSUME PriceWindow PROVE Spec => []TypeOK
    OBVIOUS
<1>1. IInv => TypeOK
    BY DEF IInv
<1> QED BY <1>1, IInvHolds, PTL

\* Whatever the clients send, no bid in the book is ever as high as an ask, not
\* even between two trades of one new order.
THEOREM NeverCrossed == PriceWindow => (Spec => []Uncrossed)
<1> SUFFICES ASSUME PriceWindow PROVE Spec => []Uncrossed
    OBVIOUS
<1>1. IInv => Uncrossed
    BY DEF IInv, BookInv
<1> QED BY <1>1, IInvHolds, PTL

\* The hash map by client and order id, the table of levels and the orders
\* never disagree: no order is unreachable and no pointer dangles.
THEOREM ContainersAgree == PriceWindow => (Spec => []TablesAgree)
<1> SUFFICES ASSUME PriceWindow PROVE Spec => []TablesAgree
    OBVIOUS
<1>1. IInv => TablesAgree
    BY DEF IInv, BookInv, TablesAgree
<1> QED BY <1>1, IInvHolds, PTL

\* The priorities sent with the market data rank a level as its queue does.
THEOREM PrioritiesRankArrivals == PriceWindow => (Spec => []PriorityIsArrival)
<1> SUFFICES ASSUME PriceWindow PROVE Spec => []PriorityIsArrival
    OBVIOUS
<1>1. IInv => PriorityIsArrival
    BY DEF IInv, BookInv
<1> QED BY <1>1, IInvHolds, PTL

\* Every trade, of every new order, takes the best price and the lowest priority
\* number there is on the other side.
THEOREM TradesByPriceAndTime == PriceWindow => (Spec => PriceTimePriority)
<1> SUFFICES ASSUME PriceWindow PROVE Spec => PriceTimePriority
    OBVIOUS
<1> DEFINE Ranked(o, p) == /\ ~Better(o.side, p.price, o.price)
                           /\ p.price = o.price => o.priority <= p.priority
<1>1. ASSUME IInv, NEW o \in orders, Match(o), NEW p \in orders, p.side = o.side
      PROVE  Ranked(o, p)
    <2> DEFINE s == Opposite(aggressor.side)
    <2>1. s \in Sides /\ IsTop(s, o)
        BY <1>1 DEF Match, Sides, Opposite
    <2>2. TypeOK /\ LevelsAgree /\ PriorityIsArrival /\ MidsUnique
        BY <1>1 DEF IInv, BookInv
    <2>3. o.side = s
        <3>1. /\ PriceToIndex(o.price) \in Indices
              /\ level[PriceToIndex(o.price)] = [side |-> o.side, price |-> o.price]
            BY <2>2, IndexInTable DEF TypeOK, Order, LevelsAgree
        <3> QED BY <2>1, <3>1 DEF IsTop, IsBestLevel
    <2>4. ~Better(s, p.price, o.price)
        BY <1>1, <2>1, <2>2, <2>3, TopIsBest
    <2>5. ASSUME p.price = o.price PROVE o.priority <= p.priority
        <3>1. o.mid <= p.mid
            BY <1>1, <2>1, <2>2, <2>3, <2>5, TopIsBest
        <3>2. o \in Order /\ p \in Order
            BY <2>2 DEF TypeOK
        <3>3. /\ o.mid \in Nat /\ p.mid \in Nat
              /\ o.priority \in Nat /\ p.priority \in Nat
            BY <3>2, MidsAreNat DEF Order
        <3>4. CASE o.mid = p.mid
            BY <2>2, <3>3, <3>4 DEF MidsUnique
        <3>5. CASE o.mid # p.mid
            BY <1>1, <2>2, <2>5, <3>1, <3>3, <3>5 DEF PriorityIsArrival
        <3> QED BY <3>4, <3>5
    <2> QED BY <2>3, <2>4, <2>5
<1>2. IInv /\ [Next]_vars =>
          [\A o \in orders : Match(o) =>
               \A p \in orders : p.side = o.side => Ranked(o, p)]_vars
    BY <1>1
<1> QED BY <1>2, IInvHolds, PTL DEF Spec, PriceTimePriority

-----------------------------------------------------------------------------
(* The market data stream is the book.                                     *)

\* The entry of an order is found by its market order id.
LEMMA EntryOfOrder ==
    ASSUME MidsUnique, NEW o \in orders
    PROVE  {e \in PublishedBook : e.mid = o.mid} = {Published(o)}
BY DEF MidsUnique, PublishedBook, Published

\* A CANCEL takes out of the published book the order it names ...
LEMMA ReplayCancel ==
    ASSUME MidsUnique, NEW o \in orders, orders' = orders \ {o},
           NEW u, u.type = "CANCEL", u.mid = o.mid
    PROVE  PublishedBook' = Replay(PublishedBook, u)
<1>1. Replay(PublishedBook, u) = PublishedBook \ {Published(o)}
    BY EntryOfOrder DEF Replay
<1>2. \A x \in orders : Published(x) = Published(o) => x = o
    BY DEF MidsUnique, Published
<1>3. PublishedBook' = {Published(x) : x \in orders \ {o}}
    BY DEF PublishedBook, Published
<1>4. PublishedBook = {Published(x) : x \in orders}
    BY DEF PublishedBook
<1> QED BY <1>1, <1>2, <1>3, <1>4

\* ... a MODIFY puts the order's new quantity in its place ...
LEMMA ReplayModify ==
    ASSUME MidsUnique, NEW o \in orders, NEW r, r.mid = o.mid,
           orders' = (orders \ {o}) \cup {r},
           NEW u, u.type = "MODIFY", u.mid = r.mid, u.side = r.side,
           u.price = r.price, u.qty = r.qty, u.priority = r.priority
    PROVE  PublishedBook' = Replay(PublishedBook, u)
<1>1. Replay(PublishedBook, u) = (PublishedBook \ {Published(o)}) \cup {Published(r)}
    BY EntryOfOrder DEF Replay, Published
<1>2. \A x \in orders : Published(x) = Published(o) => x = o
    BY DEF MidsUnique, Published
<1>3. PublishedBook' = {Published(x) : x \in (orders \ {o}) \cup {r}}
    BY DEF PublishedBook, Published
<1>4. PublishedBook = {Published(x) : x \in orders}
    BY DEF PublishedBook
<1> QED BY <1>1, <1>2, <1>3, <1>4

\* ... and an ADD a new one.
LEMMA ReplayAdd ==
    ASSUME NEW n, orders' = orders \cup {n},
           NEW u, u.type = "ADD", u.mid = n.mid, u.side = n.side,
           u.price = n.price, u.qty = n.qty, u.priority = n.priority
    PROVE  PublishedBook' = Replay(PublishedBook, u)
<1>1. Replay(PublishedBook, u) = PublishedBook \cup {Published(n)}
    BY DEF Replay, Published
<1>2. PublishedBook' = {Published(x) : x \in orders \cup {n}}
    BY DEF PublishedBook, Published
<1>3. PublishedBook = {Published(x) : x \in orders}
    BY DEF PublishedBook
<1> QED BY <1>1, <1>2, <1>3

\* The book as the updates of one step leave it.
Replayed == CASE Len(updates') = 0 -> PublishedBook
              [] Len(updates') = 1 -> Replay(PublishedBook, updates'[1])
              [] Len(updates') = 2 -> Replay(Replay(PublishedBook, updates'[1]),
                                             updates'[2])

LEMMA StepReplays ==
    ASSUME IInv, Next
    PROVE  PublishedBook' = Replayed
<1>0. MidsUnique /\ orders \subseteq Order
    BY DEF IInv, BookInv, TypeOK
<1>1. ASSUME updates' = <<>>, orders' = orders PROVE PublishedBook' = Replayed
    BY <1>1 DEF Replayed, PublishedBook, Published
<1>2. ASSUME NEW u, updates' = <<u>>, PublishedBook' = Replay(PublishedBook, u)
      PROVE  PublishedBook' = Replayed
    BY <1>2 DEF Replayed
<1>3. ASSUME NEW c \in Clients, NEW oid \in OrderIds, NEW s \in Sides,
             NEW p \in Prices, NEW q \in Quantities, AddOrder(c, oid, s, p, q)
      PROVE  PublishedBook' = Replayed
    BY <1>1, <1>3 DEF AddOrder, bookVars
<1>4. ASSUME NEW o \in orders, Match(o)
      PROVE  PublishedBook' = Replayed
    <2> DEFINE fill == FillQty(aggressor.leaves, o.qty)
               rest == [o EXCEPT !.qty = @ - fill]
               T == Publish("TRADE", Invalid, aggressor.side, o.price, fill, Invalid)
               C == Publish("CANCEL", o.mid, o.side, o.price, o.qty, Invalid)
               M == Publish("MODIFY", o.mid, o.side, o.price, rest.qty, o.priority)
    <2>1. updates' = <<T, IF rest.qty = 0 THEN C ELSE M>>
        BY <1>4 DEF Match
    <2>2. /\ T.type = "TRADE" /\ C.type = "CANCEL" /\ C.mid = o.mid
          /\ M.type = "MODIFY" /\ M.mid = rest.mid /\ M.side = rest.side
          /\ M.price = rest.price /\ M.qty = rest.qty /\ M.priority = rest.priority
          /\ rest.mid = o.mid
        BY <1>0 DEF Publish, Order
    <2>3. rest.qty = 0 => orders' = orders \ {o}
        BY <1>4 DEF Match, RemoveOrder
    <2>4. rest.qty # 0 => orders' = (orders \ {o}) \cup {rest}
        BY <1>4 DEF Match
    <2> HIDE DEF fill, rest, T, C, M
    <2>5. Replay(PublishedBook, T) = PublishedBook
        BY <2>2 DEF Replay
    <2>6. PublishedBook' = Replay(PublishedBook, IF rest.qty = 0 THEN C ELSE M)
        BY <1>0, <2>2, <2>3, <2>4, ReplayCancel, ReplayModify
    <2> QED BY <2>1, <2>5, <2>6 DEF Replayed
<1>5. CASE AddRemainder
    <2> DEFINE N(k) == [mid |-> aggressor.mid, client |-> aggressor.client,
                        oid |-> aggressor.oid, side |-> aggressor.side,
                        price |-> aggressor.price, qty |-> aggressor.leaves,
                        priority |-> k]
               A(k) == Publish("ADD", aggressor.mid, aggressor.side,
                               aggressor.price, aggressor.leaves, k)
    <2>1. PICK k : orders' = orders \cup {N(k)} /\ updates' = <<A(k)>>
        BY <1>5 DEF AddRemainder, Insert
    <2>2. /\ A(k).type = "ADD" /\ A(k).mid = N(k).mid /\ A(k).side = N(k).side
          /\ A(k).price = N(k).price /\ A(k).qty = N(k).qty
          /\ A(k).priority = N(k).priority
        BY DEF Publish
    <2> HIDE DEF N, A
    <2> QED BY <1>2, <2>1, <2>2, ReplayAdd
<1>6. ASSUME NEW c \in Clients, NEW oid \in OrderIds, CancelOrder(c, oid)
      PROVE  PublishedBook' = Replayed
    <2>1. CASE CancelFound(c, oid)
        <3>1. PICK o \in orders :
                  /\ orders' = orders \ {o}
                  /\ updates' = <<Publish("CANCEL", o.mid, o.side, o.price, 0,
                                          o.priority)>>
            BY <2>1 DEF CancelFound, RemoveOrder
        <3> QED BY <1>0, <1>2, <3>1, ReplayCancel DEF Publish
    <2>2. CASE CancelUnknown(c, oid)
        BY <1>1, <2>2 DEF CancelUnknown, bookVars
    <2> QED BY <1>6, <2>1, <2>2 DEF CancelOrder
<1> QED BY <1>3, <1>4, <1>5, <1>6 DEF Next, Matching

\* Replaying the published updates from the empty book gives the book, order by
\* order, with its quantities and priorities, after every step of the engine.
THEOREM MarketDataIsTheBook == PriceWindow => (Spec => StreamIsBook)
<1> SUFFICES ASSUME PriceWindow PROVE Spec => StreamIsBook
    OBVIOUS
<1>1. IInv /\ [Next]_vars => [PublishedBook' = Replayed]_vars
    BY StepReplays
<1> QED BY <1>1, IInvHolds, PTL DEF Spec, StreamIsBook, Replayed

-----------------------------------------------------------------------------
(* Fills are reported to the orders' owners.                               *)

\* No order rests with nothing left: every execution is of something.
NoneEmpty == \A o \in orders : o.qty # 0

LEMMA StepNoneEmpty ==
    ASSUME IInv, NoneEmpty, [Next]_vars
    PROVE  NoneEmpty'
<1>1. ASSUME NEW o \in orders, Match(o)
      PROVE  NoneEmpty'
    <2> DEFINE rest == [o EXCEPT !.qty = @ - FillQty(aggressor.leaves, o.qty)]
    <2>1. orders' = IF rest.qty = 0 THEN orders \ {o} ELSE (orders \ {o}) \cup {rest}
        BY <1>1 DEF Match, RemoveOrder
    <2> HIDE DEF rest
    <2> QED BY <2>1 DEF NoneEmpty
<1>2. CASE AddRemainder
    <2>1. PICK k : orders' = orders \cup
              {[mid |-> aggressor.mid, client |-> aggressor.client,
                oid |-> aggressor.oid, side |-> aggressor.side,
                price |-> aggressor.price, qty |-> aggressor.leaves,
                priority |-> k]}
        BY <1>2 DEF AddRemainder, Insert
    <2>2. aggressor.leaves # 0
        BY <1>2 DEF AddRemainder, IInv, AggressorInv
    <2> QED BY <2>1, <2>2 DEF NoneEmpty
<1>3. ASSUME NEW c \in Clients, NEW oid \in OrderIds, CancelOrder(c, oid)
      PROVE  NoneEmpty'
    BY <1>3 DEF CancelOrder, CancelFound, CancelUnknown, RemoveOrder, bookVars,
       NoneEmpty
<1>4. CASE orders' = orders
    BY <1>4 DEF NoneEmpty
<1> QED BY <1>1, <1>2, <1>3, <1>4 DEF Next, Matching, AddOrder, vars, bookVars

LEMMA NoneEmptyHolds == PriceWindow => (Spec => []NoneEmpty)
<1> SUFFICES ASSUME PriceWindow PROVE Spec => []NoneEmpty
    OBVIOUS
<1>1. Init => NoneEmpty
    BY DEF Init, NoneEmpty
<1>2. IInv /\ NoneEmpty /\ [Next]_vars => NoneEmpty'
    BY StepNoneEmpty
<1> QED BY <1>1, <1>2, IInvHolds, PTL DEF Spec

\* What the clients have open when a is being matched and O rests.
Resting(O) == {Known(o, o.qty) : o \in O}
Matched(a) == IF a = Nobody THEN {} ELSE {Known(a, a.leaves)}

LEMMA OpenOrdersAre ==
    /\ OpenOrders = Resting(orders) \cup Matched(aggressor)
    /\ OpenOrders' = Resting(orders') \cup Matched(aggressor')
BY DEF OpenOrders, Resting, Matched

\* Orders of other ids are known as orders of other ids.
LEMMA RestingOthers ==
    ASSUME NEW O, NEW m, \A o \in O : o.mid # m
    PROVE  \A h \in Resting(O) : h.mid # m
BY DEF Resting, Known

\* One order more is one known order more.
LEMMA RestingWith ==
    ASSUME NEW O, NEW o
    PROVE  Resting(O \cup {o}) = Resting(O) \cup {Known(o, o.qty)}
BY DEF Resting

\* Response r goes to the owner of h, the only one of S and h with its order id.
Owned(S, h, r) ==
    /\ \A g \in S : g.mid # r.mid
    /\ h.mid = r.mid /\ h.client = r.client /\ h.oid = r.oid

\* It tells that a part of h, or all of it, was executed; that h was canceled.
Executes(r, h) == r.type = "FILLED" /\ r.exec # 0 /\ r.exec + r.leaves = h.qty
Cancels(r, h)  == r.type = "CANCELED" /\ r.leaves = h.qty

\* A response to the owner of the one order with its market order id finds it ...
LEMMA AddressedIs ==
    ASSUME NEW S, NEW h, NEW r, Owned(S, h, r)
    PROVE  Addressed(S \cup {h}, r) = {h} /\ (S \cup {h}) \ {h} = S
BY DEF Addressed, Owned

\* ... and changes what is known of this order only.
LEMMA LearnFilled ==
    ASSUME NEW S, NEW h, NEW r, Owned(S, h, r), Executes(r, h)
    PROVE  AddsUp(S \cup {h}, r) /\ Learn(S \cup {h}, r) = S \cup Left(r)
<1>1. Addressed(S \cup {h}, r) = {h} /\ (S \cup {h}) \ {h} = S
    BY AddressedIs
<1>2. Learn(S \cup {h}, r) = S \cup Left(r)
    BY <1>1 DEF Learn, Executes
<1>3. AddsUp(S \cup {h}, r)
    BY <1>1 DEF AddsUp, Executes
<1> QED BY <1>2, <1>3

LEMMA LearnCanceled ==
    ASSUME NEW S, NEW h, NEW r, Owned(S, h, r), Cancels(r, h)
    PROVE  AddsUp(S \cup {h}, r) /\ Learn(S \cup {h}, r) = S
<1>1. Addressed(S \cup {h}, r) = {h} /\ (S \cup {h}) \ {h} = S
    BY AddressedIs
<1>2. Learn(S \cup {h}, r) = S
    BY <1>1 DEF Learn, Cancels
<1>3. AddsUp(S \cup {h}, r)
    BY <1>1 DEF AddsUp, Cancels
<1> QED BY <1>2, <1>3

\* What FillsReported asks of a step.
Reported ==
    CASE Len(responses') = 0 -> OpenOrders' = OpenOrders
      [] Len(responses') = 1 ->
             /\ AddsUp(OpenOrders, responses'[1])
             /\ OpenOrders' = Learn(OpenOrders, responses'[1])
      [] Len(responses') = 2 ->
             LET between == Learn(OpenOrders, responses'[1])
             IN  /\ AddsUp(OpenOrders, responses'[1])
                 /\ AddsUp(between, responses'[2])
                 /\ OpenOrders' = Learn(between, responses'[2])

LEMMA ReportedNone ==
    ASSUME responses' = <<>>, OpenOrders' = OpenOrders
    PROVE  Reported
<1>1. Len(responses') = 0
    OBVIOUS
<1> QED BY <1>1 DEF Reported

LEMMA ReportedOne ==
    ASSUME NEW r, responses' = <<r>>, AddsUp(OpenOrders, r),
           OpenOrders' = Learn(OpenOrders, r)
    PROVE  Reported
<1>1. Len(responses') = 1 /\ responses'[1] = r
    OBVIOUS
<1> QED BY <1>1 DEF Reported

LEMMA ReportedTwo ==
    ASSUME NEW r, NEW s, NEW B, responses' = <<r, s>>,
           AddsUp(OpenOrders, r), B = Learn(OpenOrders, r), AddsUp(B, s),
           OpenOrders' = Learn(B, s)
    PROVE  Reported
<1>1. Len(responses') = 2 /\ responses'[1] = r /\ responses'[2] = s
    OBVIOUS
<1> QED BY <1>1 DEF Reported

\* A match tells the owner of the new order, then that of the resting one.
LEMMA MatchReports ==
    ASSUME IInv, NoneEmpty, NEW o \in orders, Match(o)
    PROVE  Reported
<1> DEFINE fill == FillQty(aggressor.leaves, o.qty)
           rest == [o EXCEPT !.qty = @ - fill]
           left == [aggressor EXCEPT !.leaves = @ - fill]
           A == Respond("FILLED", aggressor.client, aggressor.oid, aggressor.mid,
                        aggressor.side, o.price, fill, aggressor.leaves - fill)
           P == Respond("FILLED", o.client, o.oid, o.mid, o.side, o.price,
                        fill, rest.qty)
           a == Known(aggressor, aggressor.leaves)
           p == Known(o, o.qty)
           S == Resting(orders \ {o})
<1>1. /\ aggressor # Nobody /\ aggressor \in Aggressor /\ o \in Order
      /\ aggressor.leaves # 0 /\ o.qty # 0
    BY DEF Match, IInv, TypeOK, AggressorInv, NoneEmpty
<1>2. /\ aggressor.mid \in Nat /\ aggressor.mid # 0 /\ aggressor.leaves \in Nat
      /\ o.mid \in Nat /\ o.mid # aggressor.mid /\ o.qty \in Nat
    <2>1. aggressor.mid \in Mids /\ aggressor.leaves \in Nat
        BY <1>1 DEF Aggressor
    <2>2. o.mid \in Mids /\ o.qty \in Nat
        BY <1>1 DEF Order
    <2>3. o.mid < aggressor.mid
        BY <1>1 DEF IInv, AggressorInv
    <2> QED BY <2>1, <2>2, <2>3, MidsAreNat
<1>3. \A x \in orders \ {o} : x.mid # o.mid /\ x.mid # aggressor.mid
    <2>1. \A x \in orders : x.mid = o.mid => x = o
        BY DEF IInv, BookInv, MidsUnique
    <2>2. \A x \in orders : x.mid \in Nat /\ x.mid < aggressor.mid
        BY <1>1, MidsAreNat DEF IInv, TypeOK, Order, AggressorInv
    <2> QED BY <1>2, <2>1, <2>2
<1>4. /\ fill # 0 /\ fill + (aggressor.leaves - fill) = aggressor.leaves
      /\ fill + (o.qty - fill) = o.qty
    BY <1>1, <1>2 DEF FillQty
<1>5. /\ rest.mid = o.mid /\ rest.client = o.client /\ rest.oid = o.oid
      /\ rest.side = o.side /\ rest.qty = o.qty - fill
    BY <1>1 DEF Order
<1>6. /\ left.mid = aggressor.mid /\ left.client = aggressor.client
      /\ left.oid = aggressor.oid /\ left.side = aggressor.side
      /\ left.leaves = aggressor.leaves - fill
    BY <1>1 DEF Aggressor
<1>7. /\ responses' = <<A, P>>
      /\ aggressor' = IF left.leaves = 0 THEN Nobody ELSE left
      /\ orders' = IF rest.qty = 0 THEN orders \ {o}
                                   ELSE (orders \ {o}) \cup {rest}
    BY DEF Match, Remaining, RemoveOrder
<1>8. /\ A.type = "FILLED" /\ A.mid = aggressor.mid /\ A.client = aggressor.client
      /\ A.oid = aggressor.oid /\ A.side = aggressor.side /\ A.exec = fill
      /\ A.leaves = left.leaves
    BY <1>6 DEF Respond
<1>9. /\ P.type = "FILLED" /\ P.mid = o.mid /\ P.client = o.client
      /\ P.oid = o.oid /\ P.side = o.side /\ P.exec = fill /\ P.leaves = rest.qty
    BY DEF Respond
<1> HIDE DEF fill, rest, left, A, P
<1>10. /\ a.mid = aggressor.mid /\ a.client = aggressor.client
       /\ a.oid = aggressor.oid /\ a.qty = aggressor.leaves
       /\ p.mid = o.mid /\ p.client = o.client /\ p.oid = o.oid /\ p.qty = o.qty
    BY DEF Known
<1>11. OpenOrders = (S \cup {p}) \cup {a}
    <2>1. orders = (orders \ {o}) \cup {o}
        OBVIOUS
    <2>2. Resting(orders) = S \cup {p}
        BY <2>1, RestingWith
    <2> QED BY <1>1, <2>2, OpenOrdersAre DEF Matched
<1>12. \A g \in S : g.mid # o.mid /\ g.mid # aggressor.mid
    <2>1. \A g \in S : g.mid # o.mid
        BY <1>3, RestingOthers
    <2>2. \A g \in S : g.mid # aggressor.mid
        BY <1>3, RestingOthers
    <2> QED BY <2>1, <2>2
<1>13. Left(A) = Matched(aggressor') /\ \A g \in Left(A) : g.mid = aggressor.mid
    <2>1. CASE left.leaves = 0
        BY <1>7, <1>8, <2>1 DEF Left, Matched
    <2>2. CASE left.leaves # 0
        <3>1. aggressor' = left /\ left # Nobody
            BY <1>2, <1>6, <1>7, <2>2 DEF Nobody
        <3> QED BY <1>6, <1>8, <2>2, <3>1 DEF Left, Matched, Known
    <2> QED BY <2>1, <2>2
<1>14. Resting(orders') = S \cup Left(P)
    <2>1. CASE rest.qty = 0
        BY <1>7, <1>9, <2>1 DEF Left
    <2>2. CASE rest.qty # 0
        <3>1. orders' = (orders \ {o}) \cup {rest}
            BY <1>7, <2>2
        <3>2. Resting(orders') = S \cup {Known(rest, rest.qty)}
            BY <3>1, RestingWith
        <3>3. Left(P) = {Known(rest, rest.qty)}
            BY <1>5, <1>9, <2>2 DEF Left, Known
        <3> QED BY <3>2, <3>3
    <2> QED BY <2>1, <2>2
<1> HIDE DEF a, p, S
<1>15. AddsUp(OpenOrders, A) /\ Learn(OpenOrders, A) = (S \cup {p}) \cup Left(A)
    <2>1. Owned(S \cup {p}, a, A)
        BY <1>2, <1>8, <1>10, <1>12 DEF Owned
    <2>2. Executes(A, a)
        BY <1>4, <1>6, <1>8, <1>10 DEF Executes
    <2> QED BY <1>11, <2>1, <2>2, LearnFilled
<1>16. /\ AddsUp((S \cup Left(A)) \cup {p}, P)
       /\ Learn((S \cup Left(A)) \cup {p}, P) = (S \cup Left(A)) \cup Left(P)
    <2>1. Owned(S \cup Left(A), p, P)
        BY <1>2, <1>9, <1>10, <1>12, <1>13 DEF Owned
    <2>2. Executes(P, p)
        BY <1>4, <1>5, <1>9, <1>10 DEF Executes
    <2> QED BY <2>1, <2>2, LearnFilled
<1>17. (S \cup Left(A)) \cup {p} = Learn(OpenOrders, A)
    BY <1>15
<1>18. OpenOrders' = (S \cup Left(A)) \cup Left(P)
    BY <1>13, <1>14, OpenOrdersAre
<1> QED BY <1>7, <1>15, <1>16, <1>17, <1>18, ReportedTwo

\* An order that comes to rest is what its owner knew of it, and nothing is sent.
LEMMA RemainderReports ==
    ASSUME IInv, AddRemainder
    PROVE  Reported
<1> DEFINE N(k) == [mid |-> aggressor.mid, client |-> aggressor.client,
                    oid |-> aggressor.oid, side |-> aggressor.side,
                    price |-> aggressor.price, qty |-> aggressor.leaves,
                    priority |-> k]
<1>1. PICK k : orders' = orders \cup {N(k)}
    BY DEF AddRemainder, Insert
<1>2. Known(N(k), N(k).qty) = Known(aggressor, aggressor.leaves)
    BY DEF Known
<1> HIDE DEF N
<1>3. aggressor # Nobody /\ aggressor' = Nobody /\ responses' = <<>>
    BY DEF AddRemainder
<1>4. Resting(orders') = Resting(orders) \cup Matched(aggressor)
    BY <1>1, <1>2, <1>3, RestingWith DEF Matched
<1>5. OpenOrders' = OpenOrders
    BY <1>3, <1>4, OpenOrdersAre DEF Matched
<1> QED BY <1>3, <1>5, ReportedNone

LEMMA AddReports ==
    ASSUME IInv, NEW c \in Clients, NEW oid \in OrderIds, NEW s \in Sides,
           NEW p \in Prices, NEW q \in Quantities, AddOrder(c, oid, s, p, q)
    PROVE  Reported
<1> DEFINE r == Respond("ACCEPTED", c, oid, nextMid, s, p, 0, q)
           n == [mid |-> nextMid, client |-> c, oid |-> oid,
                 side |-> s, price |-> p, leaves |-> q]
<1>1. /\ responses' = <<r>> /\ orders' = orders
      /\ aggressor = Nobody /\ aggressor' = Remaining(n)
    BY DEF AddOrder, bookVars
<1>2. /\ r.type = "ACCEPTED" /\ r.mid = nextMid /\ r.client = c /\ r.oid = oid
      /\ r.side = s /\ r.leaves = q
    BY DEF Respond
<1>3. Left(r) = Matched(Remaining(n))
    <2>1. CASE q = 0
        BY <2>1 DEF Left, Matched, Remaining, Respond
    <2>2. CASE q # 0
        <3>1. nextMid # 0
            BY MaxOrdersAssumption DEF IInv, TypeOK
        <3>2. n # Nobody
            BY <3>1 DEF Nobody
        <3>3. Remaining(n) = n
            BY <2>2 DEF Remaining
        <3>4. Left(r) = {Known(n, n.leaves)}
            BY <1>2, <2>2 DEF Left, Known
        <3> QED BY <3>2, <3>3, <3>4 DEF Matched
    <2> QED BY <2>1, <2>2
<1> HIDE DEF r, n
<1>4. OpenOrders' = OpenOrders \cup Left(r)
    BY <1>1, <1>3, OpenOrdersAre DEF Matched
<1>5. AddsUp(OpenOrders, r) /\ Learn(OpenOrders, r) = OpenOrders \cup Left(r)
    BY <1>2 DEF AddsUp, Learn
<1> QED BY <1>1, <1>4, <1>5, ReportedOne

LEMMA CancelReports ==
    ASSUME IInv, NEW c \in Clients, NEW oid \in OrderIds, CancelOrder(c, oid)
    PROVE  Reported
<1>1. aggressor = Nobody /\ aggressor' = Nobody
    BY DEF CancelOrder
<1>2. OpenOrders = Resting(orders) /\ OpenOrders' = Resting(orders')
    BY <1>1, OpenOrdersAre DEF Matched
<1>3. CASE CancelFound(c, oid)
    <2> DEFINE R(o) == Respond("CANCELED", c, oid, o.mid, o.side, o.price,
                               Invalid, o.qty)
    <2>1. PICK o \in orders : /\ o.mid = cidOid[c][oid]
                              /\ orders' = orders \ {o} /\ responses' = <<R(o)>>
        BY <1>3 DEF CancelFound, RemoveOrder
    <2>2. /\ R(o).type = "CANCELED" /\ R(o).mid = o.mid /\ R(o).leaves = o.qty
          /\ R(o).client = c /\ R(o).oid = oid
        BY DEF Respond
    <2> HIDE DEF R
    <2>3. \A x \in orders : x.mid = o.mid => x = o
        BY DEF IInv, BookInv, MidsUnique
    <2>4. o.client = c /\ o.oid = oid
        <3>1. o.mid # 0
            BY MidsAreNat DEF IInv, TypeOK, Order
        <3>2. PICK x \in orders : x.mid = cidOid[c][oid] /\ x.client = c /\ x.oid = oid
            BY <2>1, <3>1 DEF IInv, BookInv, MapAgrees
        <3> QED BY <2>1, <2>3, <3>2
    <2> DEFINE h == Known(o, o.qty)
    <2>5. h.mid = o.mid /\ h.client = o.client /\ h.oid = o.oid /\ h.qty = o.qty
        BY DEF Known
    <2>6. OpenOrders = OpenOrders' \cup {h}
        <3>1. orders = orders' \cup {o}
            BY <2>1
        <3> QED BY <1>2, <3>1, RestingWith
    <2>7. \A g \in OpenOrders' : g.mid # o.mid
        <3>1. \A x \in orders' : x.mid # o.mid
            BY <2>1, <2>3
        <3> QED BY <1>2, <3>1, RestingOthers
    <2> HIDE DEF h
    <2>8. AddsUp(OpenOrders, R(o)) /\ Learn(OpenOrders, R(o)) = OpenOrders'
        <3>1. Owned(OpenOrders', h, R(o))
            BY <2>2, <2>4, <2>5, <2>7 DEF Owned
        <3>2. Cancels(R(o), h)
            BY <2>2, <2>5 DEF Cancels
        <3> QED BY <2>6, <3>1, <3>2, LearnCanceled
    <2> QED BY <2>1, <2>8, ReportedOne
<1>4. CASE CancelUnknown(c, oid)
    <2> DEFINE r == Respond("CANCEL_REJECTED", c, oid, Invalid, "INVALID",
                            Invalid, Invalid, Invalid)
    <2>1. responses' = <<r>> /\ r.type = "CANCEL_REJECTED" /\ orders' = orders
        BY <1>4 DEF CancelUnknown, bookVars, Respond
    <2> HIDE DEF r
    <2>2. AddsUp(OpenOrders, r) /\ OpenOrders' = Learn(OpenOrders, r)
        BY <1>2, <2>1 DEF AddsUp, Learn
    <2> QED BY <2>1, <2>2, ReportedOne
<1> QED BY <1>3, <1>4 DEF CancelOrder

\* Nothing happens to an order behind its owner's back, and nobody is told of another's:
\* each response goes to the client that has the order open under the client order id
\* the response names, its quantities are those of that order, and applied by their
\* receivers the responses of a step account for all that the step does to any order.
THEOREM FillsAreReported == PriceWindow => (Spec => FillsReported)
<1> SUFFICES ASSUME PriceWindow PROVE Spec => FillsReported
    OBVIOUS
<1>1. IInv /\ NoneEmpty /\ [Next]_vars => [Reported]_vars
    BY MatchReports, RemainderReports, AddReports, CancelReports DEF Next, Matching
<1> QED BY <1>1, IInvHolds, NoneEmptyHolds, PTL DEF Spec, FillsReported, Reported

-----------------------------------------------------------------------------
(* The engine never stops in the middle of a request.                      *)

\* A set of numbers that is not empty has a least one.
LEMMA LeastNumber ==
    ASSUME NEW T \in SUBSET Nat, T # {}
    PROVE  \E x \in T : \A y \in T : x <= y
<1> DEFINE R == {s \in Nat \X Nat : s[1] < s[2]}
<1>1. IsWellFoundedOn(R, Nat)
    BY NatLessThanWellFounded DEF OpToRel
<1> HIDE DEF R
<1>2. PICK x \in T : \A y \in T : ~(<<y, x>> \in R)
    BY <1>1, WFMin
<1>3. ASSUME NEW y \in T PROVE x <= y
    <2>1. y \in Nat /\ x \in Nat
        OBVIOUS
    <2>2. ~(y < x)
        BY <1>2, <2>1 DEF R
    <2> QED BY <2>1, <2>2
<1> QED BY <1>3

\* A side that has a level has a best one: m_pBidsByPrice or m_pAsksByPrice.
LEMMA BestLevelExists ==
    ASSUME TypeOK, NEW s \in Sides, NEW i0 \in Indices, level[i0].side = s
    PROVE  \E i \in Indices : IsBestLevel(s, i)
<1> DEFINE On(j)   == level[j].side = s
           BestTo(k, i) == /\ i \in 0 .. k /\ On(i)
                           /\ \A j \in 0 .. k : On(j) => ~Better(s, level[j].price, level[i].price)
           T == {k \in Indices : /\ \E i \in 0 .. k : On(i)
                                 /\ ~\E i \in 0 .. k : BestTo(k, i)}
<1>1. /\ PriceLevels \in Nat \ {0} /\ Indices \subseteq Nat
      /\ \A j \in Nat : j \in Indices <=> j < PriceLevels
      /\ \A k \in Indices : \A j \in 0 .. k : j \in Indices
    BY LevelsAssumption DEF Indices
<1>2. \A j \in Indices : On(j) => level[j].price \in Nat
    <2> SUFFICES ASSUME NEW j \in Indices, On(j) PROVE level[j].price \in Nat
        OBVIOUS
    <2>1. level[j] \in [side : Sides, price : Prices] \cup {NoLevel}
        BY DEF TypeOK
    <2>2. level[j] # NoLevel
        BY DEF NoLevel, Sides
    <2> QED BY <2>1, <2>2, PricesAssumption
<1>3. T = {}
    <2> SUFFICES ASSUME T # {} PROVE FALSE
        OBVIOUS
    <2>1. T \in SUBSET Nat
        BY <1>1
    <2> HIDE DEF T
    <2>2. PICK k \in T : \A y \in T : k <= y
        BY <2>1, LeastNumber
    <2> USE DEF T
    <2>3. k \in Indices /\ k \in Nat /\ k \in 0 .. k
        BY <1>1, <2>2
    <2>4. CASE ~\E i \in 0 .. k - 1 : On(i)
        <3>1. On(k) /\ \A j \in 0 .. k : On(j) => j = k
            BY <2>2, <2>3, <2>4
        <3>2. BestTo(k, k)
            BY <1>2, <2>3, <3>1 DEF Better
        <3> QED BY <2>2, <2>3, <3>2
    <2>5. CASE \E i \in 0 .. k - 1 : On(i)
        <3>1. k - 1 \in Indices /\ k - 1 \in Nat
            BY <1>1, <2>3, <2>5
        <3>2. ~(k - 1 \in T)
            BY <2>2, <2>3, <3>1
        <3>3. PICK b \in 0 .. k - 1 : BestTo(k - 1, b)
            BY <2>5, <3>1, <3>2
        <3>4. b \in 0 .. k /\ b \in Indices /\ level[b].price \in Nat
            BY <1>1, <1>2, <2>3, <3>1, <3>3
        <3>5. \A j \in 0 .. k : j = k \/ j \in 0 .. k - 1
            BY <2>3
        <3>6. CASE On(k) /\ Better(s, level[k].price, level[b].price)
            <4>1. ASSUME NEW j \in 0 .. k, On(j)
                  PROVE  ~Better(s, level[j].price, level[k].price)
                <5>1. level[j].price \in Nat /\ level[k].price \in Nat
                    BY <1>1, <1>2, <2>3, <3>6, <4>1
                <5>2. j = k \/ ~Better(s, level[j].price, level[b].price)
                    BY <3>3, <3>5, <4>1
                <5> QED BY <3>4, <3>6, <5>1, <5>2 DEF Better
            <4> QED BY <2>2, <2>3, <3>6, <4>1
        <3>7. CASE ~(On(k) /\ Better(s, level[k].price, level[b].price))
            <4>1. BestTo(k, b)
                BY <3>3, <3>4, <3>5, <3>7
            <4> QED BY <2>2, <3>4, <4>1
        <3> QED BY <3>6, <3>7
    <2> QED BY <2>4, <2>5
<1>4. PriceLevels - 1 \in Indices /\ i0 \in 0 .. PriceLevels - 1
    BY <1>1 DEF Indices
<1>5. PICK i \in 0 .. PriceLevels - 1 : BestTo(PriceLevels - 1, i)
    BY <1>3, <1>4
<1> QED BY <1>5 DEF IsBestLevel, Indices

\* A level with orders has a first and a last one: pFirstMeOrder and its pPrevOrder.
LEMMA EndsExist ==
    ASSUME TypeOK, NEW i, OrdersAt(i) # {}
    PROVE  /\ \E o \in orders : IsFirst(o, i)
           /\ \E o \in orders : IsLast(o, i)
<1>1. \A o \in OrdersAt(i) : o \in orders /\ o.mid \in Nat /\ o.mid <= MaxOrders
    BY MaxOrdersAssumption DEF TypeOK, Order, Mids, OrdersAt
<1>2. \E o \in orders : IsFirst(o, i)
    <2> DEFINE T == {o.mid : o \in OrdersAt(i)}
    <2>1. T \in SUBSET Nat /\ T # {}
        BY <1>1
    <2> HIDE DEF T
    <2>2. PICK x \in T : \A y \in T : x <= y
        BY <2>1, LeastNumber
    <2> QED BY <1>1, <2>2 DEF T, IsFirst
<1>3. \E o \in orders : IsLast(o, i)
    <2> DEFINE T == {MaxOrders - o.mid : o \in OrdersAt(i)}
    <2>1. T \in SUBSET Nat /\ T # {}
        BY <1>1, MaxOrdersAssumption
    <2> HIDE DEF T
    <2>2. PICK x \in T : \A y \in T : x <= y
        BY <2>1, LeastNumber
    <2>3. PICK o \in OrdersAt(i) : x = MaxOrders - o.mid
        BY <2>2 DEF T
    <2>4. \A p \in OrdersAt(i) : MaxOrders - o.mid <= MaxOrders - p.mid
        BY <2>2, <2>3 DEF T
    <2>5. \A p \in OrdersAt(i) : p.mid <= o.mid
        BY <1>1, <2>4, MaxOrdersAssumption
    <2> QED BY <1>1, <2>5 DEF IsLast
<1> QED BY <1>2, <1>3

\* While an order is being matched, either there is an order it trades with next, or
\* the loop is over and its level, if there is one, has a last order to queue behind.
NeverStuck ==
    aggressor # Nobody =>
        \/ \E o \in orders : /\ IsTop(Opposite(aggressor.side), o)
                             /\ Crosses(aggressor.side, aggressor.price, o.price)
        \/ NoMatch(aggressor) /\ GetNextPriority(aggressor.price) # {}

\* The pointers that CheckForMatch and GetNextPriority follow without a test for
\* nullptr lead to an order: the engine can always go on with a request it has begun,
\* whatever the book is.
THEOREM EngineGoesOn == PriceWindow => (Spec => []NeverStuck)
<1> SUFFICES ASSUME PriceWindow PROVE Spec => []NeverStuck
    OBVIOUS
<1>1. ASSUME IInv, aggressor # Nobody PROVE NeverStuck
    <2> DEFINE s == Opposite(aggressor.side)
    <2>1. TypeOK /\ LevelsAgree
        BY <1>1 DEF IInv, BookInv
    <2>2. s \in Sides /\ aggressor.price \in Prices
        BY <1>1, <2>1 DEF TypeOK, Aggressor, Opposite, Sides
    <2>3. ASSUME NEW i \in Indices, level[i] # NoLevel PROVE OrdersAt(i) # {}
        BY <2>1, <2>3 DEF LevelsAgree
    <2>4. GetNextPriority(aggressor.price) # {}
        <3> DEFINE i == PriceToIndex(aggressor.price)
        <3>1. i \in Indices
            BY <2>2, IndexInTable
        <3>2. CASE level[i] = NoLevel
            BY <3>2 DEF GetNextPriority
        <3>3. CASE level[i] # NoLevel
            <4>1. PICK o \in orders : IsLast(o, i)
                BY <2>1, <2>3, <3>1, <3>3, EndsExist
            <4> QED BY <3>3, <4>1 DEF GetNextPriority
        <3> QED BY <3>2, <3>3
    <2>5. CASE \A i \in Indices : level[i].side # s
        BY <2>4, <2>5 DEF NeverStuck, NoMatch
    <2>6. ASSUME NEW i0 \in Indices, level[i0].side = s PROVE NeverStuck
        <3>1. PICK i \in Indices : IsBestLevel(s, i)
            BY <2>1, <2>2, <2>6, BestLevelExists
        <3>2. level[i] # NoLevel
            BY <2>2, <3>1 DEF IsBestLevel, NoLevel, Sides
        <3>3. PICK o \in orders : IsFirst(o, i)
            BY <2>1, <2>3, <3>2, EndsExist
        <3>4. IsTop(s, o)
            BY <3>1, <3>3 DEF IsTop, IsFirst, OrdersAt
        <3> QED BY <2>4, <3>4 DEF NeverStuck, NoMatch
    <2> QED BY <2>5, <2>6
<1>2. IInv => NeverStuck
    BY <1>1 DEF NeverStuck
<1> QED BY <1>2, IInvHolds, PTL

\* Each trade finishes the new order or takes the resting one out of the book.
MatchConsumes ==
    [][\A o \in orders : Match(o) => aggressor' = Nobody \/ orders' = orders \ {o}]_vars

\* The loop of CheckForMatch cannot go round for ever, for any book and any order: it
\* either uses up the new order or has one resting order less to trade with.
THEOREM EachMatchConsumes == PriceWindow => (Spec => MatchConsumes)
<1> SUFFICES ASSUME PriceWindow PROVE Spec => MatchConsumes
    OBVIOUS
<1>1. ASSUME IInv, NEW o \in orders, Match(o)
      PROVE  aggressor' = Nobody \/ orders' = orders \ {o}
    <2>1. /\ aggressor \in Aggressor /\ aggressor.leaves \in Nat
          /\ o \in Order /\ o.qty \in Nat
        BY <1>1 DEF IInv, TypeOK, Match, Aggressor, Order
    <2>2. CASE aggressor.leaves <= o.qty
        <3>1. aggressor' = Remaining([aggressor EXCEPT !.leaves = @ - aggressor.leaves])
            BY <1>1, <2>2 DEF Match, FillQty
        <3>2. [aggressor EXCEPT !.leaves = @ - aggressor.leaves].leaves = 0
            BY <2>1 DEF Aggressor
        <3> QED BY <3>1, <3>2 DEF Remaining
    <2>3. CASE ~(aggressor.leaves <= o.qty)
        <3>1. [o EXCEPT !.qty = @ - o.qty].qty = 0
            BY <2>1 DEF Order
        <3>2. RemoveOrder(o)
            BY <1>1, <2>3, <3>1 DEF Match, FillQty
        <3> QED BY <3>2 DEF RemoveOrder
    <2> QED BY <2>2, <2>3
<1>2. IInv /\ [Next]_vars =>
          [\A o \in orders : Match(o) => aggressor' = Nobody \/ orders' = orders \ {o}]_vars
    BY <1>1
<1> QED BY <1>2, IInvHolds, PTL DEF Spec, MatchConsumes
=============================================================================
