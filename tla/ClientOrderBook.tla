--------------------------- MODULE ClientOrderBook ---------------------------
(***************************************************************************)
(* CMarketOrderBook (trading/strategy): a client's copy of one             *)
(* instrument's order book, built from the market updates that its market  *)
(* data consumer delivers, and the best bid and offer kept beside it.      *)
(*                                                                         *)
(* Orders and levels live in blocks of two memory pools, and pointers are  *)
(* block numbers.  A block that is given back keeps its contents; they are *)
(* forgotten here where nothing points to the block any more, which is     *)
(* everywhere but in Clear.                                                *)
(* The circular lists are sequences, as in PriceTimeBook: module BookLists *)
(* checks the assignments to their links, which are those of the matching  *)
(* engine's book.                                                          *)
(***************************************************************************)
EXTENDS MemoryPool, SequencesExt

CONSTANTS Prices,
          PriceLevels,   \* ME_MAX_PRICE_LEVELS
          Qtys,
          Oids,          \* market order ids
          OrderBlocks,   \* size of the pool of orders
          LevelBlocks,   \* size of the pool of levels
          Recovers       \* whether a CLEAR meets orders, as it does after a loss

ASSUME PricesAssumption == Prices \subseteq Nat /\ PriceLevels \in Nat \ {0}
ASSUME QtysAssumption   == Qtys \subseteq Nat \ {0}
ASSUME BlocksAssumption == OrderBlocks \in Nat \ {0} /\ LevelBlocks \in Nat \ {0}
ASSUME RecoversAssumption == Recovers \in BOOLEAN

VARIABLES orderAt,      \* the contents of the blocks of m_orderPool
          orderPool,
          levelAt,      \* the contents of the blocks of m_ordersAtPricePool
          levelPool,
          sideLevels,   \* m_pBidsByPrice and m_pAsksByPrice: levels, best first
          atPrice,      \* m_priceOrdersAtPrice
          oidToOrder,   \* m_oidToOrder
          bbo,          \* m_pBbo, by side
          live          \* the orders the updates speak of, as they arrived

pools == <<orderAt, orderPool, levelAt, levelPool>>
lists == <<sideLevels, atPrice, oidToOrder>>
vars  == <<pools, lists, bbo, live>>

Sides == {"BUY", "SELL"}
Null  == -1
None  == [price |-> Null, qty |-> Null]

Order == [oid : Oids, side : Sides, price : Prices, qty : Qtys]
Level == [side : Sides, price : Prices, queue : Seq(Blocks(OrderBlocks))]

TypeOK ==
    /\ orderAt \in [Blocks(OrderBlocks) -> Order \cup {None}]
    /\ IsPool(orderPool, OrderBlocks)
    /\ levelAt \in [Blocks(LevelBlocks) -> Level \cup {None}]
    /\ IsPool(levelPool, LevelBlocks)
    /\ sideLevels \in [Sides -> Seq(Blocks(LevelBlocks))]
    /\ atPrice \in [0 .. PriceLevels - 1 -> Blocks(LevelBlocks) \cup {Null}]
    /\ oidToOrder \in [Oids -> Blocks(OrderBlocks) \cup {Null}]
    /\ bbo \in [Sides -> [price : Prices, qty : Nat] \cup {None}]
    /\ live \in Seq(Order)

Init ==
    /\ orderAt = [b \in Blocks(OrderBlocks) |-> None]
    /\ orderPool = NewPool(OrderBlocks)
    /\ levelAt = [b \in Blocks(LevelBlocks) |-> None]
    /\ levelPool = NewPool(LevelBlocks)
    /\ sideLevels = [s \in Sides |-> <<>>]
    /\ atPrice = [i \in 0 .. PriceLevels - 1 |-> Null]
    /\ oidToOrder = [oid \in Oids |-> Null]
    /\ bbo = [s \in Sides |-> None]
    /\ live = <<>>

-----------------------------------------------------------------------------
(* The containers.                                                         *)

PriceToIndex(p) == p % PriceLevels

\* p is more aggressive than q on side s.
Better(s, p, q) == IF s = "BUY" THEN p > q ELSE p < q

BestPrice(s) == levelAt[Head(sideLevels[s])].price

\* AddOrdersAtPrice: level l of price p goes behind the better ones of its side.
WithLevel(s, p, l) ==
    LET ls        == sideLevels[s]
        better(k) == Better(s, levelAt[ls[k]].price, p)
        place     == CHOOSE k \in 1 .. Len(ls) + 1 :
                         /\ \A j \in 1 .. k - 1 : better(j)
                         /\ k \in DOMAIN ls => ~better(k)
    IN  InsertAt(ls, place, l)

\* Mutant: a level's newest order comes first.
QueuedInFront(queue, b) == <<b>> \o queue

\* A queue after block b has been linked in before its first, which is behind its
\* last.
Queued(queue, b) == Append(queue, b)

AddOrder(o) ==
    LET b   == orderPool.next
        i   == PriceToIndex(o.price)
        new == levelPool.next
    IN  /\ orderAt' = [orderAt EXCEPT ![b] = o]
        /\ orderPool' = Allocate(orderPool)
        /\ oidToOrder' = [oidToOrder EXCEPT ![o.oid] = b]
        /\ IF atPrice[i] = Null
           THEN /\ levelAt' = [levelAt EXCEPT ![new] =
                       [side |-> o.side, price |-> o.price, queue |-> <<b>>]]
                /\ levelPool' = Allocate(levelPool)
                /\ atPrice' = [atPrice EXCEPT ![i] = new]
                /\ sideLevels' = [sideLevels EXCEPT ![o.side] =
                                     WithLevel(o.side, o.price, new)]
           ELSE /\ levelAt' = [levelAt EXCEPT ![atPrice[i]].queue = Queued(@, b)]
                /\ UNCHANGED <<levelPool, atPrice, sideLevels>>

PlaceOf(x, seq) == CHOOSE k \in DOMAIN seq : seq[k] = x

Without(seq, x) == RemoveAt(seq, PlaceOf(x, seq))

\* Mutant: the level's block is not given back.
RemoveLevelLeaking(s, p, l) ==
    /\ sideLevels' = [sideLevels EXCEPT ![s] = Without(@, l)]
    /\ atPrice' = [atPrice EXCEPT ![PriceToIndex(p)] = Null]
    /\ levelAt' = [levelAt EXCEPT ![l] = None]
    /\ UNCHANGED levelPool

\* RemoveOrdersAtPrice
RemoveLevel(s, p, l) ==
    /\ sideLevels' = [sideLevels EXCEPT ![s] = Without(@, l)]
    /\ atPrice' = [atPrice EXCEPT ![PriceToIndex(p)] = Null]
    /\ levelPool' = Deallocate(levelPool, {l})
    /\ levelAt' = [levelAt EXCEPT ![l] = None]

RemoveOrder(b) ==
    LET o == orderAt[b]
        l == atPrice[PriceToIndex(o.price)]
    IN  /\ IF levelAt[l].queue = <<b>>
           THEN RemoveLevel(o.side, o.price, l)
           ELSE /\ levelAt' = [levelAt EXCEPT ![l].queue = Without(@, b)]
                /\ UNCHANGED <<levelPool, atPrice, sideLevels>>
        /\ oidToOrder' = [oidToOrder EXCEPT ![o.oid] = Null]
        /\ orderPool' = Deallocate(orderPool, {b})
        /\ orderAt' = [orderAt EXCEPT ![b] = None]

-----------------------------------------------------------------------------
(* The best bid and offer.                                                 *)

\* The orders of level l, from the first to the last.
OrdersAt(l) == [i \in DOMAIN levelAt[l].queue |-> orderAt[levelAt[l].queue[i]]]

Total(orders) ==
    LET sum[i \in 0 .. Len(orders)] == IF i = 0 THEN 0 ELSE sum[i - 1] + orders[i].qty
    IN  sum[Len(orders)]

\* What the side's best level amounts to.
Top(s) ==
    IF sideLevels[s] = <<>>
    THEN None
    ELSE [price |-> BestPrice(s), qty |-> Total(OrdersAt(Head(sideLevels[s])))]

\* Mutant: only better prices count, not the best one.
UpdatesBBOStrictly(s, p) == sideLevels[s] # <<>> /\ Better(s, p, BestPrice(s))

\* bid_updated and ask_updated of an update on side s: from the book as it is
\* before the update.
UpdatesBBO(s, p) == sideLevels[s] # <<>> /\ ~Better(s, BestPrice(s), p)

UpdateBBO(side, p) ==
    bbo' = [s \in Sides |-> IF s = side /\ UpdatesBBO(s, p) THEN Top(s)' ELSE bbo[s]]

-----------------------------------------------------------------------------
(* OnMarketUpdate, of what an exchange whose book is never crossed sends.  *)
(* Orders that are gone have their ids reused, which the exchange does not *)
(* do, so that the updates never end.                                      *)

Add ==
    \E o \in Order :
        LET s == o.side
            p == o.price
        IN  /\ oidToOrder[o.oid] = Null
            /\ \A i \in DOMAIN live : live[i].side # s => Better(s, live[i].price, p)
            /\ CanAllocate(orderPool) /\ CanAllocate(levelPool)
            /\ AddOrder(o)
            /\ UpdateBBO(s, p)
            /\ live' = Append(live, o)

Modify ==
    \E i \in DOMAIN live : \E q \in Qtys :
        /\ q < live[i].qty
        /\ orderAt' = [orderAt EXCEPT ![oidToOrder[live[i].oid]].qty = q]
        /\ UNCHANGED <<orderPool, levelAt, levelPool, lists>>
        /\ UpdateBBO(live[i].side, live[i].price)
        /\ live' = [live EXCEPT ![i].qty = q]

Cancel ==
    \E i \in DOMAIN live :
        /\ RemoveOrder(oidToOrder[live[i].oid])
        /\ UpdateBBO(live[i].side, live[i].price)
        /\ live' = RemoveAt(live, i)

\* A trade is passed on.
Trade == UNCHANGED vars

\* The message has no side, and the table of levels is left as it is.
Clear ==
    /\ Recovers \/ live = <<>>
    /\ orderPool' = Deallocate(orderPool, Range(oidToOrder) \ {Null})
    /\ levelPool' = Deallocate(levelPool, UNION {Range(sideLevels[s]) : s \in Sides})
    /\ oidToOrder' = [oid \in Oids |-> Null]
    /\ sideLevels' = [s \in Sides |-> <<>>]
    /\ live' = <<>>
    /\ UNCHANGED <<orderAt, levelAt, atPrice, bbo>>

Next == Add \/ Modify \/ Cancel \/ Trade \/ Clear

Spec == Init /\ [][Next]_vars

-----------------------------------------------------------------------------
(* What makes the client's book correct.                                   *)

\* The orders, as the exchange knows them, in the order of their arrival.
AsArrived(orders) ==
    \A i, j \in DOMAIN orders : i < j => PlaceOf(orders[i], live) < PlaceOf(orders[j], live)

\* The book holds the orders that the updates speak of and no others, at their
\* levels in the order they arrived, the levels best first.
BookIsStream ==
    \A s \in Sides :
        LET ls       == sideLevels[s]
            price(i) == levelAt[ls[i]].price
            side     == {o \in Range(live) : o.side = s}
        IN  /\ {price(i) : i \in DOMAIN ls} = {o.price : o \in side}
            /\ \A i \in DOMAIN ls :
                   /\ Range(OrdersAt(ls[i])) = {o \in side : o.price = price(i)}
                   /\ AsArrived(OrdersAt(ls[i]))
            /\ \A i, j \in DOMAIN ls : i < j => Better(s, price(i), price(j))

\* The best bid and offer that the strategies trade on are the top of the book with
\* all its quantity, or are absent, although they are only brought up to date when an
\* update is found to concern them, and that is decided before it is applied.
BBOIsTopOrAbsent == \A s \in Sides : bbo[s] \in {None, Top(s)}

\* Blocks are in use as long as the book holds what is in them, and no longer, and
\* the next block to be handed out is free, as Allocate asserts.
PoolsAccount ==
    /\ orderPool.free = Blocks(OrderBlocks) \ Range(oidToOrder)
    /\ levelPool.free = Blocks(LevelBlocks) \ UNION {Range(sideLevels[s]) : s \in Sides}
    /\ orderPool.next \in orderPool.free /\ levelPool.next \in levelPool.free
=============================================================================
