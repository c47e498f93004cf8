----------------------------- MODULE MEOrderBook -----------------------------
(***************************************************************************)
(* CMEOrderBook (exchange/matcher/MatchingEngineOrderBook.{h,cpp}): the    *)
(* limit order book of one instrument.  The matching engine's thread runs  *)
(* one request at a time, but a new order may trade with any number of     *)
(* resting ones, so AddOrder is a sequence of steps: AddOrder, then one    *)
(* Match per passive order, then AddRemainder for what is left.            *)
(*                                                                         *)
(* The doubly linked lists are abstracted: the orders of a price level are *)
(* kept in the order of their market order ids, in which they were         *)
(* appended, and the levels of a side by their prices.  Module BookLists   *)
(* shows that the pointers implement this.  Levels are found as in the     *)
(* code, through the slot PriceToIndex gives them.                         *)
(*                                                                         *)
(* What a step writes to the two outgoing queues is left in responses and  *)
(* updates, in the order it is written.                                    *)
(***************************************************************************)
EXTENDS Integers, Sequences

CONSTANTS Clients,      \* client ids
          OrderIds,     \* client order ids
          Prices,       \* limit prices
          Quantities,   \* order quantities; the program may send 0
          PriceLevels,  \* ME_MAX_PRICE_LEVELS
          MaxOrders     \* bound on the market order ids given out

ASSUME PricesAssumption     == Prices \subseteq Nat
ASSUME QuantitiesAssumption == Quantities \subseteq Nat
ASSUME LevelsAssumption     == PriceLevels \in Nat \ {0}
ASSUME MaxOrdersAssumption  == MaxOrders \in Nat

VARIABLES orders,     \* the SMEOrder blocks in use in m_orderPool
          cidOid,     \* m_cidOidToOrder, by market order id; 0 for nullptr
          level,      \* m_priceOrdersAtPrice
          nextMid,    \* m_nextMarketOrderId
          aggressor,  \* the new order being matched
          responses,  \* client responses written by the last step
          updates     \* market updates written by the last step

bookVars == <<orders, cidOid, level>>
outVars  == <<responses, updates>>
vars     == <<bookVars, nextMid, aggressor, outVars>>

Sides == {"BUY", "SELL"}
Opposite(s) == IF s = "BUY" THEN "SELL" ELSE "BUY"

\* Price p ranks before price q among the resting orders of side s.
Better(s, p, q) == IF s = "BUY" THEN p > q ELSE p < q

\* Mutant: equal prices do not trade.
CrossesStrictly(s, p, q) == IF s = "BUY" THEN p > q ELSE p < q

\* A new order of side s and limit p may trade at the resting price q.
Crosses(s, p, q) == IF s = "BUY" THEN p >= q ELSE p <= q

PriceToIndex(p) == p % PriceLevels
Indices == 0 .. PriceLevels - 1

\* nullptr for a level, and no order being matched
NoLevel == [side |-> "NONE", price |-> -1]
Nobody  == [mid |-> 0]

\* OrderId_INVALID, Price_INVALID, Qty_INVALID and Priority_INVALID
Invalid == -1

Mids == 1 .. MaxOrders

Order == [mid : Mids, client : Clients, oid : OrderIds, side : Sides,
          price : Prices, qty : Nat, priority : Nat]

Aggressor == [mid : Mids, client : Clients, oid : OrderIds, side : Sides,
              price : Prices, leaves : Nat]

Response ==
    [type : {"ACCEPTED", "FILLED", "CANCELED", "CANCEL_REJECTED"},
     client : Clients, oid : OrderIds, mid : Mids \cup {Invalid},
     side : Sides \cup {"INVALID"}, price : Prices \cup {Invalid},
     exec : Nat \cup {Invalid}, leaves : Nat \cup {Invalid}]

Update ==
    [type : {"ADD", "MODIFY", "CANCEL", "TRADE"}, mid : Mids \cup {Invalid},
     side : Sides, price : Prices, qty : Nat, priority : Nat \cup {Invalid}]

TypeOK ==
    /\ orders \subseteq Order
    /\ cidOid \in [Clients -> [OrderIds -> 0 .. MaxOrders]]
    /\ level \in [Indices -> [side : Sides, price : Prices] \cup {NoLevel}]
    /\ nextMid \in 1 .. MaxOrders + 1
    /\ aggressor \in Aggressor \cup {Nobody}
    /\ responses \in Seq(Response)
    /\ updates \in Seq(Update)

Init ==
    /\ orders = {}
    /\ cidOid = [c \in Clients |-> [oid \in OrderIds |-> 0]]
    /\ level = [i \in Indices |-> NoLevel]
    /\ nextMid = 1
    /\ aggressor = Nobody
    /\ responses = <<>>
    /\ updates = <<>>

-----------------------------------------------------------------------------
(* The book's containers.                                                  *)

\* The orders linked into the level of slot i.
OrdersAt(i) == {o \in orders : PriceToIndex(o.price) = i}

\* Slot i holds the level m_pBidsByPrice or m_pAsksByPrice points to.
IsBestLevel(s, i) ==
    /\ level[i].side = s
    /\ \A j \in Indices : level[j].side = s =>
           ~Better(s, level[j].price, level[i].price)

\* pFirstMeOrder of the level in slot i, and its pPrevOrder, the last one.
IsLast(o, i)  == o \in OrdersAt(i) /\ \A p \in OrdersAt(i) : p.mid <= o.mid
IsFirst(o, i) == o \in OrdersAt(i) /\ \A p \in OrdersAt(i) : o.mid <= p.mid

\* The order a new order of the other side is matched with next.
IsTop(s, o) == LET i == PriceToIndex(o.price) IN IsBestLevel(s, i) /\ IsFirst(o, i)

\* Mutant: numbered from the first order of the level instead of the last.
PriorityAfterFirst(p) ==
    IF level[PriceToIndex(p)] = NoLevel
    THEN {1}
    ELSE {o.priority + 1 : o \in {l \in orders : IsFirst(l, PriceToIndex(p))}}

\* GetNextPriority: one more than the last order of the level, if there is one.
GetNextPriority(p) ==
    IF level[PriceToIndex(p)] = NoLevel
    THEN {1}
    ELSE {o.priority + 1 : o \in {l \in orders : IsLast(l, PriceToIndex(p))}}

\* AddOrder(SMEOrder *): append to the level, which is created if need be.
Insert(o) ==
    LET i == PriceToIndex(o.price)
    IN  /\ orders' = orders \cup {o}
        /\ cidOid' = [cidOid EXCEPT ![o.client][o.oid] = o.mid]
        /\ level' = IF level[i] = NoLevel
                    THEN [level EXCEPT ![i] = [side |-> o.side, price |-> o.price]]
                    ELSE level

\* Mutant: the hash map keeps pointing at the deallocated order.
RemoveKeepsMap(o) ==
    LET i == PriceToIndex(o.price)
    IN  /\ orders' = orders \ {o}
        /\ level' = IF OrdersAt(i) = {o}
                    THEN [level EXCEPT ![i] = NoLevel]
                    ELSE level
        /\ UNCHANGED cidOid

\* RemoveOrder, and RemoveOrdersAtPrice when it was the level's only order.
RemoveOrder(o) ==
    LET i == PriceToIndex(o.price)
    IN  /\ orders' = orders \ {o}
        /\ cidOid' = [cidOid EXCEPT ![o.client][o.oid] = 0]
        /\ level' = IF OrdersAt(i) = {o}
                    THEN [level EXCEPT ![i] = NoLevel]
                    ELSE level

-----------------------------------------------------------------------------
(* What is sent.                                                           *)

\* Mutant: both responses of a match go to the client of the new order.
RespondToAggressor(type, c, oid, mid, s, p, exec, leaves) ==
    [type |-> type, client |-> IF aggressor = Nobody THEN c ELSE aggressor.client,
     oid |-> IF aggressor = Nobody THEN oid ELSE aggressor.oid, mid |-> mid,
     side |-> s, price |-> p, exec |-> exec, leaves |-> leaves]

Respond(type, c, oid, mid, s, p, exec, leaves) ==
    [type |-> type, client |-> c, oid |-> oid, mid |-> mid, side |-> s,
     price |-> p, exec |-> exec, leaves |-> leaves]

\* Mutant: the initializer leaves the priority out.
PublishUnranked(type, mid, s, p, q, priority) ==
    [type |-> type, mid |-> mid, side |-> s, price |-> p, qty |-> q,
     priority |-> Invalid]

Publish(type, mid, s, p, q, priority) ==
    [type |-> type, mid |-> mid, side |-> s, price |-> p, qty |-> q,
     priority |-> priority]

-----------------------------------------------------------------------------
(* AddOrder(client_id, ...)                                                *)

\* What is left to match of a new order, if anything is.
Remaining(a) == IF a.leaves = 0 THEN Nobody ELSE a

\* GenerateNewMarketOrderId and the ACCEPTED response; CheckForMatch begins.
\* Clients do not reuse the id of an order of theirs that is still in the book:
\* the code does not check it.
AddOrder(c, oid, s, p, q) ==
    /\ aggressor = Nobody
    /\ nextMid <= MaxOrders
    /\ cidOid[c][oid] = 0
    /\ nextMid' = nextMid + 1
    /\ aggressor' = Remaining([mid |-> nextMid, client |-> c, oid |-> oid,
                               side |-> s, price |-> p, leaves |-> q])
    /\ responses' = <<Respond("ACCEPTED", c, oid, nextMid, s, p, 0, q)>>
    /\ updates' = <<>>
    /\ UNCHANGED bookVars

\* Mutant: the passive order's quantity is not looked at.
FillWhole(leaves, qty) == leaves

\* std::min(*leaves_qty, order_qty)
FillQty(leaves, qty) == IF leaves <= qty THEN leaves ELSE qty

\* CheckForMatch's loop body: the best passive order, if the prices cross.
Match(o) ==
    LET a    == aggressor
        fill == FillQty(a.leaves, o.qty)
        rest == [o EXCEPT !.qty = @ - fill]
    IN  /\ a # Nobody
        /\ IsTop(Opposite(a.side), o)
        /\ Crosses(a.side, a.price, o.price)
        /\ aggressor' = Remaining([a EXCEPT !.leaves = @ - fill])
        /\ responses' =
               <<Respond("FILLED", a.client, a.oid, a.mid, a.side, o.price,
                         fill, a.leaves - fill),
                 Respond("FILLED", o.client, o.oid, o.mid, o.side, o.price,
                         fill, rest.qty)>>
        /\ updates' =
               <<Publish("TRADE", Invalid, a.side, o.price, fill, Invalid),
                 IF rest.qty = 0
                 THEN Publish("CANCEL", o.mid, o.side, o.price, o.qty, Invalid)
                 ELSE Publish("MODIFY", o.mid, o.side, o.price, rest.qty,
                              o.priority)>>
        /\ IF rest.qty = 0
           THEN RemoveOrder(o)
           ELSE /\ orders' = (orders \ {o}) \cup {rest}
                /\ UNCHANGED <<cidOid, level>>
        /\ UNCHANGED nextMid

\* Mutant: the loop does not ask whether the other side has run out.
NoMatchUnchecked(a) ==
    \E o \in orders : IsTop(Opposite(a.side), o) /\ ~Crosses(a.side, a.price, o.price)

\* CheckForMatch's loop is over: nothing rests on the other side, or its best
\* order is out of reach.
NoMatch(a) ==
    LET s == Opposite(a.side)
    IN  \/ \A i \in Indices : level[i].side # s
        \/ \E o \in orders : IsTop(s, o) /\ ~Crosses(a.side, a.price, o.price)

\* The rest of the new order goes into the book and is published.
AddRemainder ==
    LET a == aggressor
    IN  /\ a # Nobody
        /\ NoMatch(a)
        /\ \E priority \in GetNextPriority(a.price) :
               /\ Insert([mid |-> a.mid, client |-> a.client, oid |-> a.oid,
                          side |-> a.side, price |-> a.price, qty |-> a.leaves,
                          priority |-> priority])
               /\ updates' = <<Publish("ADD", a.mid, a.side, a.price, a.leaves,
                                       priority)>>
        /\ aggressor' = Nobody
        /\ responses' = <<>>
        /\ UNCHANGED nextMid

-----------------------------------------------------------------------------
(* CancelOrder(client_id, order_id, ticker_id)                             *)

CancelFound(c, oid) ==
    \E o \in orders :
        /\ o.mid = cidOid[c][oid]
        /\ RemoveOrder(o)
        /\ responses' = <<Respond("CANCELED", c, oid, o.mid, o.side, o.price,
                                  Invalid, o.qty)>>
        /\ updates' = <<Publish("CANCEL", o.mid, o.side, o.price, 0, o.priority)>>

CancelUnknown(c, oid) ==
    /\ cidOid[c][oid] = 0
    /\ responses' = <<Respond("CANCEL_REJECTED", c, oid, Invalid, "INVALID",
                              Invalid, Invalid, Invalid)>>
    /\ updates' = <<>>
    /\ UNCHANGED bookVars

CancelOrder(c, oid) ==
    /\ aggressor = Nobody
    /\ CancelFound(c, oid) \/ CancelUnknown(c, oid)
    /\ UNCHANGED <<nextMid, aggressor>>

-----------------------------------------------------------------------------

\* CheckForMatch and the rest of AddOrder, for the order being matched.
Matching == (\E o \in orders : Match(o)) \/ AddRemainder

Next ==
    \/ \E c \in Clients, oid \in OrderIds, s \in Sides, p \in Prices,
          q \in Quantities : AddOrder(c, oid, s, p, q)
    \/ Matching
    \/ \E c \in Clients, oid \in OrderIds : CancelOrder(c, oid)

Spec == Init /\ [][Next]_vars

\* The engine's thread never leaves a request half processed.
FairSpec == Spec /\ WF_vars(Matching)

-----------------------------------------------------------------------------
(* What makes the book correct.                                            *)

\* The prices in use fit the table of levels: no two share a slot.  The code
\* relies on it and does not check it.
PriceWindow ==
    \A p, q \in Prices : PriceToIndex(p) = PriceToIndex(q) => p = q

\* However the requests are interleaved with trades and cancels, the book is
\* never crossed: every bid is below every ask, also while matching.
Uncrossed ==
    \A b, a \in orders : b.side = "BUY" /\ a.side = "SELL" => b.price < a.price

\* The table of levels and the orders agree: an order is linked into a level
\* of its own side and price, and an empty level is removed.
LevelsAgree ==
    /\ \A o \in orders :
           level[PriceToIndex(o.price)] = [side |-> o.side, price |-> o.price]
    /\ \A i \in Indices : level[i] # NoLevel => OrdersAt(i) # {}

\* The hash map and the orders agree: a client reaches each of its resting
\* orders, and nothing else, under the id it gave it.
MapAgrees ==
    /\ \A o \in orders : cidOid[o.client][o.oid] = o.mid
    /\ \A c \in Clients, oid \in OrderIds :
           cidOid[c][oid] # 0 =>
               \E o \in orders : /\ o.mid = cidOid[c][oid]
                                 /\ o.client = c /\ o.oid = oid

\* The two tables and the lists never disagree: no order is unreachable and no
\* pointer dangles, after any sequence of adds, matches and cancels.
TablesAgree == LevelsAgree /\ MapAgrees

\* The published priorities order a level the way its queue does, although they
\* are numbered from whatever order happens to be last.
PriorityIsArrival ==
    \A o, p \in orders :
        o.side = p.side /\ o.price = p.price /\ o.mid < p.mid =>
            o.priority < p.priority

\* A trade always takes the passive order with the best price and, among those,
\* the one with the lowest priority number.
PriceTimePriority ==
    [][\A o \in orders : Match(o) =>
          \A p \in orders : p.side = o.side =>
              /\ ~Better(o.side, p.price, o.price)
              /\ p.price = o.price => o.priority <= p.priority]_vars

\* What the owner of order o knows of it when q is left.
Known(o, q) == [mid |-> o.mid, client |-> o.client, oid |-> o.oid,
                side |-> o.side, qty |-> q]

\* Every client's open orders, resting or being matched.
OpenOrders ==
    {Known(o, o.qty) : o \in orders}
        \cup (IF aggressor = Nobody THEN {} ELSE {Known(aggressor, aggressor.leaves)})

\* The order that response r is about, if the client it goes to has it open under
\* the id the response names.
Addressed(open, r) ==
    {h \in open : h.client = r.client /\ h.oid = r.oid /\ h.mid = r.mid}

\* What response r leaves its receiver with.
Left(r) ==
    IF r.leaves = 0 THEN {}
    ELSE {[mid |-> r.mid, client |-> r.client, oid |-> r.oid, side |-> r.side,
           qty |-> r.leaves]}

\* The open orders once the receiver of response r has heard of it.
Learn(open, r) ==
    CASE r.type = "ACCEPTED"        -> open \cup Left(r)
      [] r.type = "FILLED"          -> (open \ Addressed(open, r)) \cup Left(r)
      [] r.type = "CANCELED"        -> open \ Addressed(open, r)
      [] r.type = "CANCEL_REJECTED" -> open

\* Response r goes to a client that has the order, and its quantities add up to
\* what that client has open: something was executed, or nothing was.
AddsUp(open, r) ==
    /\ r.type = "FILLED" => \E h \in Addressed(open, r) :
                                r.exec # 0 /\ r.exec + r.leaves = h.qty
    /\ r.type = "CANCELED" => \E h \in Addressed(open, r) : r.leaves = h.qty

\* An order's owner, and nobody else, is told of every change of its open
\* quantity, once: each response of a step goes to the client and the client order
\* id it concerns and fits what that client has open there, and by what their
\* owners were told the open orders before the step become those after it.
FillsReported ==
    [][CASE Len(responses') = 0 -> OpenOrders' = OpenOrders
         [] Len(responses') = 1 ->
                /\ AddsUp(OpenOrders, responses'[1])
                /\ OpenOrders' = Learn(OpenOrders, responses'[1])
         [] Len(responses') = 2 ->
                LET between == Learn(OpenOrders, responses'[1])
                IN  /\ AddsUp(OpenOrders, responses'[1])
                    /\ AddsUp(between, responses'[2])
                    /\ OpenOrders' = Learn(between, responses'[2])]_vars

\* What a reader of the market data knows of an order.
Published(o) == [mid |-> o.mid, side |-> o.side, price |-> o.price,
                 qty |-> o.qty, priority |-> o.priority]

PublishedBook == {Published(o) : o \in orders}

\* The effect of one update on a book rebuilt from the market data, as
\* AddToSnapshot and the trading client have it: a trade changes nothing.
Replay(book, u) ==
    LET known == {e \in book : e.mid = u.mid}
        entry == [mid |-> u.mid, side |-> u.side, price |-> u.price,
                  qty |-> u.qty, priority |-> u.priority]
    IN  CASE u.type = "ADD"    -> book \cup {entry}
          [] u.type = "MODIFY" -> (book \ known) \cup {entry}
          [] u.type = "CANCEL" -> book \ known
          [] u.type = "TRADE"  -> book

\* The updates written by each step turn the book as it was published into the
\* book as it is: the market data stream is the book.
StreamIsBook ==
    [][PublishedBook' =
          CASE Len(updates') = 0 -> PublishedBook
            [] Len(updates') = 1 -> Replay(PublishedBook, updates'[1])
            [] Len(updates') = 2 -> Replay(Replay(PublishedBook, updates'[1]),
                                           updates'[2])]_vars

\* Matching a new order comes to an end, however deep the other side is.
MatchingEnds == aggressor # Nobody ~> aggressor = Nobody
=============================================================================
