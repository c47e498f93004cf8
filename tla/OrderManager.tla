----------------------------- MODULE OrderManager -----------------------------
(***************************************************************************)
(* A trading client's order management: COrderManager, CRiskManager and    *)
(* the position keeper (trading/strategy), called by CTradeEngine's thread *)
(* with market data events and with the responses to its requests.         *)
(*                                                                         *)
(* Between the trade engine and the exchange's matching engine there are   *)
(* two channels, which deliver in order and exactly once while connections *)
(* last and sends do not block (module OrderEntry).  Of the matching       *)
(* engine only this client's orders are here: when they are filled is up   *)
(* to the others.  One instrument.                                         *)
(***************************************************************************)
EXTENDS PositionKeeper, Sequences, FiniteSets

CONSTANTS Prices,         \* best bids and offers
          Clip,           \* clip_, the quantity of every order
          MaxOrderSize,   \* max_order_size_
          MaxPosition,    \* max_position_
          MaxLoss,        \* -max_loss_, in money
          MaxOrders       \* bound on the order ids given out

ASSUME PricesAssumption == Prices \subseteq Nat \ {0}
ASSUME ClipAssumption   == Clip \in Nat \ {0}
ASSUME LimitsAssumption == /\ MaxOrderSize \in Nat
                           /\ MaxPosition \in Nat
                           /\ MaxLoss \in Nat
ASSUME OrdersAssumption == MaxOrders \in Nat

VARIABLES algo,          \* the strategy that was started
          slot,          \* m_tickerSideOrder of the instrument
          nextOrderId,   \* m_nextOrderId
          requests,      \* on their way to the matching engine
          open,          \* the client's orders in the exchange's book
          responses      \* on their way back

clientVars == <<algo, slot, nextOrderId>>
vars == <<keeperVars, clientVars, requests, open, responses>>

Invalid == -1

Oids == 1 .. MaxOrders
LimitPrices == Int

Pending == {"PENDING_NEW", "PENDING_CANCEL"}
Alive   == Pending \cup {"LIVE"}
Dead    == {"INVALID", "DEAD"}

Request == [type : {"NEW", "CANCEL"}, oid : Oids, side : Sides,
            price : LimitPrices, qty : Nat]

Response == [type : {"ACCEPTED", "FILLED", "CANCELED", "CANCEL_REJECTED"},
             oid : Oids, side : Sides \cup {"INVALID"}, price : LimitPrices,
             exec : Nat, leaves : Nat]

TypeOK ==
    /\ KeeperTypeOK
    /\ algo \in {"MAKER", "TAKER"}
    /\ slot \in [Sides -> [oid : Oids \cup {Invalid}, price : LimitPrices,
                           qty : Nat \cup {Invalid}, state : Alive \cup Dead]]
    /\ nextOrderId \in 1 .. MaxOrders + 1
    /\ requests \in Seq(Request)
    /\ open \subseteq [oid : Oids, side : Sides, price : LimitPrices, qty : Nat]
    /\ responses \in Seq(Response)

Init ==
    /\ KeeperInit
    /\ algo \in {"MAKER", "TAKER"}
    /\ slot = [s \in Sides |-> [oid |-> Invalid, price |-> Invalid,
                                qty |-> Invalid, state |-> "INVALID"]]
    /\ nextOrderId = 1
    /\ requests = <<>>
    /\ open = {}
    /\ responses = <<>>

-----------------------------------------------------------------------------
(* CRiskManager                                                            *)

\* Mutant: the position is checked without the new order.
AllowedAsIs(s, pnl) ==
    /\ Clip <= MaxOrderSize
    /\ Abs(position) <= MaxPosition
    /\ pnl >= -MaxLoss

\* checkPreTradeRisk
Allowed(s, pnl) ==
    /\ Clip <= MaxOrderSize
    /\ Abs(position + SideToValue(s) * Clip) <= MaxPosition
    /\ pnl >= -MaxLoss

-----------------------------------------------------------------------------
(* COrderManager::moveOrders(price["BUY"], price["SELL"], Clip), with pnl  *)
(* as totalPnL: moveOrder on one side and then on the other.               *)

Cancels(s, p) == slot[s].state = "LIVE" /\ slot[s].price # p

\* cancelOrder and newOrder send these.
CancelRequest(s) == [type |-> "CANCEL", oid |-> slot[s].oid, side |-> s,
                     price |-> slot[s].price, qty |-> slot[s].qty]

NewRequest(s, oid, p) == [type |-> "NEW", oid |-> oid, side |-> s,
                          price |-> p, qty |-> Clip]

Creates(s, p, pnl) == slot[s].state \in Dead /\ p # Invalid /\ Allowed(s, pnl)

MoveOrders(price, pnl) ==
    LET cancelled == {s \in Sides : Cancels(s, price[s])}
        created   == {s \in Sides : Creates(s, price[s], pnl)}
        oid(s) == IF s \in cancelled THEN slot[s].oid
                  ELSE IF s = "SELL" /\ "BUY" \in created THEN nextOrderId + 1
                  ELSE nextOrderId
        new(s) == [oid |-> oid(s), price |-> price[s], qty |-> Clip,
                   state |-> "PENDING_NEW"]
        Sent(s) == IF s \in cancelled THEN <<CancelRequest(s)>>
                   ELSE IF s \in created THEN <<NewRequest(s, oid(s), price[s])>>
                   ELSE <<>>
    IN  /\ nextOrderId + Cardinality(created) <= MaxOrders + 1
        /\ slot' = [s \in Sides |->
               IF s \in cancelled THEN [slot[s] EXCEPT !.state = "PENDING_CANCEL"]
               ELSE IF s \in created THEN new(s)
               ELSE slot[s]]
        /\ nextOrderId' = nextOrderId + Cardinality(created)
        /\ requests' = requests \o Sent("BUY") \o Sent("SELL")
        /\ UNCHANGED <<algo, open, responses>>

-----------------------------------------------------------------------------
(* The strategies: the prices they want an order at, by side.              *)

\* The market maker quotes at the best prices or one behind them, which
\* depends on the fair price.
MakerQuotes(bid, ask) == [BUY : {bid, bid - 1}, SELL : {ask, ask + 1}]

\* The liquidity taker goes with an aggressive trade on side s, at the other
\* side's best price, and wants no order on the side it does not take.
TakerQuote(s, bid, ask) ==
    IF s = "BUY" THEN [BUY |-> ask, SELL |-> Invalid]
                 ELSE [BUY |-> Invalid, SELL |-> bid]

-----------------------------------------------------------------------------
(* CTradeEngine::Run                                                       *)

\* onOrderBookUpdate, with a best price on both sides: the position is valued,
\* and the market maker moves its orders.  The liquidity taker does nothing.
OnOrderBookUpdate(bid, ask) ==
    /\ UpdateBBO(bid, ask)
    /\ \/ /\ algo = "MAKER"
          /\ \E price \in MakerQuotes(bid, ask) : MoveOrders(price, totalPnL')
       \/ /\ algo = "TAKER"
          /\ UNCHANGED <<clientVars, requests, open, responses>>

\* onTradeUpdate of a trade that is large enough for the liquidity taker.
OnTradeUpdate(s, bid, ask) ==
    /\ algo = "TAKER"
    /\ MoveOrders(TakerQuote(s, bid, ask), totalPnL)
    /\ UNCHANGED keeperVars

\* Mutant: every fill is taken for the last one.
UpdatedAlwaysDead(o, r) ==
    CASE r.type = "ACCEPTED" -> [o EXCEPT !.state = "LIVE"]
      [] r.type = "CANCELED" -> [o EXCEPT !.state = "DEAD"]
      [] r.type = "FILLED"   -> [o EXCEPT !.qty = r.leaves, !.state = "DEAD"]

\* Mutant: a cancelled order is not given up.
UpdatedUncancelled(o, r) ==
    CASE r.type = "ACCEPTED" -> [o EXCEPT !.state = "LIVE"]
      [] r.type = "CANCELED" -> o
      [] r.type = "FILLED"   ->
             [o EXCEPT !.qty = r.leaves, !.state = IF r.leaves = 0 THEN "DEAD" ELSE @]

\* COrderManager::onOrderUpdate, on the order of the response's side.
Updated(o, r) ==
    CASE r.type = "ACCEPTED" -> [o EXCEPT !.state = "LIVE"]
      [] r.type = "CANCELED" -> [o EXCEPT !.state = "DEAD"]
      [] r.type = "FILLED"   ->
             [o EXCEPT !.qty = r.leaves, !.state = IF r.leaves = 0 THEN "DEAD" ELSE @]

\* onOrderUpdate: the position first, then the order.  A rejected cancel has no
\* side, and changes an entry nobody looks at.
OnOrderUpdate ==
    /\ responses # <<>>
    /\ LET r == Head(responses)
       IN  /\ IF r.type = "FILLED"
              THEN AddFill(r.side, r.price, r.exec)
              ELSE UNCHANGED keeperVars
           /\ slot' = IF r.type = "CANCEL_REJECTED"
                      THEN slot
                      ELSE [slot EXCEPT ![r.side] = Updated(@, r)]
    /\ responses' = Tail(responses)
    /\ UNCHANGED <<algo, nextOrderId, requests, open>>

-----------------------------------------------------------------------------
(* The matching engine, as far as this client is concerned.                *)

AcceptNew ==
    /\ requests # <<>> /\ Head(requests).type = "NEW"
    /\ LET r == Head(requests)
       IN  /\ open' = open \cup {[oid |-> r.oid, side |-> r.side,
                                  price |-> r.price, qty |-> r.qty]}
           /\ responses' = Append(responses,
                  [type |-> "ACCEPTED", oid |-> r.oid, side |-> r.side,
                   price |-> r.price, exec |-> 0, leaves |-> r.qty])
    /\ requests' = Tail(requests)
    /\ UNCHANGED <<keeperVars, clientVars>>

CancelOrder ==
    /\ requests # <<>> /\ Head(requests).type = "CANCEL"
    /\ LET found == {o \in open : o.oid = Head(requests).oid}
       IN  /\ open' = open \ found
           /\ IF found = {}
              THEN responses' = Append(responses,
                      [type |-> "CANCEL_REJECTED", oid |-> Head(requests).oid,
                       side |-> "INVALID", price |-> Invalid, exec |-> 0,
                       leaves |-> 0])
              ELSE \E o \in found : responses' = Append(responses,
                      [type |-> "CANCELED", oid |-> o.oid, side |-> o.side,
                       price |-> o.price, exec |-> 0, leaves |-> o.qty])
    /\ requests' = Tail(requests)
    /\ UNCHANGED <<keeperVars, clientVars>>

\* Mutant: as much as was ordered, whatever is left of it.
FillQtysUncapped(o) == 1 .. Clip

\* What one match can take from an order.
FillQtys(o) == 1 .. o.qty

\* A new order trades at its limit or at better prices that rest in the book, a
\* resting one at its own.
FillPrices(o) == {o.price} \cup {p \in Prices : IF o.side = "BUY" THEN p < o.price
                                                                 ELSE p > o.price}

Fill(o) ==
    \E q \in FillQtys(o), p \in FillPrices(o) :
        /\ open' = (open \ {o}) \cup
                      (IF q = o.qty THEN {} ELSE {[o EXCEPT !.qty = @ - q]})
        /\ responses' = Append(responses,
               [type |-> "FILLED", oid |-> o.oid, side |-> o.side, price |-> p,
                exec |-> q, leaves |-> o.qty - q])
        /\ UNCHANGED <<keeperVars, clientVars, requests>>

-----------------------------------------------------------------------------

Exchange == AcceptNew \/ CancelOrder

Next ==
    \/ \E bid, ask \in Prices :
          /\ bid < ask
          /\ \/ OnOrderBookUpdate(bid, ask)
             \/ \E s \in Sides : OnTradeUpdate(s, bid, ask)
    \/ OnOrderUpdate
    \/ Exchange
    \/ \E o \in open : Fill(o)

Spec == Init /\ [][Next]_vars

\* Both processes' threads spin.  Nobody has to trade with the client.
FairSpec == Spec /\ WF_vars(OnOrderUpdate) /\ WF_vars(Exchange)

-----------------------------------------------------------------------------
(* What makes order management correct.                                    *)

\* The quantity of the slot's order that may still be filled, as the client
\* knows it.
Exposure(s) == IF slot[s].state \in Alive THEN slot[s].qty ELSE 0

\* Even if everything the client has out is filled, its position stays within
\* the limit: although a new order is checked against a position that lacks the
\* fills still under way, and neither side's check looks at the other order.
PositionWithinLimit ==
    /\ position + Exposure("BUY") <= MaxPosition
    /\ position - Exposure("SELL") >= -MaxPosition

\* The orders of side s that the exchange has or is about to have.
OutThere(s) ==
    {o.oid : o \in {p \in open : p.side = s}} \cup
    {requests[i].oid : i \in {j \in DOMAIN requests :
                                 requests[j].type = "NEW" /\ requests[j].side = s}}

\* The client never has two orders on one side, and forgets none: whatever can
\* still trade is the order it manages there, however fills and cancels cross.
OneOrderPerSide ==
    \A s \in Sides :
        OutThere(s) \subseteq (IF slot[s].state \in Alive THEN {slot[s].oid} ELSE {})

\* A response is applied to the order it is about, although only its side is
\* looked at and never its id.
ResponseMeetsItsOrder ==
    \A i \in DOMAIN responses :
        LET r == responses[i]
        IN  r.side \in Sides => /\ slot[r.side].state \in Alive
                                 /\ slot[r.side].oid = r.oid

\* A request is settled in the end, so that the strategy can move its order on.
RequestsSettle == \A s \in Sides :
    /\ slot[s].state = "PENDING_NEW" ~> slot[s].state # "PENDING_NEW"
    /\ slot[s].state = "PENDING_CANCEL" ~> slot[s].state # "PENDING_CANCEL"
=============================================================================
