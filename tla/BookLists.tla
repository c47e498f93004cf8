------------------------------ MODULE BookLists ------------------------------
(***************************************************************************)
(* The pointers of CMEOrderBook (exchange/matcher/MatchingEngineOrderBook. *)
(* h).  The levels of a side form a circular doubly linked list that       *)
(* starts at the best price; the orders of a level form another, which     *)
(* starts at the oldest.  A new level looks for its place by walking the   *)
(* ring, one step per iteration of the loop.                               *)
(*                                                                         *)
(* A level is addressed by its price, having a slot of m_priceOrdersAtPrice*)
(* of its own (MEOrderBook!PriceWindow), an order by a block of the pool.  *)
(***************************************************************************)
EXTENDS Integers, Sequences, FiniteSets

CONSTANTS Orders,   \* the blocks of m_orderPool
          Prices,
          Null      \* nullptr

ASSUME PricesAssumption == Prices \subseteq Nat
ASSUME FiniteAssumption == IsFiniteSet(Orders) /\ IsFiniteSet(Prices)
ASSUME NullAssumption   == Null \notin Orders \cup Prices

VARIABLES best,    \* m_pBidsByPrice and m_pAsksByPrice
          level,   \* the levels in m_priceOrdersAtPrice
          order,   \* the orders in use
          walk     \* AddOrdersAtPrice's position in the ring

vars == <<best, level, order, walk>>

Sides == {"BUY", "SELL"}

NoLevel == [side |-> "NONE"]
NoOrder == [side |-> "NONE"]
NoWalk  == [new |-> Null]

TypeOK ==
    /\ best \in [Sides -> Prices \cup {Null}]
    /\ level \in [Prices -> [side : Sides, first : Orders,
                             prev : Prices \cup {Null},
                             next : Prices \cup {Null}] \cup {NoLevel}]
    /\ order \in [Orders -> [side : Sides, price : Prices,
                             prev : Orders, next : Orders] \cup {NoOrder}]
    /\ walk \in [new : Prices, target : Prices, after : BOOLEAN] \cup {NoWalk}

Init ==
    /\ best = [s \in Sides |-> Null]
    /\ level = [p \in Prices |-> NoLevel]
    /\ order = [o \in Orders |-> NoOrder]
    /\ walk = NoWalk

-----------------------------------------------------------------------------
(* AddOrder, given a block from the pool.                                  *)

\* Mutant: the new order goes to the front of the level.
AppendOrderInFront(o, s, p) ==
    LET f == level[p].first
    IN  /\ walk = NoWalk
        /\ order[o] = NoOrder
        /\ level[p].side = s
        /\ order' =
             LET l0 == [order EXCEPT ![o] = [side |-> s, price |-> p,
                                             prev |-> o, next |-> o]]
                 l1 == [l0 EXCEPT ![l0[f].prev].next = o]
                 l2 == [l1 EXCEPT ![o].prev = l1[f].prev, ![o].next = f]
             IN  [l2 EXCEPT ![f].prev = o]
        /\ level' = [level EXCEPT ![p].first = o]
        /\ UNCHANGED <<best, walk>>

\* The price has a level: the order is linked in behind its last one.
AppendOrder(o, s, p) ==
    LET f == level[p].first
    IN  /\ walk = NoWalk
        /\ order[o] = NoOrder
        /\ level[p].side = s
        /\ order' =
             LET l0 == [order EXCEPT ![o] = [side |-> s, price |-> p,
                                             prev |-> o, next |-> o]]
                 l1 == [l0 EXCEPT ![l0[f].prev].next = o]
                 l2 == [l1 EXCEPT ![o].prev = l1[f].prev, ![o].next = f]
             IN  [l2 EXCEPT ![f].prev = o]
        /\ UNCHANGED <<best, level, walk>>

\* add_after: price p ranks behind price q.
Behind(s, p, q) == IF s = "SELL" THEN p > q ELSE p < q

\* The price has no level: the order is a ring of its own, and so is the level
\* if the side is empty.  Otherwise AddOrdersAtPrice begins at the best level,
\* and looks past it if the new one ranks behind it.
CreateLevel(o, s, p) ==
    LET t == best[s]
        link == IF t = Null THEN p ELSE Null
    IN  /\ walk = NoWalk
        /\ order[o] = NoOrder
        /\ level[p] = NoLevel
        /\ order' = [order EXCEPT ![o] = [side |-> s, price |-> p,
                                          prev |-> o, next |-> o]]
        /\ level' = [level EXCEPT ![p] = [side |-> s, first |-> o,
                                          prev |-> link, next |-> link]]
        /\ best' = IF t = Null THEN [best EXCEPT ![s] = p] ELSE best
        /\ walk' = IF t = Null
                   THEN NoWalk
                   ELSE IF Behind(s, p, t)
                   THEN [new |-> p, target |-> level[t].next,
                         after |-> Behind(s, p, level[t].next)]
                   ELSE [new |-> p, target |-> t, after |-> FALSE]

\* The new level's price ranks behind the target's.
BehindTarget == Behind(level[walk.new].side, walk.new, walk.target)

\* The condition of the while loop.
Walking ==
    /\ walk # NoWalk
    /\ walk.after
    /\ walk.target # best[level[walk.new].side]

\* Mutant: the loop never moves its target.
WalkOnInPlace ==
    /\ Walking
    /\ walk' = [walk EXCEPT !.after = BehindTarget]
    /\ UNCHANGED <<best, level, order>>

\* The body of the while loop.
WalkOn ==
    /\ Walking
    /\ walk' = [walk EXCEPT !.after = BehindTarget,
                            !.target = IF BehindTarget THEN level[@].next ELSE @]
    /\ UNCHANGED <<best, level, order>>

\* Add after target; having come all the way round, that is the last level.
LinkAfter ==
    LET n == walk.new
        b == best[level[n].side]
        t == IF walk.target = b THEN level[b].prev ELSE walk.target
        l1 == [level EXCEPT ![n].prev = t]
        l2 == [l1 EXCEPT ![l1[t].next].prev = n]
        l3 == [l2 EXCEPT ![n].next = l2[t].next]
    IN  /\ walk # NoWalk /\ walk.after /\ ~Walking
        /\ level' = [l3 EXCEPT ![t].next = n]
        /\ walk' = NoWalk
        /\ UNCHANGED <<best, order>>

\* Mutant: target's back pointer is left alone.
LinkBeforeOneWay ==
    LET n == walk.new
        s == level[n].side
        t == walk.target
        l1 == [level EXCEPT ![n].prev = level[t].prev, ![n].next = t]
    IN  /\ walk # NoWalk /\ ~walk.after
        /\ level' = [l1 EXCEPT ![l1[t].prev].next = n]
        /\ best' = IF Behind(s, n, best[s]) THEN best ELSE [best EXCEPT ![s] = n]
        /\ walk' = NoWalk
        /\ UNCHANGED order

\* Add before target, and become the best level if the price is the best.
LinkBefore ==
    LET n == walk.new
        s == level[n].side
        b == best[s]
        t == walk.target
        l1 == [level EXCEPT ![n].prev = level[t].prev, ![n].next = t]
        l2 == [l1 EXCEPT ![l1[t].prev].next = n]
        l3 == [l2 EXCEPT ![t].prev = n]
    IN  /\ walk # NoWalk /\ ~walk.after
        /\ IF n # b /\ ~Behind(s, n, b)
           THEN /\ level' = [l3 EXCEPT ![t].next = IF @ = b THEN n ELSE @]
                /\ best' = [best EXCEPT ![s] = n]
           ELSE /\ level' = l3
                /\ UNCHANGED best
        /\ walk' = NoWalk
        /\ UNCHANGED order

-----------------------------------------------------------------------------
(* RemoveOrder and RemoveOrdersAtPrice                                     *)

\* RemoveOrdersAtPrice
RemoveLevel(s, p) ==
    LET l1 == [level EXCEPT ![level[p].prev].next = level[p].next]
        l2 == [l1 EXCEPT ![l1[p].next].prev = l1[p].prev]
    IN  IF level[p].next = p
        THEN /\ best' = [best EXCEPT ![s] = Null]
             /\ level' = [level EXCEPT ![p] = NoLevel]
        ELSE /\ best' = IF best[s] = p THEN [best EXCEPT ![s] = l2[p].next]
                                       ELSE best
             /\ level' = [l2 EXCEPT ![p] = NoLevel]

RemoveOrder(o) ==
    LET p == order[o].price
        l1 == [order EXCEPT ![order[o].prev].next = order[o].next]
        l2 == [l1 EXCEPT ![l1[o].next].prev = l1[o].prev]
    IN  /\ walk = NoWalk
        /\ order[o] # NoOrder
        /\ IF order[o].prev = o
           THEN /\ RemoveLevel(order[o].side, p)
                /\ order' = [order EXCEPT ![o] = NoOrder]
           ELSE /\ level' = [level EXCEPT ![p].first = IF @ = o THEN l2[o].next
                                                                ELSE @]
                /\ order' = [l2 EXCEPT ![o] = NoOrder]
                /\ UNCHANGED best
        /\ UNCHANGED walk

-----------------------------------------------------------------------------

\* AddOrdersAtPrice, once it has started to walk.
Placing == WalkOn \/ LinkAfter \/ LinkBefore

Next == \/ \E o \in Orders, s \in Sides, p \in Prices :
               AppendOrder(o, s, p) \/ CreateLevel(o, s, p)
        \/ Placing
        \/ \E o \in Orders : RemoveOrder(o)

\* The engine's thread never leaves AddOrdersAtPrice half done.
Spec == Init /\ [][Next]_vars /\ WF_vars(Placing)

-----------------------------------------------------------------------------
(* What the pointers mean.                                                 *)

\* The nodes met on a list from start on, until it comes back there or breaks
\* off; one that does neither is cut after as many as there can be.
Ring(start, next) ==
    LET node[i \in 1 .. Cardinality(DOMAIN next)] ==
            IF i = 1 THEN start ELSE next[node[i - 1]]
        met == {i \in DOMAIN node : /\ start # Null
                                    /\ \A j \in 2 .. i : node[j] \notin {start, Null}}
    IN  [i \in met |-> node[i]]

NextLevel == [p \in Prices \cup {Null} |->
                 IF p = Null \/ level[p] = NoLevel THEN Null ELSE level[p].next]
NextOrder == [o \in Orders \cup {Null} |->
                 IF o = Null \/ order[o] = NoOrder THEN Null ELSE order[o].next]

\* The levels of a side and their orders, as the matching loop meets them.
Met(s) ==
    LET prices == Ring(best[s], NextLevel)
    IN  [i \in DOMAIN prices |->
            [price  |-> prices[i],
             orders |-> IF level[prices[i]] = NoLevel
                        THEN <<>>
                        ELSE Ring(level[prices[i]].first, NextOrder)]]

\* Followed forwards, the lists are the levels of a price-time book: every order
\* is found once, behind all that rank before it, wherever in the ring its level
\* had to be linked in.
Abstract == INSTANCE PriceTimeBook WITH levels <- [s \in Sides |-> Met(s)]

ImplementsBook == Abstract!Spec

\* Followed backwards they are the same lists: a back pointer undoes a forward
\* one, and neither leads to a removed block or to the other side.  Appending
\* (pFirstMeOrder->pPrevOrder), coming round the ring and unlinking rely on it.
BackPointers ==
    /\ \A p \in Prices \ {walk.new} : level[p] # NoLevel =>
           LET n == level[p].next
           IN  n \in Prices /\ level[n].side = level[p].side /\ level[n].prev = p
    /\ \A o \in Orders : order[o] # NoOrder =>
           LET n == order[o].next
           IN  /\ order[n] # NoOrder /\ order[n].price = order[o].price
               /\ order[n].prev = o

\* The search for a level's place comes to an end, although its loop has no
\* bound but the shape of the ring.
WalkEnds == walk # NoWalk ~> walk = NoWalk
=============================================================================
