---------------------------- MODULE PriceTimeBook ----------------------------
(***************************************************************************)
(* What the linked lists of an order book promise: each side is a sequence *)
(* of price levels, better prices first, and a level is a queue of orders, *)
(* earlier ones first.  An order joins the queue of its price, which gets  *)
(* its place in the sequence if it is new, and may leave from anywhere; a  *)
(* level leaves with its last order.                                       *)
(***************************************************************************)
EXTENDS Integers, SequencesExt

CONSTANTS Orders, Prices

VARIABLE levels   \* per side, its levels in the order they trade

Sides == {"BUY", "SELL"}

Better(s, p, q) == IF s = "BUY" THEN p > q ELSE p < q

\* Order o is in queue q.
In(o, q) == \E i \in DOMAIN q : q[i] = o

Resting(o) == \E s \in Sides : \E i \in DOMAIN levels[s] : In(o, levels[s][i].orders)

Init == levels = [s \in Sides |-> <<>>]

\* The price has no level yet: one is put in between the better and the worse.
JoinNew(o, s, p) ==
    LET side == levels[s]
    IN  \E i \in 1 .. Len(side) + 1 :
            /\ \A j \in DOMAIN side :
                   IF j < i THEN Better(s, side[j].price, p)
                            ELSE Better(s, p, side[j].price)
            /\ levels' = [levels EXCEPT ![s] =
                             InsertAt(@, i, [price |-> p, orders |-> <<o>>])]

JoinLast(o, s, p) ==
    \E i \in DOMAIN levels[s] :
        /\ levels[s][i].price = p
        /\ levels' = [levels EXCEPT ![s][i].orders = Append(@, o)]

Join(o, s, p) == ~Resting(o) /\ (JoinNew(o, s, p) \/ JoinLast(o, s, p))

Leave(o) ==
    \E s \in Sides :
        LET side == levels[s]
        IN  \E i \in DOMAIN side : \E k \in DOMAIN side[i].orders :
                /\ side[i].orders[k] = o
                /\ levels' = IF Len(side[i].orders) = 1
                             THEN [levels EXCEPT ![s] = RemoveAt(@, i)]
                             ELSE [levels EXCEPT ![s][i].orders = RemoveAt(@, k)]

Next == \E o \in Orders :
            \/ \E s \in Sides, p \in Prices : Join(o, s, p)
            \/ Leave(o)

Spec == Init /\ [][Next]_levels
=============================================================================
