---------------------------- MODULE PositionKeeper ----------------------------
(***************************************************************************)
(* SPositionInfo (trading/strategy/PositionKeeper.h) of one instrument:    *)
(* the client's position and its profit and loss, from the fills it is     *)
(* told of and the best prices it sees.                                    *)
(*                                                                         *)
(* Money is exact here: every amount is a multiple of 1 / Scale, where     *)
(* Scale has the divisors that average prices need.  The code computes     *)
(* with doubles.  Volume and unrealPnL are only printed and left out;      *)
(* totalPnL is what the risk manager reads.                                *)
(***************************************************************************)
EXTENDS Integers

CONSTANTS Scale,          \* 1 in the unit of money
          Uninitialized   \* what openVWAP may hold in a new object

ASSUME ScaleAssumption == Scale \in Nat \ {0}
ASSUME UninitializedAssumption == Uninitialized \subseteq Int /\ Uninitialized # {}

VARIABLES position,
          realPnL,
          totalPnL,
          openVWAP,   \* what the open position has cost, by side
          cash,       \* what the fills have paid and brought in: not in the code
          mark        \* the price the position was last valued at: not in the code

keeperVars == <<position, realPnL, totalPnL, openVWAP, cash, mark>>

Sides == {"BUY", "SELL"}
Opposite(s) == IF s = "BUY" THEN "SELL" ELSE "BUY"

SideToValue(s) == IF s = "BUY" THEN 1 ELSE -1

Abs(n) == IF n < 0 THEN -n ELSE n
Lesser(m, n) == IF m <= n THEN m ELSE n

KeeperTypeOK ==
    /\ position \in Int
    /\ realPnL \in Int
    /\ totalPnL \in Int
    /\ openVWAP \in [Sides -> Int]
    /\ cash \in Int
    /\ mark \in Int

\* openVWAP has no initializer.
KeeperInit ==
    /\ position = 0
    /\ realPnL = 0
    /\ totalPnL = 0
    /\ openVWAP \in [Sides -> Uninitialized]
    /\ cash = 0
    /\ mark = 0

-----------------------------------------------------------------------------

\* unrealPnL of position pos, which has cost open, at a price in money.
Unrealized(pos, open, price) ==
    IF pos >= 0 THEN pos * price - (IF pos = 0 THEN 0 ELSE open["BUY"])
                ELSE open["SELL"] + pos * price

\* The part of the position's cost that n of its units make up.
CostOf(n, s) == (n * openVWAP[s]) \div Abs(position)

\* Mutant: a flip keeps the whole quantity of the fill as the cost.
OpenAfterFlipWhole(s, p, q) ==
    LET new == position + q * SideToValue(s)
    IN  IF new = 0
        THEN [t \in Sides |-> 0]
        ELSE IF position * SideToValue(s) >= 0
        THEN [openVWAP EXCEPT ![s] = @ + Scale * p * q]
        ELSE IF new * position < 0
        THEN [t \in Sides |-> IF t = s THEN Scale * p * q ELSE 0]
        ELSE [openVWAP EXCEPT ![Opposite(s)] = CostOf(Abs(new), Opposite(s))]

\* openVWAP after q units at price p on side s: flat, opened or increased,
\* flipped, or decreased.
OpenAfter(s, p, q) ==
    LET new == position + q * SideToValue(s)
    IN  IF new = 0
        THEN [t \in Sides |-> 0]
        ELSE IF position * SideToValue(s) >= 0
        THEN [openVWAP EXCEPT ![s] = @ + Scale * p * q]
        ELSE IF new * position < 0
        THEN [t \in Sides |-> IF t = s THEN Scale * p * Abs(new) ELSE 0]
        ELSE [openVWAP EXCEPT ![Opposite(s)] = CostOf(Abs(new), Opposite(s))]

\* What a decrease of the position realizes.
Realized(s, p, q) ==
    LET closed == Lesser(q, Abs(position))
    IN  IF position * SideToValue(s) >= 0
        THEN 0
        ELSE SideToValue(s) * (CostOf(closed, Opposite(s)) - Scale * p * closed)

AddFill(s, p, q) ==
    /\ position' = position + q * SideToValue(s)
    /\ openVWAP' = OpenAfter(s, p, q)
    /\ realPnL' = realPnL + Realized(s, p, q)
    /\ totalPnL' = realPnL' + Unrealized(position', openVWAP', Scale * p)
    /\ cash' = cash - Scale * p * q * SideToValue(s)
    /\ mark' = Scale * p

\* totalPnL after the best prices have changed, at their middle.
TotalPnLAt(bid, ask) ==
    IF position = 0
    THEN totalPnL
    ELSE realPnL + Unrealized(position, openVWAP, (Scale * (bid + ask)) \div 2)

UpdateBBO(bid, ask) ==
    /\ totalPnL' = TotalPnLAt(bid, ask)
    /\ mark' = IF position = 0 THEN mark ELSE (Scale * (bid + ask)) \div 2
    /\ UNCHANGED <<position, realPnL, openVWAP, cash>>

-----------------------------------------------------------------------------

\* The total profit is the money the fills have brought in and what the position
\* is worth at the price it was last valued at, through openings, partial closes,
\* closes and flips in any order: what the loss limit is checked against is real.
AccountsBalance == totalPnL = cash + position * mark
=============================================================================
