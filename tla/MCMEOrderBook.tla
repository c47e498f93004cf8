---------------------------- MODULE MCMEOrderBook ----------------------------
EXTENDS MEOrderBook, TLC

CONSTANTS c1, c2

\* Three neighbouring prices whose slots in a table of four wrap around.
MCPrices == 3 .. 5

MCQuantities == 0 .. 2

Symmetry == Permutations({c1, c2})
=============================================================================
