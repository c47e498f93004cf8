--------------------------- MODULE MCClientOrderBook ---------------------------
(* ClientOrderBook for TLC.                                                *)
EXTENDS ClientOrderBook, TLC

\* Ids are only told apart.
OidSymmetry == Permutations(Oids)
=============================================================================
