------------------------------- MODULE MCLogger -------------------------------
EXTENDS Logger

CONSTANTS v1, v2

\* Messages of one element and of two.
MCMessages == {<<v1>>, <<v2, v1>>}
=============================================================================
