----------------------------- MODULE MCOrderEntry -----------------------------
EXTENDS OrderEntry

CONSTANTS c1, c2

\* The first client sends one request in its first process and two in its second,
\* the second client two.
MCQuota == [c \in Clients |-> IF c = c1 THEN <<1, 2>> ELSE <<2>>]

\* Two requests of each client, in one process each.
MCQuotaOnce == [c \in Clients |-> <<2>>]
=============================================================================
