SPECIFICATION MDSpec
CONSTANTS
    Clients = {c1}
    OrderIds = {1, 2}
    Prices = {3, 4}
    Quantities = {1, 2}
    PriceLevels = 2
    MaxOrders = 3
    MaxBacklog = 2
INVARIANTS NothingUnexpected SnapshotJoinsStream
PROPERTIES EveryUpdateReachesSnapshot MatchingEnds
