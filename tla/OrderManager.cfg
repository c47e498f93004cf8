SPECIFICATION FairSpec
CONSTANTS
    Scale = 1296
    Uninitialized = {0}
    Prices = {2, 3}
    Clip = 2
    MaxOrderSize = 2
    MaxPosition = 3
    MaxLoss = 2592
    MaxOrders = 3
INVARIANTS TypeOK PositionWithinLimit OneOrderPerSide ResponseMeetsItsOrder AccountsBalance
PROPERTIES RequestsSettle
CHECK_DEADLOCK FALSE
