SPECIFICATION Spec
CONSTANTS
    c1 = c1
    c2 = c2
    Clients = {c1, c2}
    OrderIds = {1, 2}
    Prices <- MCPrices
    Quantities <- MCQuantities
    PriceLevels = 4
    MaxOrders = 4
INVARIANTS TypeOK Uncrossed TablesAgree PriorityIsArrival
PROPERTIES PriceTimePriority FillsReported StreamIsBook
SYMMETRY Symmetry
