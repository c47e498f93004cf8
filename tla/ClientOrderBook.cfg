SPECIFICATION Spec
CONSTANTS
    Prices = {2, 3, 4}
    PriceLevels = 3
    Qtys = {1, 2}
    Oids = {o1, o2, o3}
    OrderBlocks = 4
    LevelBlocks = 4
    Recovers = FALSE
INVARIANTS TypeOK BookIsStream BBOIsTopOrAbsent PoolsAccount
SYMMETRY OidSymmetry
