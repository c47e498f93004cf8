SPECIFICATION Spec
CONSTANTS
    Orders = {o1, o2, o3, o4}
    Prices = {1, 2, 3, 4}
    Null = Null
INVARIANTS BackPointers
PROPERTIES ImplementsBook WalkEnds
