SPECIFICATION Spec
CONSTANTS
    Serials = {s1}
    Operators = {p1, p2}
    Generators = {g1, g2}
    MaxReads = 4
    MaxNumber = 2
SYMMETRY Symmetry
CHECK_DEADLOCK FALSE
INVARIANTS
    InventoryIsBacked
    PairMissesOnlyInFlight
