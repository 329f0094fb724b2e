SPECIFICATION Spec
CONSTANTS
    p1 = p1
    p2 = p2
    p3 = p3
    Procs = {p1, p2, p3}
    Names = {"new"}
    MaxCAs = 4
    MaxLeaves = 2
    Scenarios <- MCScenarios
INVARIANTS
    LineageIsSound
    BundleCoversLeaf
    RetirementSparesLeaves
CHECK_DEADLOCK FALSE
