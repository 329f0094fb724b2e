\* With MCSequential as here, ActiveIssuerID is refuted to lead to an active CA.
\* TLC also refutes the INVARIANT BundleAlwaysCoversLeaf with Scenarios <-
\* MCLonger, OldChainCannotBreak with MCScenarios, LabelsAreUnique and
\* RetryCanRotate with MCOverlap, and the PROPERTY RetiredIsFinal with MCOverlap.
SPECIFICATION Spec
CONSTANTS
    p1 = p1
    p2 = p2
    p3 = p3
    Procs = {p1, p2, p3}
    Names = {"new"}
    MaxCAs = 4
    MaxLeaves = 2
    Scenarios <- MCSequential
INVARIANTS
    ResolvesToActive
CHECK_DEADLOCK FALSE
