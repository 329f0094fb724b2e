\* Claims that TLC refutes, one at a time: exchange the INVARIANT.
\*     VetoBlocks  ThresholdTakesEffect  CompleteWindow  CompletersAgree
\* and, with Requests = {r1, r2}, OneOpenRequest.
SPECIFICATION Spec
CONSTANTS
    Users = {u1, u2, u3}
    Procs = {p1, p2}
    Requests = {r1}
    Ops = {rotate, issue}
    ParkOps = {issue}
    Thresholds = {1, 2}
    TTL = 1
    MaxTime = 2
    None = None
SYMMETRY Symmetry
INVARIANT VetoBlocks
