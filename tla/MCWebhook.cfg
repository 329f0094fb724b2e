SPECIFICATION FairSpec
CONSTANTS
    f1 = f1
    f2 = f2
    d1 = d1
    d2 = d2
    h1 = h1
    FanOuts = {f1, f2}
    Deliverers = {d1, d2}
    Subs = {h1}
    MaxSeq = 2
    Scenarios <- MCScenarios
CHECK_DEADLOCK FALSE
INVARIANTS
    NoEventSkipped
    OutcomeIsTrue
PROPERTIES
    OwedIsSettled
