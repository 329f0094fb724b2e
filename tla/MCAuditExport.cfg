SPECIFICATION FairSpec
CONSTANTS
    r1 = r1
    r2 = r2
    Replicas = {r1, r2}
    Scenarios <- MCScenarios
    MaxSeq = 3
    MaxErrors = 2
    BatchSize = 2
CHECK_DEADLOCK FALSE
INVARIANTS
    ChainVerifies
    CursorIsCovered
    AnchorsAreSound
PROPERTIES
    EventsAreExportedAndAnchored
