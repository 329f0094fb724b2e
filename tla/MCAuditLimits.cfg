\* Refuted: SetSIEMCursor is unconditional, so the slower of two exporters that
\* overlap moves the cursor back.
SPECIFICATION Spec
CONSTANTS
    r1 = r1
    r2 = r2
    Replicas = {r1, r2}
    Scenarios <- MCScenarios
    MaxSeq = 3
    MaxErrors = 2
    BatchSize = 2
CHECK_DEADLOCK FALSE
PROPERTY CursorIsHighWater
