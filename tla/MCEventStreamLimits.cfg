\* Refuted: the hook runs in the replica that appended, so a stream of another
\* replica passes the event and resumes behind it.
SPECIFICATION Spec
CONSTANTS
    r1 = r1
    r2 = r2
    Replicas = {r1, r2}
    Home = r1
    Scenarios = {{r1}, {r1, r2}}
    MaxSeq = 4
    MaxErrors = 1
    Cap = 1
    Batch = 1
CHECK_DEADLOCK FALSE
INVARIANT NoSilentGap
