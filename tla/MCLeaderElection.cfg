SPECIFICATION FairElection
CONSTANTS
    Replicas = {r1, r2}
    Jobs = {j1, j2}
    MaxDisturbances = 3
    NoSession = NoSession
INVARIANTS
    OneGeneration
    OverlapNeedsLostSession
PROPERTIES
    LockOutlivesJobs
    Failover
    DeposedLeaderStops
