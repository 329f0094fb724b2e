SPECIFICATION ElectionSpec
CONSTANTS
    Replicas = {s1, s2}
    Jobs = {j1}
    MaxDisturbances = 1
    NoSession = NoSession
PROPERTIES
    ShutdownStopsJobsFirst
