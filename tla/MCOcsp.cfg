SPECIFICATION OcspSpec
CONSTANTS
    Serials = {s1}
    Operators = {p1}
    Replicas = {r1}
    Requests = {q1}
    MaxReads = 3
    Elsewhere = TRUE
CHECK_DEADLOCK FALSE
INVARIANTS
    WrongOnlyIfMissed
PROPERTIES
    CacheSettles
