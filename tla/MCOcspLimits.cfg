\* Claims that TLC refutes, one at a time: exchange the INVARIANT for
\* UnknownIsNotIssued.
SPECIFICATION OcspSpec
CONSTANTS
    Serials = {s1}
    Operators = {p1}
    Replicas = {r1}
    Requests = {q1}
    MaxReads = 2
    Elsewhere = FALSE
CHECK_DEADLOCK FALSE
INVARIANT RevokedAtOnce
