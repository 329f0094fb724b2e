\* Refuted: after the entry counter wraps, AppendLogEntries finds every number
\* taken, and nothing is acknowledged any more.  With Modulus = 16 and MaxHead = 3:
\* a full ring that could not log a boot or an authentication is refused for good.
SPECIFICATION FairSpec
CONSTANTS
    server = server
    cli = cli
    Scenarios <- MCAlone
    Modulus = 6
    Ring = 2
    MaxHead = 7
    MaxEpoch = 1
CHECK_DEADLOCK FALSE
PROPERTY RingIsAlwaysFreed
