SPECIFICATION FairSpec
CONSTANTS
    server = server
    cli = cli
    Scenarios <- MCScenarios
    Modulus = 16
    Ring = 2
    MaxHead = 3
    MaxEpoch = 2
CHECK_DEADLOCK FALSE
INVARIANTS
    AcknowledgedIsKept
    NoFalseAlarm
    FileIsOneChain
PROPERTIES
    EntriesAreCollected
