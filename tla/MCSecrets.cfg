SPECIFICATION SecretsSpec
CONSTANTS
    Requests = {p1, p2}
    Values = {a, b}
    MaxKek = 3
    MaxVersion = 3
    MaxIds = 2
    HistoryDepth = 2
SYMMETRY Symmetry
CHECK_DEADLOCK FALSE
INVARIANTS
    OneActiveVersion
    HistoryMirrorsRow
    NoPutLost
    FreshWritesAreSafe
