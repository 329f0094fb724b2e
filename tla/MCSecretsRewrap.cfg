SPECIFICATION SecretsSpec
CONSTANTS
    Requests = {p1, p2}
    Values = {a, b}
    MaxKek = 2
    MaxVersion = 3
    MaxIds = 1
    HistoryDepth = 2
SYMMETRY Symmetry
CHECK_DEADLOCK FALSE
INVARIANTS
    ValuesKept
