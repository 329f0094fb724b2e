SPECIFICATION Spec
CONSTANTS
    d1 = d1
    d2 = d2
    m1 = m1
    Procs = {p1, p2}
    Orders = {o1, o2}
    Ids = {d1, d2, m1}
    AsyncIds = {m1}
    Types = {t}
    NoOrder = NoOrder
    MaxAuthzs = 2
    MaxCerts = 2
    Scenarios <- MCScenarios
SYMMETRY Symmetry
INVARIANTS
    CertifiedNamesWereValidated
    ValidOrderServesItsCertificate
    CanceledIsNotRenewed
PROPERTIES
    ClaimedForGood
CHECK_DEADLOCK FALSE
