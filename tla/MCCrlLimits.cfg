\* Claims that TLC refutes, one at a time: exchange the property for
\*     INVARIANT PairCoversRevocations
\*     INVARIANT RevokedHasNoMarker
\*     INVARIANT RevocationIsRecorded
\*     PROPERTY PublishedNumberGrows
SPECIFICATION Spec
CONSTANTS
    Serials = {s1}
    Operators = {p1, p2}
    Generators = {g1, g2}
    MaxReads = 3
    MaxNumber = 3
CHECK_DEADLOCK FALSE
PROPERTY PermanentIsFinal
