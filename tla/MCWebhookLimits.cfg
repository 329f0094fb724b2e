\* Claims that TLC refutes, one at a time.  With MCOneOfEach also PROPERTY
\* TerminalStays; with Scenarios <- MCSeeding, INVARIANT NoEventSkipped.
SPECIFICATION Spec
CONSTANTS
    f1 = f1
    f2 = f2
    d1 = d1
    d2 = d2
    h1 = h1
    FanOuts = {f1, f2}
    Deliverers = {d1, d2}
    Subs = {h1}
    MaxSeq = 1
    Scenarios <- MCOneOfEach
CHECK_DEADLOCK FALSE
INVARIANT ResumedKeepsEvents
