SPECIFICATION Spec
CONSTANTS
    St = s1
    StKeys = {s1}
    CtKeys = {c1}
    NoSt = NoSt
    Packets = {p1}
    Scenarios <- MCCrossing
INVARIANT CancelCrossingIsHandled
CHECK_DEADLOCK FALSE
