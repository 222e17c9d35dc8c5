SPECIFICATION FairSpec
CONSTANTS
    St = s1
    StKeys = {s1}
    CtKeys = {c1}
    NoSt = NoSt
    Packets = {p1, p2}
    Scenarios <- MCTimerC
PROPERTY FinalAfterRinging
CHECK_DEADLOCK FALSE
