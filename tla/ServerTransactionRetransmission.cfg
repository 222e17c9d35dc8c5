SPECIFICATION Spec
CONSTANTS
    Packets = {p1}
    Writers = {w1}
    Codes = {180, 200, 486}
    T2 = 8
    GiveUp = 64
INVARIANT HandleCanRetransmit
CHECK_DEADLOCK FALSE
