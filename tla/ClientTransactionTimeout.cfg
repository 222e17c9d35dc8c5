SPECIFICATION FairSpec
CONSTANTS
    Packets = {p1}
    Codes = {180, 200, 404}
    T2 = 8
    GiveUp = 64
    UserDestroys = FALSE
PROPERTY TimeoutIsReported
CHECK_DEADLOCK FALSE
