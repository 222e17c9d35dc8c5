SPECIFICATION FairSpec
CONSTANTS
    Packets = {p1, p2}
    Writers = {w1, w2}
    Codes = {180, 200, 486, 603}
    T2 = 8
    GiveUp = 64
INVARIANTS TypeOK WriteMessageNeverPanics ChannelsClosedOnce
PROPERTIES FinalResponseStands AckIsAwaited FinalLeadsToDestroy
\* A destroyed transaction with idle callers stops; so do its real deadlocks.
CHECK_DEADLOCK FALSE
