SPECIFICATION FairSpec
CONSTANTS
    Packets = {p1, p2}
    Codes = {180, 200, 404}
    T2 = 8
    GiveUp = 64
    UserDestroys = TRUE
INVARIANTS ErrorExcludesResponses TimeoutExcludesFinal FailureIsAcked NoPanic GivesUpInTime
PROPERTY NoResponseCloses
\* A destroyed transaction stops; so do the deadlocks of Mu and resChan.
CHECK_DEADLOCK FALSE
