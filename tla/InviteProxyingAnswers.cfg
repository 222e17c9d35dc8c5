SPECIFICATION FairSpec
CONSTANTS
    St = s1
    StKeys = {s1}
    CtKeys = {c1}
    NoSt = NoSt
    Packets = {p1, p2}
    Scenarios <- MCAnswers
INVARIANT TimerCChannelsSafe
PROPERTY SilenceIsAnswered
\* A finished call stops; so do goroutines that wait for each other.
CHECK_DEADLOCK FALSE
