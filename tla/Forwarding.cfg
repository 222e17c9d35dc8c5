SPECIFICATION Spec
CONSTANTS
    p1 = p1
    p2 = p2
    Proxies <- MCProxies
    Uac = uac
    Uas = uas
    NextHop <- MCNextHop
    FirstHop = p1
    Hidden = {uac}
    Nowhere = Nowhere
    Forwards = {2, 4}
    MaxDups = 1
    MaxInvites = 4
    MaxBranch = 6
INVARIANTS ResponsesRetrace HopsBounded DerivedRequestsMatch DialogStaysOnPath ByeClosesCalls ByeNotRefused OnlySpentAcksPanic 
\* A call that is over stops.
CHECK_DEADLOCK FALSE
