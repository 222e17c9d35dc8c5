SPECIFICATION Spec
CONSTANTS
    St = s1
    StKeys = {s1}
    CtKeys = {c1, c2}
    NoSt = NoSt
    Packets = {p1}
    Scenarios <- MCRaces
INVARIANTS OneErrorAnswer BoundServerTransactionExists NeverForks MapsInverse ReportedExactlyOnce RedirectionFindsRequest
SYMMETRY Symmetry
\* A finished call stops; so do goroutines that wait for each other.
CHECK_DEADLOCK FALSE
