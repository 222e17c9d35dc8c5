SPECIFICATION RoutingSpec
CONSTANTS
    Digits = {d1, d2}
    KeyLen = 2
    QueryLen = 3
    Keys <- MCKeys
    Queries <- MCQueries
    Fwds = {f1, f2}
    NoFwd = NoFwd
    NoRoute = NoRoute
    Files <- MCFiles
    Bindings <- MCBindings
INVARIANTS SearchIsLongestPrefix RouteFollowsFile
\* The panic of Remove ends the program.
CHECK_DEADLOCK FALSE
