SPECIFICATION Spec
CONSTANTS
    BufSize = 4
    Room = 4
    MaxBody = 6
    Parts <- MCParts
    Pct <- MCPct
    BadPct <- MCBadPct
INVARIANTS UriSurvives AddressSurvives ListsKeepItems MessageSurvives FoldingIsInvisible BodyIsWhole
\* The input has been sent.
CHECK_DEADLOCK FALSE
