SPECIFICATION FairSpec
CONSTANTS
    Regs = {r1, r2, r3}
    Requests <- MCRequests
    MinimumRegisterExpiresValue = 2
    MaxTime = 1
    None = None
INVARIANTS OneRowPerBinding TransactionSeesTable
PROPERTIES ImplementsRegistrar RegisterIsAnswered
\* Every goroutine ends.
CHECK_DEADLOCK FALSE
