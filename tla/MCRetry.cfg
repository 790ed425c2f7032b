CONSTANTS
    Limit = 2
    Calls <- MCCalls
    SelfCancels = TRUE
SPECIFICATION FairSpec
INVARIANTS
    CallInv
PROPERTIES
    CancelledNeverRetried
    CallReturns
CHECK_DEADLOCK FALSE
