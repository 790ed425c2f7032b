CONSTANTS
    Limit = 1
    Calls <- MCCalls
    SelfCancels = TRUE
SPECIFICATION FairSpec
PROPERTIES
    TimeEnforced
CHECK_DEADLOCK FALSE
