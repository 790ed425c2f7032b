CONSTANTS
    a = a
    b = b
    c = c
    Callers = {a, b, c}
    Limit = 2
    Period = 2
    TimerSlack = 0
    MaxCalls = 5
    LastCall = 4
    MaxTime = 9
SPECIFICATION FairSpec
INVARIANTS
    WindowRespected
PROPERTIES
    EveryCallProceeds
CHECK_DEADLOCK FALSE
