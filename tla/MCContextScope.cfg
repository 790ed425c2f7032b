CONSTANTS
    p = p
    d = d
    e = e
    a = a
    b = b
    Preset = {p}
    Own = {d, e}
    Children = {a, b}
    MaxCancels = 2
    Size = 3
    Concurrency = 2
SPECIFICATION GroupsSpec
INVARIANTS
    ScopeInv
    BodyHasResources
    ResourcesReleased
    OutcomeTruthful
PROPERTIES
    InterruptedScopeEnds
    InterruptedCallReturns
CHECK_DEADLOCK FALSE
