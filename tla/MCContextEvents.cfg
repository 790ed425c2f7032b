CONSTANTS
    t1 = t1
    t2 = t2
    a = a
    b = b
    c = c
    Types = {t1, t2}
    Subscribers = {a, b}
    Group = {b}
    Cancellable = {a, b}
    LateSubscribe = FALSE
    MaxSent = 2
SPECIFICATION FairSpec
INVARIANTS
    FullStream
    NextEventReachable
PROPERTIES
    CloseReleasesAll
CHECK_DEADLOCK FALSE
