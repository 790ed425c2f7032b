CONSTANTS
    t1 = t1
    t2 = t2
    a = a
    b = b
    c = c
    Types = {t1}
    Subscribers = {a, b}
    Group = {a, b}
    Cancellable = {a}
    LateSubscribe = FALSE
    MaxSent = 2
SPECIFICATION Spec
INVARIANTS
    IndependentSubscribers
CHECK_DEADLOCK FALSE
