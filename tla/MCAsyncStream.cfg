CONSTANTS
    p = p
    q = q
    r = r
    Producers = {p, q, r}
    Cancellable = {p}
    MaxSent = 5
SPECIFICATION FairSpec
INVARIANTS
    NoLostWakeup
    OnlyHandedLost
PROPERTIES
    ImplementsHandoff
    CompletedFinishReleasesAll
CHECK_DEADLOCK FALSE
