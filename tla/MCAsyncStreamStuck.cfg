CONSTANTS
    p = p
    q = q
    r = r
    Producers = {p, q}
    Cancellable = {p}
    MaxSent = 3
SPECIFICATION FairSpec
PROPERTIES
    FinishReleasesAll
CHECK_DEADLOCK FALSE
