CONSTANTS
    c1 = c1
    c2 = c2
    Consumers = {c1, c2}
    Limit = 2
    MaxInitial = 3
    MaxSent = 5
SPECIFICATION FairSpec
INVARIANTS
    NoLostWakeup
    BufferIsNewest
    Accounting
PROPERTIES
    FinishReleasesConsumer
CHECK_DEADLOCK FALSE
