CONSTANTS
    Size = 3
    Concurrency = 2
    MaxCancels = 2
    Clients = {c, d}
    Transacting = {d}
    Identifiers = {i}
    Limit = 1
    Expiration = 1
    MaxWrites = 2
    MaxTransacted = 1
    MaxTime = 3
    Latency = 1
    Contexts = {c, d}
    Locking = {c}
    Readers = {"t", "u"}
    Content <- MCContent
    MaxOperations = 1
    Scopes = {r1, r2, r3, r4}
    MaxMessages = 2
    MaxConnections = 3
    MaxChannels = 2
    MaxCalls = 2
    MaxDeliveries = 2
    MaxLosses = 1
SPECIFICATION ServicesSpec
INVARIANTS
    Bounded
    OutcomeJustified
    StaleExplained
    StalenessBounded
    UndisturbedAccess
    ReportedWhenDone
    NoMessageLost
    OpenIsAccounted
PROPERTIES
    StopsTaking
CHECK_DEADLOCK FALSE
