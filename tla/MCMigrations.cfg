CONSTANTS
    a = a
    b = b
    Migrators = {a, b}
    Packages <- MCPackages
    MaxEvents = 2
SPECIFICATION FairSpec
INVARIANTS
    AppliedInOrder
    UpToDate
PROPERTIES
    EveryRunEnds
CHECK_DEADLOCK FALSE
