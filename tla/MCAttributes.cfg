CONSTANTS
    StrMembers <- MCStrMembers
    IntMembers <- MCIntMembers
    Texts <- MCTexts
    Literals <- MCLiterals
    Rejected <- MCRejected
    Validators <- MCValidators
    Environment <- MCEnvironment
    Aliases <- MCAliases
    TypedDicts <- MCTypedDicts
    Classes <- MCClasses
    Program <- MCProgram
    Inputs <- MCInputs
    Updates <- MCUpdates
    MaxCalls = 1
    Steps <- MCSteps
    Assignments <- MCAssignments
    Requirements <- MCRequirements
    Words <- MCWords
SPECIFICATION AttributesSpec
INVARIANTS
    
    RoundTrip
    SchemaAgrees
    AssignmentIsLocal
    FilterKeepsSatisfying
PROPERTIES
    UpdateTouchesOnlyNamed
CHECK_DEADLOCK FALSE
