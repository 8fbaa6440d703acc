SPECIFICATION Spec
CONSTANTS
    g = g
    a = a
    NoName = NoName
    Name <- MCOneName
    GlobalName = g
    PrimitiveTypes <- MCNoPrimitives
    MaxEnvironments = 3
    MaxVisits = 2
    MaxFrames = 2
    MaxReports = 0
INVARIANTS
    OneOutcomePerVisit
    ResolvedInScope
    UndefinedIsUnbound
PROPERTY ImplementsScopes
CHECK_DEADLOCK FALSE
