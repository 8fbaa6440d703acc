SPECIFICATION Spec
CONSTANTS
    g = g
    a = a
    NoName = NoName
    Name <- MCTwoNames
    GlobalName = g
    PrimitiveTypes <- MCTwoNames
    MaxEnvironments = 2
    MaxVisits = 1
    MaxFrames = 2
    MaxReports = 1
INVARIANTS
    GlobalVariablesAreProperties
CHECK_DEADLOCK FALSE
