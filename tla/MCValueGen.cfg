SPECIFICATION Spec
CONSTANTS
    X = X
    Y = Y
    C = C
    G = G
    A = A
    B = B
    P = P
    Main = "main"
    Library <- MCLibrary
    Templates <- Programs
INVARIANTS
    TypeOK
    NamesResolve
    TempsBeforeUse
    CallsGetTheirParams
    SameOutcome
CHECK_DEADLOCK FALSE
