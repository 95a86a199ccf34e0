SPECIFICATION Spec
CONSTANTS
    x = x
    NumStmts <- MCNumStmts
    Dead <- MCDead
    Var <- MCVar
    Graphs <- MCGraphs
INVARIANTS
    TypeOK
    SettledUnlessQueued
    SetsJustified
    LeastSolution
PROPERTIES
    Terminates
    ImplementsAbstract
CHECK_DEADLOCK FALSE
