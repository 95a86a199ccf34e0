SPECIFICATION Spec
CONSTANT
    Bodies <- MCBodies
INVARIANTS
    TypeOK
    AgreesWithSource
    FitsFlowGraph
PROPERTY
    KeepsMoving
CHECK_DEADLOCK FALSE
