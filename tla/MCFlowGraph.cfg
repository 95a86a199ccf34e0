SPECIFICATION Spec
CONSTANT
    Programs <- MCPrograms
INVARIANTS
    TypeOK
    BlocksAreBasic
    FlowPreserved
    TextKeepsFlow
    FitsLiveness
CHECK_DEADLOCK FALSE
