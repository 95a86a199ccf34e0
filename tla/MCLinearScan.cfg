SPECIFICATION Spec
CONSTANTS
    s3 = s3
    t0 = t0
    a0 = a0
    none = none
    CalleeSaved <- MCCalleeSaved
    CallerSaved <- MCCallerSaved
    ParamRegs <- MCParamRegs
    None = none
    Var <- MCVar
    Params <- MCParams
    Arrays <- MCArrays
    Width <- MCWidth
    Inputs <- MCInputs
INVARIANTS
    TypeOK
    NoSharedRegister
    RegistersAccountedFor
    FrameDisjoint
    AllPlaced
PROPERTIES
    SlotsAreFinal
    SpillsTheLastToEnd
    Completes
CHECK_DEADLOCK FALSE
