SPECIFICATION Spec
CONSTANTS
    s3 = s3
    r0 = r0
    a0 = a0
    a1 = a1
    g = g
    ga = ga
    s1 = s1
    s2 = s2
    x0 = x0
    None = None
    Num = Num
    Zero = Zero
    Result = Result
    Address = Address
    CalleeSaved <- MCCalleeSaved
    CallerSaved <- MCCallerSaved
    ParamRegs <- MCParamRegs
    Var <- MCVar
    ParamSeq <- MCParamSeq
    Arrays <- MCArrays
    Width <- MCWidth
    Globals <- MCGlobals
    GlobalArrays <- MCGlobalArrays
    NumStmts = 4
    Programs <- AssignsToParam
INVARIANT
    UselessDefsHarmless
CHECK_DEADLOCK FALSE
