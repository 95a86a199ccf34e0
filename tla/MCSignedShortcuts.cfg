SPECIFICATION Spec
CONSTANTS
    x = x
    y = y
    x0 = x0
    s0 = s0
    sp = sp
    ra = ra
    Bits = 7
    ImmBits = 5
    StackTop = 48
    Caller = 33
    Reg <- MCReg
    Starts <- MCStarts
    Data <- MCData
    Functions <- SignedShortcuts
INVARIANT
    OneShortcutIsRight
CHECK_DEADLOCK FALSE
