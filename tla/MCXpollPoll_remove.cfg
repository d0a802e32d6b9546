SPECIFICATION Spec
CONSTANTS
    r1 = r1
    NULL = NULL
    Fd <- Fds3
    Regs <- OneReg
    MinCap = 4
    DoubleCap = 8
    ShrinkBy = 4
PROPERTIES RemoveLeavesRest
