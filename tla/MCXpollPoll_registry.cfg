SPECIFICATION FairSpec
CONSTANTS
    r1 = r1
    NULL = NULL
    Fd <- Fds3
    Regs <- OneReg
    MinCap = 2
    DoubleCap = 8
    ShrinkBy = 2
INVARIANTS RegistryExact
PROPERTIES RefinesRegistry NoStarvation
