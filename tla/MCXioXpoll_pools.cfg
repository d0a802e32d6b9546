SPECIFICATION Spec
CONSTANTS
    f1 = f1  f2 = f2  f3 = f3  u1 = u1  u2 = u2
    NULL = NULL
    Fd <- Fds3
    Udata = {u1, u2}
    NTask = 2
    NBuf = 2
    BufSize = 2
    Sizes = {1, 2}
SYMMETRY Symmetry
VIEW IgnoreRet
INVARIANTS TasksAccounted StatesAccounted SlicesDisjoint SlicesCounted
PROPERTIES EachAnsweredOnce
CHECK_DEADLOCK FALSE
