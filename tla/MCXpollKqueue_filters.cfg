SPECIFICATION Spec
CONSTANTS
    f1 = f1  f2 = f2  u1 = u1  u2 = u2
    Fd = {f1, f2}
    Udata = {u1, u2}
    NONE = NONE
    NoFd = NoFd
SYMMETRY Symmetry
INVARIANTS UdataCurrent
PROPERTIES RejectedIsQuiet
