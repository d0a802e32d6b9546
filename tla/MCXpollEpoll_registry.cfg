SPECIFICATION Spec
CONSTANTS
    f1 = f1  f2 = f2  f3 = f3  r1 = r1  r2 = r2  x1 = x1
    NONE = NONE
    Fd = {f1, f2, f3}
    Reg = {r1, r2, x1}
    Exclusive = {x1}
SYMMETRY Symmetry
PROPERTIES ImplementsRegistry
