SPECIFICATION FairSpec
CONSTANTS
    Callers = {c1}
    Closers = {c1}
    StateIds = {1, 2}
    ClientIds = {k1, k2, k3}
    Subjects = {x}
    None = None
CHECK_DEADLOCK FALSE
PROPERTY ComesBack
