SPECIFICATION Spec
SYMMETRY Symmetry
CONSTANTS
    Callers = {c1, c2}
    Closers = {c1, c2}
    StateIds = {1, 2}
    ClientIds = {k1, k2, k3}
    Subjects = {x}
    None = None
CHECK_DEADLOCK FALSE
INVARIANT TypeOK
INVARIANT ListedIsHeld
INVARIANT TablesAreLive
INVARIANT RecoveryFollowsLoss
INVARIANT OrphansAreCounted
PROPERTY GivenUpStaysGivenUp
PROPERTY CloseLetsGo
