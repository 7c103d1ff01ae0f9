SPECIFICATION Spec
SYMMETRY Symmetry
CONSTANTS
    Tasks = {t1, t2, t3}
    ProcessChannels = {}
    PlainChannels = {p}
    Groups = {}
    BoxIds = {1, 2, 3}
    SetIds = {1}
    SubIds = {1, 2, 3}
    None = None
    Capacity = 1
    MaxFlushes = 1
    Env = {"receive", "abort", "cancelRead", "flush"}
CHECK_DEADLOCK FALSE
INVARIANT ReceiversAreCounted
INVARIANT ReaderIsFedOrWoken
INVARIANT PlainIsReleased
