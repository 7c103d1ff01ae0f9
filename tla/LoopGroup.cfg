SPECIFICATION Spec
SYMMETRY Symmetry
CONSTANTS
    Tasks = {t1, t2}
    ProcessChannels = {c1}
    PlainChannels = {p}
    Groups = {g}
    BoxIds = {1, 2}
    SetIds = {1, 2}
    SubIds = {1, 2, 3}
    None = None
    Capacity = 1
    MaxFlushes = 1
    Env = {"receive", "add", "discard", "sweep", "cancelRead", "flush"}
CHECK_DEADLOCK FALSE
INVARIANT JoinedIsDelivered
INVARIANT RecordedIsWanted
PROPERTY MembersKeepMailbox
