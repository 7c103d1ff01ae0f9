SPECIFICATION FairSpec
CONSTANTS
    Tasks = {t1, t2}
    ProcessChannels = {c1}
    PlainChannels = {}
    Groups = {g}
    BoxIds = {1, 2}
    SetIds = {1, 2}
    SubIds = {1, 2}
    None = None
    Capacity = 1
    MaxFlushes = 1
    Env = {"receive", "add", "abort", "abortAdd", "flush", "sweep", "deliver", "cancelRead", "discard"}
CHECK_DEADLOCK FALSE
INVARIANT TypeOK
PROPERTY CallsSettle
