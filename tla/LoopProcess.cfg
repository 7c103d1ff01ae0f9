SPECIFICATION Spec
SYMMETRY Symmetry
CONSTANTS
    Tasks = {t1, t2, t3}
    ProcessChannels = {c1, c2}
    PlainChannels = {}
    Groups = {}
    BoxIds = {1, 2, 3}
    SetIds = {1}
    SubIds = {1, 2}
    None = None
    Capacity = 1
    MaxFlushes = 1
    Env = {"receive", "new", "abort", "flush", "sweep"}
CHECK_DEADLOCK FALSE
INVARIANT OneSubscriptionPerSubject
INVARIANT NoLeakedSubscription
INVARIANT ReadyMailboxIsFed
PROPERTY HandoverIsFed
