SPECIFICATION FairSpec
CONSTANTS
    None = None
    Expiry = 1
    Capacities = {1, 2}
    Kinds = {"message", "unreadable"}
    MaxReaders = 2
    MaxArrivals = 5
    MaxClock = 4
CHECK_DEADLOCK FALSE
INVARIANT TypeOK
INVARIANT MarkIsNeverNewer
PROPERTY IsAnInbox
PROPERTY RetiredIsLeft
