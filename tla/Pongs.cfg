SPECIFICATION FairSpec
CONSTANTS
    None = None
    Flushes = {f1, f2, f3}
    MaxWritten = 5
CHECK_DEADLOCK FALSE
INVARIANT TypeOK
INVARIANT FlushMeansServed
INVARIANT DeafOnlyWarned
PROPERTY EveryFlushEnds
