SPECIFICATION FairSpec
CONSTANTS
    Procs = {p, q}
    Workers = {q}
    Names = {n}
    Bare = bare
    Plain = {c}
    Groups = {g}
    Payloads = {4, 5, 31}
    NameChars = 2
    NameBytes = 3
    KeyBytes = 7
    MaxPayload = 30
    MaxSent = 1
    MaxOld = 1
CHECK_DEADLOCK FALSE
INVARIANT TypeOK
INVARIANT SharedOnce
INVARIANT OwnOnce
INVARIANT SizesAgree
PROPERTY Reaches
