SPECIFICATION FairSpec
CONSTANTS
    Calls = {a}
    MaxAsked = 3
CHECK_DEADLOCK FALSE
INVARIANT TypeOK
INVARIANT OutcomeTellsWho
INVARIANT CountIsKept
INVARIANT LeftoversAreOwned
PROPERTY TidyingMakesNoState
PROPERTY CallsEnd
