SPECIFICATION FairSpec
CONSTANTS
    Ids = {a}
    OpenOnce = TRUE
    MaxCalls = 5
    MaxEager = 3
    MaxSessions = 2
INVARIANTS
    SavedChangesKept
PROPERTIES
    EveryPromiseSettles
    ImplementsRpc
CHECK_DEADLOCK FALSE
