SPECIFICATION LifecycleFairSpec
CONSTANTS
    Operations = {o1, o2, o3}
    NoOperation = NoOperation
    Revocation = TRUE
CHECK_DEADLOCK FALSE
INVARIANTS
    CancelledLeavesNothing
    LogoutSettles
    OneBrowser
PROPERTIES
    LatestCommits
    SupersededReturns
