SPECIFICATION RefreshSpec
CONSTANTS
    JSONStore = TRUE
    Runners = {}
    NoRunner = NoRunner
    ClaimMod = 2
    FailureCap = 1
    MaxMinted = 3
    MaxPending = 1
    Callers = {c1}
    Loops = {}
    NoActor = NoActor
    MaxAttempts = 2
    Stages = 2
    Rotating = TRUE
    Scenarios = {{"late", "revoke", "server", "store"}}
CHECK_DEADLOCK FALSE
PROPERTIES
    RefusalIsGenuine
