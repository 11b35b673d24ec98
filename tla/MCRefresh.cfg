SPECIFICATION RefreshSpec
CONSTANTS
    JSONStore = FALSE
    Runners = {}
    NoRunner = NoRunner
    ClaimMod = 2
    FailureCap = 1
    MaxMinted = 2
    MaxPending = 1
    Callers = {c1, c2}
    Loops = {}
    NoActor = NoActor
    MaxAttempts = 2
    Stages = 2
    Rotating = TRUE
    Scenarios = {{"login", "logout"},
                 {"lost", "keys", "revoke"},
                 {"late", "revoke", "store"},
                 {"client", "forged", "server", "store"}}
SYMMETRY CallerSymmetry
CHECK_DEADLOCK FALSE
INVARIANTS
    NobodyElsesCancel
    SingleFlight
PROPERTIES
    ImplementsSession
    RefusalIsGenuine
