SPECIFICATION RefreshFairSpec
CONSTANTS
    JSONStore = FALSE
    Runners = {}
    NoRunner = NoRunner
    ClaimMod = 2
    FailureCap = 1
    MaxMinted = 2
    MaxPending = 3
    Callers = {c1}
    Loops = {l1}
    NoActor = NoActor
    MaxAttempts = 2
    Stages = 1
    Rotating = TRUE
    Scenarios = {{"reentrant", "revoke"}}
PROPERTIES
    CallsReturn
INVARIANTS
    ExpiredOnce
