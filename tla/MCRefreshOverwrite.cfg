SPECIFICATION RefreshSpec
CONSTANTS
    JSONStore = FALSE
    Runners = {}
    NoRunner = NoRunner
    ClaimMod = 2
    FailureCap = 1
    MaxMinted = 2
    MaxPending = 1
    Callers = {c1}
    Loops = {l1}
    NoActor = NoActor
    MaxAttempts = 2
    Stages = 2
    Rotating = TRUE
    Scenarios = {{"forged"}}
PROPERTIES
    IntegrityBlockStays
