SPECIFICATION Spec
CONSTANTS
    JSONStore = TRUE
    Runners = {r1, r2}
    NoRunner = NoRunner
    ClaimMod = 2
    FailureCap = 2
    MaxMinted = 2
    MaxPending = 2
SYMMETRY RunnerSymmetry
INVARIANTS
    TypeOK
    DurableOrPending
    ClaimHasOwner
    NoLostWakeup
    LastEventTellsTruth
    SerializedEmit
PROPERTIES
    CredentialsOnlyMoveForward
