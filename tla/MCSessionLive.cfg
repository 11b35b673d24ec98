SPECIFICATION FairSpec
CONSTANTS
    JSONStore = TRUE
    Runners = {r1, r2}
    NoRunner = NoRunner
    ClaimMod = 2
    FailureCap = 2
    MaxMinted = 1
    MaxPending = 1
PROPERTIES
    PersistenceRecovers
    EventsDelivered
