SPECIFICATION HandlersSpec
CONSTANTS
    LoginFlows = {f1}
    LogoutFlows = {g1}
    NoFlow = NoFlow
    MaxTimers = 2
CHECK_DEADLOCK FALSE
INVARIANTS
    WaitersServed
    NotDisplaced
    AcceptedIsReturned
PROPERTIES
    PortCloses
    FlowsReturn
    DesktopKeepsContract
    MobileKeepsContract
