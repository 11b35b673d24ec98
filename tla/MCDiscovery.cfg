SPECIFICATION DiscoverySpec
CONSTANTS
    Inits = {i1, i2, i3}
    NoInit = NoInit
    Endpoints = {"e1", "e2"}
    NoEndpoint = ""
SYMMETRY InitSymmetry
CHECK_DEADLOCK FALSE
INVARIANTS
    LoopSeesDiscovery
PROPERTIES
    LatestInitDecides
    MalformedKeepsEndpoint
