SPECIFICATION FileSpec
CONSTANTS
    Processes = {p1, p2}
    Values = {v1, v2}
    NoValue = NoValue
    MachineIDs = {id}
    FileKey = FileKey
    NoKey = NoKey
    MaxKeys = 2
SYMMETRY FileSymmetry
INVARIANTS
    OneKey
PROPERTIES
    ImplementsContract
