CONSTANTS
    Bits = 4
    K = 2
    MasterId <- Zero
    Ids <- Differing
    MaxNodes = 4
    MaxLosses = 2
SPECIFICATION Spec
INVARIANTS TypeOK PrefixShared NodesAccounted
CHECK_DEADLOCK FALSE
