CONSTANTS
    Pieces = 10
    Indices = {0, 9}
    Bitfields = {{}}
    Offsets = {0}
    Blobs <- Data
    ShortWrites = TRUE
    MaxSent = 2
SPECIFICATION FairSpec
PROPERTY ImplementsChannel
CHECK_DEADLOCK FALSE
