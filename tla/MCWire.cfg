CONSTANTS
    Pieces = 10
    Indices = {0, 9}
    Bitfields = {{}, {0}, {0, 9}}
    Offsets = {0, 515}
    Blobs <- Data
    ShortWrites = FALSE
    MaxSent = 2
SPECIFICATION FairSpec
PROPERTIES ImplementsChannel EveryMessageHandled
CHECK_DEADLOCK FALSE
