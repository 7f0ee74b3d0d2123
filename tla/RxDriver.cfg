SPECIFICATION DriverSpec
CONSTANTS
    BufBytes = 4
    Depth = 2
    MaxPktLen = 3
    LenRange = 4
    BufAlmostFullThreshold = 3
    Byte = {b0, b1}
    Metadata = {m}
    WordBytes = 2
    Foreign = foreign
    Garbage = b0
SYMMETRY MCSymmetry
VIEW MCView
INVARIANTS
    CommittedIntact
    LostExactlyOnce
    BufAlmostFullWhenFull
    ReadsPacket
    PopsPacketRead
PROPERTY
    ImplementsStore
