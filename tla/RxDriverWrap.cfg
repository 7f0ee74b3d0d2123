SPECIFICATION DriverSpec
CONSTANTS
    BufBytes = 4
    Depth = 2
    MaxPktLen = 2
    LenRange = 4
    BufAlmostFullThreshold = 2
    Byte = {b0, b1}
    Metadata = {m}
    WordBytes = 2
    Foreign = foreign
    Garbage = b0
INVARIANTS
    ReadsWrappedPacket
