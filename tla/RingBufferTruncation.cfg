SPECIFICATION Spec
CONSTANTS
    BufBytes = 4
    Depth = 2
    MaxPktLen = 3
    LenRange = 4
    BufAlmostFullThreshold = 3
    Byte = {0, 1}
    Metadata = {m}
INVARIANTS
    NoIncompletePacket
