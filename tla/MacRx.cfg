SPECIFICATION RxSpec
CONSTANTS
    Byte = {0, 1}
    FcsLen = 2
    MaxBurst = 6
    MinGap = 2
INVARIANTS
    DeliversGoodFrames
    OneBurstPerPacket
