SPECIFICATION FairLinkSpec
CONSTANTS
    Byte = {0, 1}
    FcsLen = 2
    PreambleLen = 3
    MinPayload = 3
    IfgDelay = 2
    PtrRange = 5
    Zero = 0
    MinLen = 1
    MaxLen = 4
    MaxBurst = 6
    MinGap = 2
INVARIANTS
    FrameCorrect
    TakesOnlyCurrent
    GapKept
    LinkDelivers
PROPERTY PacketTaken
