SPECIFICATION LoopFairSpec
CONSTANTS
    WordBytes = 1
    BufWords = 3
    Byte = {0, 1}
    MinLen = 2
    MaxLen = 3
    LenWordsRange = 4
    MaxBeats = 3
INVARIANTS
    TypeOK
    SendsRequested
    QuietWhileBusy
    NeverMixPaths
    NoSplice
    LoopsRequested
PROPERTIES
    AxisStable
    EveryKickEnds
    SwitchCompletes
