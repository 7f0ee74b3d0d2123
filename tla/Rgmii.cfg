SPECIFICATION RgmiiSpec
CONSTANTS
    Bits1 = 6
    Toggle <- MCToggle
    Rise <- MCRise
    Wrap <- MCWrap
INVARIANTS
    SpeedIsRight
    OneEdgePerSymbol
    EnabledInTime
PROPERTY SpeedSettles
