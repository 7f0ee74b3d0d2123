SPECIFICATION FramingSpec
CONSTANTS
    BufBytes = 4
    Depth = 1
    MaxPktLen = 3
    LenRange = 4
    BufAlmostFullThreshold = 3
    AddrLen = 2
    PrefixLen = 1
    Byte = {0, 1}
    FF = 1
    multicast_address <- MCMulticast
    MacAddress <- MCMacAddress
VIEW MCView
INVARIANTS
    ReasonDecided
    NoEarlyReject
    OnlyWantedPackets
    NothingWantedDisappears
