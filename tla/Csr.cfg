SPECIFICATION Spec
CONSTANTS
    Row = {1, 2, 3, 5, 6}
    Data = {{12}, {0, 4, 12}}
    Levels = {{7}}
    VendorId = {0}
    DeviceId = {1}
    MagicNum = {2}
INVARIANTS
    EventsStick
PROPERTY
    ErrorMeansNoEffect
