SPECIFICATION MCSpec
CONSTANTS
    Byte = 4
    Rate = 2
    Bits = 2
    Symbols = 2
    Images = 2
    Room = 7
    busy = busy
    plain = plain
    flat = flat
    Contents = {busy, plain, flat}
    None = None
    Fits <- MCFits
    ColorBits = 8
    StepSize = 12
    Modes <- MCModes
    Wished <- MCWished
    Low <- MCLow
    High <- MCHigh
    MaxOther = 1
    MaxWindow = 1
INVARIANTS
    Decoded
    Granted
PROPERTIES
    GetsThrough
    BecomesSharp
    ShowsScreen
CHECK_DEADLOCK FALSE
