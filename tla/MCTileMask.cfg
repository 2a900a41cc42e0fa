SPECIFICATION TileSpec
CONSTANTS
    busy = busy
    plain = plain
    flat = flat
    Contents = {busy, plain, flat}
    None = None
    Fits <- MCFits
    ColorBits = 8
    StepSize = 12
INVARIANTS
    MaskDefined
CHECK_DEADLOCK FALSE
