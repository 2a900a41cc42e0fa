SPECIFICATION MCSpec
CONSTANTS
    Hash = {arrow, text, wait, hand}
    Blank = blank
    Size = 2
    Room = 3
    Width = 2
    Margin = 1
    M = 14
    Mark = mark
    PointerRoom = 1
    Text = {x, y}
    NoText = none
    Us = us
    MaxCopy = 2
    MaxTurn = 1
    SelectionRoom = 1
    Key = {a}
    Lock = lock
    Queued = 3
SYMMETRY Alike
INVARIANTS
    RightPixels
    
    BlockedHasAnswer
    Meets
    NoEcho
    
    NothingStuck
CHECK_DEADLOCK FALSE
