SPECIFICATION Spec
CONSTANTS
    Proc = {p1, p2}
    Server = server
    MaxStart = 4
    MaxCommand = 2
INVARIANTS
    ReadmeKey
CHECK_DEADLOCK FALSE
