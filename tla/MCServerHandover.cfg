SPECIFICATION Spec
CHECK_DEADLOCK FALSE
CONSTANTS
    k1 = k1
    kc1 = kc1
    NoCode = NoCode
    Key <- MCKey
    KeyCode <- MCKeyCode
    Resolve <- MCResolve
    Button = {7}
    Client = {c1, c2}
    NoClient = NoClient
    Name = {o}
    Owner = o
    NoName = NoName
    EmptyName = EmptyName
    GssLevel = {}
    ActivityTimeout = TRUE
SYMMETRY Clients
INVARIANTS
    OneAccessPerName
PROPERTIES
    HandoverClean
    BatonSpec
