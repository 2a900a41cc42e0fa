SPECIFICATION Spec
CHECK_DEADLOCK FALSE
CONSTANTS
    k1 = k1
    kc1 = kc1
    NoCode = NoCode
    Key <- MCKey
    KeyCode <- MCKeyCode
    Resolve <- MCResolve
    Button = {}
    Client = {c1, c2}
    NoClient = NoClient
    Name = {o}
    Owner = o
    NoName = NoName
    EmptyName = EmptyName
    GssLevel = {0, 1}
    ActivityTimeout = FALSE
SYMMETRY Clients
INVARIANTS
    MasterNeverViewOnly
    
    MasterAuthenticated
 
