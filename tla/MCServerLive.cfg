SPECIFICATION LiveSpec
CHECK_DEADLOCK FALSE
CONSTANTS
    k1 = k1
    kc1 = kc1
    NoCode = NoCode
    Key <- MCNoKey
    KeyCode <- MCNoKey
    Resolve <- MCNoResolve
    Button = {}
    Client = {c1, c2}
    NoClient = NoClient
    Name = {o}
    Owner = o
    NoName = NoName
    EmptyName = EmptyName
    GssLevel = {}
    ActivityTimeout = TRUE
PROPERTIES
    StaleMasterLeaves
    
