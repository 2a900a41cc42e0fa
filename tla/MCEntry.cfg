SPECIFICATION MCSpec
CHECK_DEADLOCK FALSE
CONSTANTS
    Client = {c1, c2}
    User = {"owner", "guest"}
    Owner = "owner"
    Acl <- MCAcl
    Delay = 1
    MaxTry = 2
    Proc = {p1, p2}
    Server = server
    MaxStart = 3
    MaxCommand = 2
    Listed = {l1, l2, l3}
    Letter = {"a", "b"}
    MaxName = 3
    MaxOption = 3
    Typed <- MCTyped
    MaxLine = 4
    Least = 2
INVARIANTS
    OnlyVerified
    KnownWasAccepted
    FileWhole
    UserLoopAgrees
    OptionFound
    LineEdited
    CodesAgree
    
PROPERTIES
    LockKept
    
