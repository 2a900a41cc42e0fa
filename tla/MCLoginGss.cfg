SPECIFICATION FairSpec
CONSTANTS
    Client = {c1, c2}
    User = {"owner", "guest"}
    Owner = "owner"
    Acl <- MCAcl
    Delay = 1
    MaxTry = 2
PROPERTY LoginAsked
CHECK_DEADLOCK FALSE
