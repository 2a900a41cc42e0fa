SPECIFICATION FairSpec
CONSTANTS
    Size = 3
    Unit = 1
    Header = 1
    Wire = 2
    MaxExchange = 1
    Script <- MCScript
PROPERTIES
    PipeSpec
    Arrives
CHECK_DEADLOCK FALSE
