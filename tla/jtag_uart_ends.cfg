CONSTANTS
    BufLen = 3
    WriteDepth = 2
    ReadDepth = 1
    Timeout = 2
    IntMax = 4
    Calls = {"write", "close"}
    MaxCount = 2
    Ids = 3
SPECIFICATION FairSpec
PROPERTY CallEnds
CHECK_DEADLOCK FALSE
