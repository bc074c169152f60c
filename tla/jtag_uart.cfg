CONSTANTS
    BufLen = 3
    WriteDepth = 2
    ReadDepth = 1
    Timeout = 2
    IntMax = 4
    Calls = {"write", "read", "close"}
    MaxCount = 2
    Ids = 3
SPECIFICATION Spec
INVARIANTS TypeOK NothingStuck
PROPERTY RingsAreQueues
CHECK_DEADLOCK FALSE
