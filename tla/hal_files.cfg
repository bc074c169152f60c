CONSTANTS
    MaxFd = 6
    Null = Null
    Uart = Uart
    FileSystems = {fs}
    NULL = NULL
    OpenFlags = {{}, {"WRONLY", "EXCL"}, {"RDWR", "NONBLOCK"}}
SPECIFICATION Spec
INVARIANTS TypeOK DescriptorsKept StdioStays LockUnique
PROPERTY LockKeepsOut
