CONSTANTS
    BufLen = 13
    MaxField = 64
    Devices <- MCDevices
    Stray = {1, 4, 5}
SPECIFICATION FairSpec
INVARIANTS TypeOK RunsItself BootDeviceRuns OwnPacketSize TogglesAgree
PROPERTY WalkEnds
CHECK_DEADLOCK FALSE
