SPECIFICATION FairSpec
CONSTANTS
    NumDevices = 2
    Keys = {0, 44}
    Devices = {"keyboard"}
    ClockMod = 3
    SettleTime = 1
PROPERTIES
    AttachEnds
