SPECIFICATION Spec
CONSTANTS
    NumDevices = 3
    Keys = {0, 44}
    Devices = {"keyboard", "mouse", "other"}
    ClockMod = 3
    SettleTime = 1
INVARIANTS
    TypeOK
    NoNullEndpoint
PROPERTIES
    KeysComeFromKeyboard
    AttachSpec
