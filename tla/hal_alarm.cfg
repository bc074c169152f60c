CONSTANTS
    Alarms = {a1, a2, a3}
    Head = Head
    NULL = NULL
    TickMod = 7
    Delays = {0, 1, 5}
    Periods = {1, 3, 6}
SPECIFICATION Spec
INVARIANTS TypeOK ListWhole
PROPERTY OnTime
CHECK_DEADLOCK FALSE
