SPECIFICATION Spec
CONSTANTS
    Modes = {"iq"}
    Cap = 2
    Transfers = 1
    DecRatio = 1
    CanPause = FALSE
    HwCanFail = TRUE
    UsbCanFail = FALSE
INVARIANT NoBadJoin
CHECK_DEADLOCK FALSE
