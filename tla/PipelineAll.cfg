SPECIFICATION Spec
CONSTANTS
    Modes = {"iq", "real"}
    Cap = 2
    Transfers = 2
    DecRatio = 2
    CanPause = TRUE
    HwCanFail = TRUE
    UsbCanFail = TRUE
INVARIANTS TypeOK OneReader StoppedIsQuiet FreshData
PROPERTY RingsStartIdle
\* Stop may hang and a bad join throws: the runs that look for it say when.
CHECK_DEADLOCK FALSE
