SPECIFICATION FairSpec
CONSTANTS
    Modes = {"real"}
    Cap = 2
    Transfers = 2
    DecRatio = 1
    CanPause = FALSE
    HwCanFail = FALSE
    UsbCanFail = FALSE
PROPERTY StopReturns
\* The counterexample is a deadlock of the threads.
CHECK_DEADLOCK FALSE
