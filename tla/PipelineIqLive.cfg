SPECIFICATION FairSpec
CONSTANTS
    Modes = {"iq"}
    Cap = 2
    Transfers = 2
    DecRatio = 2
    CanPause = FALSE
    HwCanFail = FALSE
    UsbCanFail = FALSE
PROPERTIES StopReturns SamplesArrive
