SPECIFICATION FairSpec
CONSTANTS
    NumFrames = 3
    CanFail = TRUE
INVARIANTS TypeOK ActiveIsExact NoFreeInFlight
PROPERTIES RefinesCount StopDrains
