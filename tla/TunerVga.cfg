\* No transfer of TUNERINIT fails, and a step of the VGA is enough.
SPECIFICATION Spec
CONSTANTS
    Reference = 1600
    VcoMin = 177000
    SdmSteps = 64
    SdmLow = 8
    Frequencies = {2500}
    AttSteps = {3}
    VgaSteps = {8}
    FineTunings = {0}
    MaxTransfers = 0
INVARIANT VgaAsRequested
