\* 344 MHz and 1765 MHz lie on either side of the input's change; 1765 MHz is
\* tuned directly or, when the oscillator does not lock, by the harmonic,
\* 1766 MHz by the harmonic because nothing fits. With a fine tuning of 1 the
\* driver takes the divider's code as it is; 2 takes that of 1765 MHz below 0.
\* The first 18 transfers reach the end of a whole tuning and calibration.
SPECIFICATION Spec
CONSTANTS
    Reference = 1600
    VcoMin = 177000
    SdmSteps = 64
    SdmLow = 8
    Frequencies = {34400, 176500, 176600}
    AttSteps = {28}
    VgaSteps = {8}
    FineTunings = {1, 2}
    MaxTransfers = 18
INVARIANTS TypeOK TunedAsRequested InputFollows GainAsRequested
