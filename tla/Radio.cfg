\* 5 MHz is always HF, 100 MHz always VHF, 20 MHz is HF at an ADC rate of
\* 64 MHz and VHF below; the two sample rates, 8 and 16 MHz, need different
\* ADC rates and straddle the limit of VHF.
SPECIFICATION Spec
CONSTANTS
    HalfSize = 5120
    HalfScrap = 1024
    Alignment = 20
    FftsPerBlock = 8
    GainTable <- MCGainTable
    Frequencies = {500, 2000, 10000}
    RateChoices = {4, 5}
    Gains <- MCGains
    Settings = {"RANDO"}
    MaxCalls = 5
    MaxSessions = 2
INVARIANTS TypeOK WindowInRange HearsRequest PinsAsReported
PROPERTIES StartsAtReportedRate GainIsNearest
\* After the last session the application is done.
CHECK_DEADLOCK FALSE
