SPECIFICATION FairSpec
CONSTANTS
    MaxCount = 3
    SpinCount = 2
    Data = {d1, d2}
    NoData = NoData
INVARIANTS TypeOK ExclusiveBlocks NoMissedSignal
PROPERTIES RefinesFifo StopUnblocks ReadyUnblocks
