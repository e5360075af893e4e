SPECIFICATION Spec
CONSTANTS
    NumBuffers = 3
    Elems = 2
    MaxBlocks = 9
    RestartMidBlock = FALSE
INVARIANTS TypeOK IndicesAgree NoTornBlock NoMissedBlock
PROPERTIES BlocksInOrder GapIsReported
