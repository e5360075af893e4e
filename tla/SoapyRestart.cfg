SPECIFICATION Spec
CONSTANTS
    NumBuffers = 3
    Elems = 2
    MaxBlocks = 7
    RestartMidBlock = TRUE
PROPERTY BufferIsAvailable
