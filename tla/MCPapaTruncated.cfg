CONSTANTS
    BufferWords = 2
    PageWords = 2
    Pages = 3
    Segments = {{0}, {1, 2}}
    Data = {"data"}
    MaxResets = 1
    MaxUpcalls = 1
    MaxKeys = 1
    Keys = {"1", "!", "R"}
    CmdBufLen = 4
    ReadBufLen = 3
SPECIFICATION MCSpec
INVARIANT WriteCoversLength
