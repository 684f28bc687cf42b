\* Four blocks over channels of capacity two: when the writer stops at the first
\* block, the workers fill resultChan and park on it.
SPECIFICATION FairSpec
CONSTANTS
    NumBlocks = 4
    TotalKeys = 1
    Workers = {w1, w2}
    workChanBufferMultiplier = 1
    Fences = {}
    NoFence = NoFence
    contextCheckInterval = 1
    MaxCalls = 1
PROPERTIES
    CallsReturn
    GoroutinesExit
