\* Two workers, channels of capacity two, three blocks: full channels, results
\* out of order, dropped blocks and retried AddKeys all happen.
SPECIFICATION Spec
CONSTANTS
    NumBlocks = 3
    TotalKeys = 2
    Workers = {w1, w2}
    workChanBufferMultiplier = 1
    Fences = {}
    NoFence = NoFence
    contextCheckInterval = 2
    MaxCalls = 3
SYMMETRY WorkerSymmetry
PROPERTY ImplementsBuildOutcome
INVARIANTS
    TypeOK
    IndexCorrect
    FailureNotSwallowed
    CommittedBlocksIntact
    NoWriteToClosedFile
    NoChannelPanic
    DrainReportsFailure
