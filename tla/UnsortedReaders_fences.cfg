\* The safety instance, for the fences left behind when the last dispatches have
\* succeeded and a block then fails.
SPECIFICATION Spec
CONSTANTS
    NumBlocks = 3
    TotalKeys = 2
    Workers = {w1, w2}
    workChanBufferMultiplier = 1
    Fences = {0, 1}
    NoFence = NoFence
    numPartitions = 3
    blocksPerPart = 1
    readPipelineDepth = 1
    slotsPerReader = 2
    blockContextCheckInterval = 2
    MaxBlockKeys = 1
INVARIANT NoOrphanedFence
