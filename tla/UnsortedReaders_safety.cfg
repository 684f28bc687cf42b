\* One reader alternating between its two slots, three partitions: the third one
\* reuses the slot of the first.
SPECIFICATION Spec
CONSTANTS
    NumBlocks = 3
    TotalKeys = 2
    Workers = {w1, w2}
    workChanBufferMultiplier = 1
    Fences = {0, 1}
    NoFence = NoFence
    numPartitions = 3
    blocksPerPart = 1
    readPipelineDepth = 1
    slotsPerReader = 2
    blockContextCheckInterval = 2
    MaxBlockKeys = 1
INVARIANTS
    IndexCorrect
    FailureIsReported
    SlotsNotOverwritten
    NoReadFromRemovedFiles
