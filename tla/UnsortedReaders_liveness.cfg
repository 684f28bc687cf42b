\* One slot, two partitions, three blocks in the first: one block can fail, a second
\* worker can drop the next one, and the third is left in workChan with its fence,
\* so that the reader waits for the slot and the finishing goroutine for the reader.
SPECIFICATION FairSpec
CONSTANTS
    NumBlocks = 4
    TotalKeys = 4
    Workers = {w1, w2}
    workChanBufferMultiplier = 1
    Fences = {0}
    NoFence = NoFence
    numPartitions = 2
    blocksPerPart = 3
    readPipelineDepth = 1
    slotsPerReader = 1
    blockContextCheckInterval = 4
    MaxBlockKeys = 1
PROPERTY FinishReturns
