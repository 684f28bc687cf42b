\* AddKey, or AddKeys with two concurrent writers. Buffers hold three entries and one
\* of a partition, a writer's region on disk two, and counts wrap at two: full regions,
\* full buffers, flushes of both, an overflowing region and a wrapped count all happen,
\* and two keys may stay in memory.
SPECIFICATION Spec
CONSTANTS
    NumBlocks = 5
    numPartitions = 3
    numWriters = 2
    bufferCap = 3
    regionCap = 1
    regionEntries = 2
    countLimit = 2
    contextCheckInterval = 2
    MaxCalls = 3
    Totals = {0, 2, 3}
    blockContextCheckInterval = 2
INVARIANTS
    IndexCorrect
    EntriesHeldOnce
    NoIOOnClosedFiles
    RegionsHoldTheirPartition
PROPERTIES
    FlushedBufferStable
    BlocksInUseStable
