\* Up to three keys, in one block or in several after each other on the same solver,
\* in three buckets, under every hash with two pilots: chains of evictions, two
\* overflow slots, exceeded limits, retries, and generations that start over.
SPECIFICATION Spec
CONSTANTS
    MaxKeys = 3
    numBuckets = 3
    numPilotValues = 2
    overflow = 2
    pinnedSize = 1
    maxEvictionMultiplier = 1
    maxGlobalRetries = 2
    genLimit = 3
    smallBucket = 1
INVARIANTS
    MinimalPerfect
    NothingForgotten
    SlotsMatchPilots
    QueriesStayInBlock
    PinnedMatchesRing
PROPERTY SolveProgresses
