SPECIFICATION Spec
CONSTANTS
    ByteBits = 3
    WordBytes = 3
    grMaxQuotient = 2
    blockBits = 3
    golombParameterTable <- MCGolomb
    grMaxSize = 3
    compactFallbackEntrySize = 3
    fallbackValidationXOR = 5
    maxFallbackEntries = 3
    HashBits = 6
    globalSeed = 37
    Keys <- MCKeys
    splitThreshold = 4
    inlineEntrySizes = {1, 3}
    fingerprintMixer = 21
    bucketsPerBlock = 6
    checkpointInterval = 2
    maxKeysPerBlock = 27
    efUpperBound = 11
    seedsUpperBound = 16
    fallbackUpperBound = 11
    EntrySizes <- MCEntrySizes
    Inputs <- MCInputs
    PayloadOf <- MCPayloadOf
CHECK_DEADLOCK FALSE
INVARIANTS
    StrangersStayInBlock
    BucketsDecodedExactly
    FailureNamesItsCause
    MetadataFits
PROPERTIES
    ImplementsBlockBuilder
