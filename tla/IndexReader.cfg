\* Every index of up to two keys in two blocks, as written and damaged in every way.
SPECIFICATION Spec
CONSTANTS
    Keys = {k1, k2}
    numBlocks = 2
    userLen = 1
    headerSize = 2
    lenSize = 1
    ramIndexEntrySize = 1
    footerSize = 1
    minFileSize = 8
    gap = 1
    Word = 200
    BlockWord = 8
    maxPayloadSize = 1
    maxFingerprintSize = 1
    MinMetadata = 1
    MaxMetadata = 3
    MaxNumber = 9
    MaxSlot = 8
    Damages = {"size", "header", "lengths", "ram", "payload", "metadata"}
    Totals = {0, 9, 197}
    BlockCounts = {0, 1, 3, 7}
    Lengths = {0, 9}
    Counts = {0, 1, 9}
    Slots = {0, 7}
INVARIANTS
    QueriesCorrect
    PrefetchCorrect
    ReadsStayInFile
    VerifyExact
SYMMETRY KeySymmetry
