\* A caller that goes on after a failed write too.
SPECIFICATION Spec
CONSTANTS
    NumBlocks = 3
    TotalKeys = 3
    contextCheckInterval = 2
    MaxCalls = 5
    MaxIOFaults = 1
    RetriesWrites = TRUE
INVARIANT
    RamIndexFitsLayout
