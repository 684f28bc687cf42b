\* A caller that may go on after any error but a failed write.
SPECIFICATION Spec
CONSTANTS
    NumBlocks = 3
    TotalKeys = 3
    contextCheckInterval = 2
    MaxCalls = 5
    MaxIOFaults = 1
    RetriesWrites = FALSE
INVARIANTS
    IndexCorrect
PROPERTY
    ImplementsBuildOutcome
