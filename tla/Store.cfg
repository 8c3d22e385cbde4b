SPECIFICATION Spec
CONSTANTS
    None = None
    Batches <- MCBatches
    InitialDisks <- MCInitialDisks
    MaxFanout = 1
    Foreign = TRUE
INVARIANTS
    DiskHoldsMemory
    LookupFindsEveryFact
    FullTextFindsEveryRecord
PROPERTIES
    ForeignDataIsUntouched
