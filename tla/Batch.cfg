SPECIFICATION Spec
CONSTANTS
    None = None
    CallerIDs <- BatchIDs
    EpisodeInputs <- BatchEpisodes
    EntityInputs <- BatchEntities
    FactInputs <- BatchFacts
    ClockMode = "stalling"
    Cuts = {1, 2, 3, 4}
    MaxTime = 3
    MaxSequence = 5
INVARIANTS
    GlobalIDsAreUnique
    LiveEntityIsLatestVersion
    HistoryIsCausal
    SlotHoldsAtEveryCut
