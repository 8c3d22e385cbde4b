SPECIFICATION Spec
CONSTANTS
    None = None
    CallerIDs <- LifecycleIDs
    EpisodeInputs <- LifecycleEpisodes
    EntityInputs <- LifecycleEntities
    FactInputs <- LifecycleFacts
    ClockMode = "stalling"
    Cuts = {1, 2, 3, 4, 5}
    MaxTime = 2
    MaxSequence = 8
INVARIANTS
    LiveFactIsLatestVersion
    LineageIsLinear
    SupersessionIsAtomicAtEveryCut
PROPERTIES
    SettledCutsAreImmutable
    LifecycleMovesForward
