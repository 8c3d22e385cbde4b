SPECIFICATION MCSpec
CONSTANTS
    None = None
    Blank = Blank
    CallerIDs <- MCCallerIDs
    EpisodeInputs <- MCEpisodes
    EntityInputs <- MCEntities
    FactInputs <- MCFacts
    ClockMode = "stalling"
    Cuts = {1}
    MaxTime = 3
    MaxSequence = 7
    DuplicateOf <- MCDuplicateOf
    EntityType <- MCEntityType
    Matching <- MCMatching
    PrefixRank <- MCPrefixRank
    MaxCandidates = 3
    MaxHops = 4
    Requests <- MCRequests
INVARIANTS
    LookupIsIndexIndependent
    NeighborhoodStaysConnected
    EveryRouteAgrees
    TimelineTellsTheLifecycle
    PagesOfThePastPartitionIt
    RecordIsReadAtOneMoment
PROPERTIES
    PastAnswersNeverChange
