SPECIFICATION Spec
CONSTANTS
    None = None
    IDs <- MCIDs
    Words <- MCWords
    Blank = Blank
    Fold <- MCFold
    DerivedID <- MCDerivedID
    LegacyID <- MCLegacyID
    DefaultSpace = "default"
    Clienteles <- MCClienteles
    MaxHops = 4
INVARIANTS
    RedirectsEndInCanonicalEntities
    PreviewIsMergeable
    CompactionKeepsASurvivor
    FinishedCompactionLeavesNoDuplicates
PROPERTIES
    AutomaticAssertKeepsIdentities
    MergesGatherWhatBelongsTogether
\* Once every caller has been served or refused, nothing is left to do.
CHECK_DEADLOCK FALSE
