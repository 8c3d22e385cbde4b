SPECIFICATION Spec
CONSTANTS
    a = a
    b = b
    c = c
    k1 = k1
    k2 = k2
    watermark = watermark
    seed1 = seed1
    seed2 = seed2
    Closing = Closing
    None = None
    Requests <- TwoCalls
    Keys <- LegacyKeys
    SeedKeys <- LegacySeed
    Watermark <- watermark
    Writes <- TwoWrites
    Limit = 3
    MaxOpens = 2
INVARIANTS
    SmallMutationsFit
\* The bound on opens: an instance stops when its last process has ended.
CHECK_DEADLOCK FALSE
