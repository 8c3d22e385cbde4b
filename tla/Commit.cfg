SPECIFICATION FairSpec
CONSTANTS
    a = a
    b = b
    c = c
    k1 = k1
    k2 = k2
    watermark = watermark
    seed1 = seed1
    seed2 = seed2
    Closing = Closing
    None = None
    Requests <- ThreeCalls
    Keys <- FreshKeys
    SeedKeys <- FreshSeed
    Watermark <- watermark
    Writes <- ThreeWrites
    Limit = 2
    MaxOpens = 2
INVARIANTS
    ServedStateIsDurable
PROPERTIES
    KeepsPromise
    CallsAreAnswered
\* The bound on opens: an instance stops when its last process has ended.
CHECK_DEADLOCK FALSE
