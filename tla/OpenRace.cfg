SPECIFICATION Spec
CONSTANTS
    Procs = {q1, q2}
    Paths = {a}
    Archived = {1}
    Missing = Missing
    Bare = Bare
    Partial = Partial
    Default = Default
    None = None
    MaxContents = 2
SYMMETRY Alike
INVARIANTS
    SignaturesAgree
\* A path that both engines claim is refused by every later open.
CHECK_DEADLOCK FALSE
