SPECIFICATION Spec
CONSTANTS
    Commands = {c1, c2}
    Uses <- MCUses
    Entities = {e1}
    Texts = {t1, t2}
    MaxExports = 3
    None = None
SYMMETRY Symmetric
INVARIANTS
    ValidMeansCurrent
    ExportsAreWholeAndKept
