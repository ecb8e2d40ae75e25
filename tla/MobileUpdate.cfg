\* Two releases, the file of the second of which may be replaced, two checks at a
\* time, and a cache that lives for one tick.
SPECIFICATION Spec
CONSTANTS
    Checks = {c1, c2}
    None = None
    TagOf <- MCTagOf
    Shapes <- MCShapes
    CacheTtl = 1
    Rebuilt = {2}
    MaxClock = 1
SYMMETRY Symmetric
INVARIANTS ServedIsRecent
PROPERTIES OnlyForward VerifiedIfUnchanged
CHECK_DEADLOCK FALSE
