\* One session, two calls at a time, two browsers; the process exits.
SPECIFICATION SpecRealtime
CONSTANTS
    Keys = {k1}
    NoKey = NoKey
    Tasks = {t1, t2}
    NoTask = NoTask
    Clients = {c1, c2}
SYMMETRY Symmetric
INVARIANTS NoSilentStream
CHECK_DEADLOCK FALSE
