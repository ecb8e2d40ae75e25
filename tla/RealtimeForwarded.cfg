\* One browser, a first connect that fails.
SPECIFICATION SpecRealtime
CONSTANTS
    Keys = {k1}
    NoKey = NoKey
    Tasks = {t1, t2}
    NoTask = NoTask
    Clients = {c1}
INVARIANTS EventsAreForwarded
CHECK_DEADLOCK FALSE
