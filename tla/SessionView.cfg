\* The app with two sessions, two tasks at a time, two messages, one mishap.
SPECIFICATION Spec
CONSTANTS
    Sessions = {s1, s2}
    None = None
    Places = {TRUE}
    Tasks = {f1, f2}
    RefreshesAmid = FALSE
    MaxMessages = 2
    MaxMishaps = 1
SYMMETRY Symmetric
INVARIANTS TypeOK ShowsSelected ShownOnce KnownIsShown PollsGoOn RestoresStored
CHECK_DEADLOCK FALSE
