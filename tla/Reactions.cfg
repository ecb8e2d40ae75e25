\* Three processes that start together, one user who reacts in two sessions, one crash.
SPECIFICATION FairSpec
CONSTANTS
    Processes = {p1, p2, p3}
    Messages = {m1}
    Sessions = {s1, s2}
    Emojis = {e1}
    Users = {u1}
    None = None
    MaxAttempts = 2
    MaxCrashes = 1
INVARIANTS AnswersAddUp ServesMigrated
PROPERTIES EventuallyServes
CHECK_DEADLOCK FALSE
