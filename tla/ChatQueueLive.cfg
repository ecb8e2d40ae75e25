\* Two messages, two sessions, one failure, no reload.
SPECIFICATION FairSpec
CONSTANTS
    MaxMessages = 2
    MaxReloads = 0
    MaxFailures = 1
    Sessions = {s1, s2}
    NoSession = NoSession
    Attempts = {a1, a2}
    NoAttempt = NoAttempt
    MaxQueueSize = 2
PROPERTIES MessagesLeave
CHECK_DEADLOCK FALSE
