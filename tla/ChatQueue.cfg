\* Two sessions, two requests at a time, two reloads, storage for one message.
SPECIFICATION Spec
CONSTANTS
    MaxMessages = 2
    MaxReloads = 2
    MaxFailures = 1
    Sessions = {s1, s2}
    NoSession = NoSession
    Attempts = {a1, a2}
    NoAttempt = NoAttempt
    MaxQueueSize = 1
SYMMETRY Symmetric
INVARIANTS TypeOK HeldExactlyOnce StoredIsQueue ConfirmedIsExecuted
PROPERTIES DeliversInOrder
CHECK_DEADLOCK FALSE
