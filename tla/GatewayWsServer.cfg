\* The manager as server.js drives it: unlimited attempts, a gateway that comes back.
SPECIFICATION FairSpec
CONSTANTS
    Sockets = {s1, s2}
    NoSocket = NoSocket
    Requests = {r1}
    Callers = {c1}
    TimerCaller = TimerCaller
    MaxReconnectAttempts = 0
    AttemptCap = 1
INVARIANTS SingleSocket HandshakeDriven HealthIsTruthful
PROPERTIES RequestsSettle KeepsReconnecting
CHECK_DEADLOCK FALSE
