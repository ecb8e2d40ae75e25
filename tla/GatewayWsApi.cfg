\* The whole public interface in any order: sockets overlap.
SPECIFICATION Spec
CONSTANTS
    Sockets = {s1, s2}
    NoSocket = NoSocket
    Requests = {r1}
    Callers = {c1, c2}
    TimerCaller = TimerCaller
    MaxReconnectAttempts = 1
    AttemptCap = 2
SYMMETRY ApiSymmetry
INVARIANTS NoRequestLost AtMostOneResend NeverStranded OpenersAnswered
PROPERTIES KeepsLedger
CHECK_DEADLOCK FALSE
