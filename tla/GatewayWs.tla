------------------------------ MODULE GatewayWs ------------------------------
(***************************************************************************)
(* GatewayWsManager (lib/gateway-ws.js): the one persistent WebSocket      *)
(* between the chat server and the OpenClaw gateway, its connect           *)
(* handshake, its reconnection, and the requests multiplexed over it.      *)
(*                                                                         *)
(* The manager runs on one event loop, so each handler, timer callback and *)
(* public method is one step.  Sockets belong to the `ws' library: a       *)
(* handler stays attached to the socket it was installed on, and no        *)
(* handler compares that socket with this.ws, so events of a socket the    *)
(* manager has let go of still act on the manager's fields.                *)
(***************************************************************************)
EXTENDS Naturals, FiniteSets

CONSTANTS
    Sockets,       \* identities for WebSocket objects, reused once closed
    NoSocket,      \* this.ws = null
    Requests,      \* the send() calls of a run, one identity each
    Callers,       \* the connect() calls the application makes
    TimerCaller,   \* connect() as called by the reconnect timer
    MaxReconnectAttempts,  \* 0 is unlimited, the default
    AttemptCap     \* bound: reconnectAttempts saturates here

ASSUME SocketAssumption == NoSocket \notin Sockets
ASSUME CallerAssumption == TimerCaller \notin Callers
ASSUME AttemptAssumption ==
    /\ MaxReconnectAttempts \in Nat
    /\ AttemptCap \in Nat
    /\ MaxReconnectAttempts < AttemptCap

VARIABLES
    \* the ws library and the network
    sock,       \* state of each socket
    challenged, \* sockets on which the gateway has sent its challenge
    hs,         \* unanswered connect frames on each socket
    wire,       \* request frames written to each socket, not yet served
    replies,    \* answers of the gateway in flight on each socket
    served,     \* requests the gateway has processed (history)
    writes,     \* times each request frame was put on an open socket (history)
    \* the manager's fields
    ws,             \* this.ws
    connectId,      \* this._connectId, named after the socket it was made for
    connected, connecting, manualClose,
    reconnectAttempts,
    reconnectTimer, \* this._reconnectTimer is armed
    challengeTimer, \* the timer this._challengeWaitTimer refers to is armed
    orphanTimers,   \* armed challenge timers nothing refers to any more
    pending,        \* keys of this.pendingRequests
    recovery,       \* keys of this._recoveryPending
    framed,         \* entries of either map that still hold frameData
    armed,          \* requests with a running timeout
    \* what the callers see
    req,            \* the promise of each send()
    call,           \* the promise of each application connect()
    opener          \* whose connect() opened each socket

netVars  == <<challenged, hs, wire, replies, served, writes>>
linkVars == <<ws, connectId, connected, connecting, manualClose>>
retryVars == <<reconnectAttempts, reconnectTimer>>
waitVars == <<challengeTimer, orphanTimers>>
reqVars  == <<pending, recovery, framed, armed, req>>
callVars == <<call, opener>>
vars == <<sock, netVars, linkVars, retryVars, waitVars, reqVars, callVars>>

\* "closing": disconnect() closed it; "refused": closed after a connect error;
\* "aborting": disconnect() closed it before it opened; "bye": the gateway
\* closed it cleanly (1000/1001); "dead": it broke.  The close event of the
\* last four is still to come.
SocketStates == {"connecting", "open", "aborting", "closing", "refused",
                 "bye", "dead", "closed"}

\* The peer's frames still reach the handlers of a socket being closed.
Receiving(s) == sock[s] \in {"open", "closing", "refused"}

\* this.ws exists and its readyState is OPEN
Writable == ws # NoSocket /\ sock[ws] = "open"

------------------------------------------------------------------------------
(* Helpers of the class *)

\* Mutant: a failure calls resolve.
SettleByResolving(S, o) ==
    [r \in Requests |-> IF r \in S /\ req[r] = "outstanding" THEN "resolved" ELSE req[r]]

\* A promise ignores every settlement after its first.
Settle(S, o) ==
    [r \in Requests |-> IF r \in S /\ req[r] = "outstanding" THEN o ELSE req[r]]

\* Mutant: the promise of connect() counts as settled from the start.
OpeningForgotten(s) == {c \in Callers : FALSE}

\* The callers connect() left waiting on once('connected') / once('error'),
\* and the caller that opened s if its promise is still open.
Joined == {c \in Callers : call[c] = "joined"}
Opening(s) == {c \in Callers : opener[s] = c /\ call[c] = "opening"}
SettleCalls(S, o) == [c \in Callers |-> IF c \in S THEN o ELSE call[c]]

\* Mutant: one attempt short, and 0 no longer means unlimited.
ScheduleOneShort ==
    IF manualClose \/ reconnectTimer
    THEN UNCHANGED retryVars
    ELSE LET n == IF reconnectAttempts < AttemptCap THEN reconnectAttempts + 1
                                                    ELSE AttemptCap
         IN reconnectAttempts' = n /\ reconnectTimer' = (n < MaxReconnectAttempts)

\* _scheduleReconnect
ScheduleReconnect ==
    IF manualClose \/ reconnectTimer
    THEN UNCHANGED retryVars
    ELSE LET n == IF reconnectAttempts < AttemptCap THEN reconnectAttempts + 1
                                                    ELSE AttemptCap
         IN /\ reconnectAttempts' = n
            /\ reconnectTimer' = (MaxReconnectAttempts = 0 \/ n <= MaxReconnectAttempts)

\* _failPendingRequests: every pending request is rejected, its timer cleared
FailPendingRequests ==
    /\ req' = Settle(pending, "rejected")
    /\ armed' = armed \ pending
    /\ framed' = framed \ pending
    /\ pending' = {}
    /\ UNCHANGED recovery

\* Mutant: the map is cleared before it is copied.
StoreClearedMap ==
    /\ recovery' = {} /\ pending' = {} /\ framed' = {}
    /\ UNCHANGED <<armed, req>>

\* _storePendingForRecovery: the map is moved, the timers keep running
StorePendingForRecovery ==
    /\ recovery' = pending
    /\ pending' = {}
    /\ framed' = framed \cap pending
    /\ UNCHANGED <<armed, req>>

\* Mutants of the recovery: no new timeout for what is resent; the new entry
\* keeps its frame.
RecoverWith(timed, keepsFrame) ==
    LET resent == IF Writable THEN recovery \cap framed ELSE {}
    IN /\ req' = Settle(recovery \ resent, "rejected")
       /\ pending' = pending \cup resent
       /\ recovery' = {}
       /\ armed' = (armed \ recovery) \cup (IF timed THEN resent ELSE {})
       /\ framed' = (framed \ recovery) \cup (IF keepsFrame THEN resent ELSE {})
       /\ wire' = [s \in Sockets |-> IF s = ws THEN wire[s] \cup resent ELSE wire[s]]
       /\ writes' = [r \in Requests |-> IF r \in resent THEN writes[r] + 1 ELSE writes[r]]

RecoverUntimed == RecoverWith(FALSE, FALSE)
RecoverKeepingFrames == RecoverWith(TRUE, TRUE)

\* _recoverPendingRequests: resend what still has its frame, reject the rest.
\* The new entry is stored without frameData.
RecoverPendingRequests ==
    LET resent == IF Writable THEN recovery \cap framed ELSE {}
    IN /\ req' = Settle(recovery \ resent, "rejected")
       /\ pending' = pending \cup resent
       /\ recovery' = {}
       /\ armed' = (armed \ recovery) \cup resent
       /\ framed' = framed \ recovery
       /\ wire' = [s \in Sockets |-> IF s = ws THEN wire[s] \cup resent ELSE wire[s]]
       /\ writes' = [r \in Requests |-> IF r \in resent THEN writes[r] + 1 ELSE writes[r]]

\* _sendConnect on whatever socket is current
SendConnect ==
    hs' = IF Writable THEN [hs EXCEPT ![ws] = @ + 1] ELSE hs

------------------------------------------------------------------------------
(* Public methods *)

\* connect(): the part that creates a socket
OpenSocket(c) ==
    \E s \in Sockets :
        /\ sock[s] = "closed"
        /\ sock' = [sock EXCEPT ![s] = "connecting"]
        /\ ws' = s
        /\ connectId' = s
        /\ connecting' = TRUE
        /\ manualClose' = FALSE
        /\ opener' = [opener EXCEPT ![s] = c]
        /\ challenged' = challenged \ {s}
        /\ hs' = [hs EXCEPT ![s] = 0]
        /\ wire' = [wire EXCEPT ![s] = {}]
        /\ replies' = [replies EXCEPT ![s] = {}]
        /\ UNCHANGED <<served, writes, connected>>

\* connect() as the application calls it.  Bound: one call per caller.
Connect(c) ==
    /\ call[c] = "idle"
    /\ \/ /\ connected
          /\ call' = [call EXCEPT ![c] = "resolved"]
          /\ UNCHANGED <<sock, netVars, linkVars, opener>>
       \/ /\ ~connected /\ connecting
          /\ call' = [call EXCEPT ![c] = "joined"]
          /\ UNCHANGED <<sock, netVars, linkVars, opener>>
       \/ /\ ~connected /\ ~connecting
          /\ call' = [call EXCEPT ![c] = "opening"]
          /\ OpenSocket(c)
    /\ UNCHANGED <<retryVars, waitVars, reqVars>>

\* The reconnect timer fires and calls connect().
ReconnectTimerFires ==
    /\ reconnectTimer
    /\ reconnectTimer' = FALSE
    /\ \/ /\ connected \/ connecting
          /\ UNCHANGED <<sock, netVars, linkVars, opener>>
       \/ /\ ~connected /\ ~connecting
          /\ OpenSocket(TimerCaller)
    /\ UNCHANGED <<reconnectAttempts, waitVars, reqVars, call>>

\* send(): the entry and its timeout exist before the frame is written; a
\* write to a socket that is no longer open is dropped without an error, one
\* to a missing or unopened socket throws, which rejects the promise.
Send(r) ==
    /\ req[r] = "idle"
    /\ \/ /\ ~connected
          /\ req' = [req EXCEPT ![r] = "rejected"]
          /\ UNCHANGED <<wire, writes, pending, framed, armed>>
       \/ /\ connected
          /\ pending' = pending \cup {r}
          /\ framed' = framed \cup {r}
          /\ armed' = armed \cup {r}
          /\ req' = [req EXCEPT ![r] = IF ws = NoSocket \/ sock[ws] = "connecting"
                                       THEN "rejected" ELSE "outstanding"]
          /\ wire' = IF Writable THEN [wire EXCEPT ![ws] = @ \cup {r}] ELSE wire
          /\ writes' = IF Writable THEN [writes EXCEPT ![r] = @ + 1] ELSE writes
    /\ UNCHANGED <<sock, challenged, hs, replies, served, linkVars, retryVars,
                   waitVars, recovery, callVars>>

\* disconnect()
Disconnect ==
    /\ challengeTimer' = FALSE
    /\ reconnectTimer' = FALSE
    /\ manualClose' = TRUE
    /\ FailPendingRequests
    /\ ws' = NoSocket
    /\ sock' = IF ws = NoSocket THEN sock
               ELSE [sock EXCEPT ![ws] = CASE @ = "connecting" -> "aborting"
                                           [] @ = "open" -> "closing"
                                           [] OTHER -> @]
    /\ connected' = FALSE
    /\ connecting' = FALSE
    /\ UNCHANGED <<netVars, connectId, reconnectAttempts, orphanTimers, callVars>>

------------------------------------------------------------------------------
(* Socket events *)

\* Mutant: 'open' waits for the challenge without a timer.
SocketOpenUntimed(s) ==
    /\ sock[s] = "connecting"
    /\ sock' = [sock EXCEPT ![s] = "open"]
    /\ UNCHANGED <<netVars, linkVars, retryVars, waitVars, reqVars, callVars>>

\* 'open' starts the wait for a challenge, overwriting the handle of any
\* earlier wait.
SocketOpen(s) ==
    /\ sock[s] = "connecting"
    /\ sock' = [sock EXCEPT ![s] = "open"]
    /\ challengeTimer' = TRUE
    /\ orphanTimers' = IF challengeTimer THEN orphanTimers + 1 ELSE orphanTimers
    /\ UNCHANGED <<netVars, linkVars, retryVars, reqVars, callVars>>

\* The body of the 'close' handler.  `also' are the callers an 'error' event
\* emitted just before has rejected as well.
CloseHandler(s, also) ==
    /\ sock' = [sock EXCEPT ![s] = "closed"]
    /\ connected' = FALSE
    /\ connecting' = FALSE
    /\ challengeTimer' = FALSE
    /\ IF connected THEN StorePendingForRecovery ELSE FailPendingRequests
    /\ call' = SettleCalls(also \cup Opening(s), "rejected")
    /\ ScheduleReconnect
    /\ UNCHANGED <<netVars, ws, connectId, manualClose, orphanTimers, opener>>

SocketClose(s) ==
    /\ sock[s] \in {"closing", "refused", "bye", "dead"}
    /\ CloseHandler(s, {})

\* A socket that never opened: ws emits 'error' and 'close' back to back.
SocketFail(s) ==
    /\ sock[s] \in {"connecting", "aborting"}
    /\ CloseHandler(s, Joined)

\* Mutant: 'error' schedules the reconnect without waiting for 'close'.
SocketErrorReconnects(s) ==
    /\ sock[s] = "open"
    /\ sock' = [sock EXCEPT ![s] = "dead"]
    /\ connected' = FALSE
    /\ connecting' = FALSE
    /\ challengeTimer' = FALSE
    /\ call' = SettleCalls(Joined \cup Opening(s), "rejected")
    /\ ScheduleReconnect
    /\ UNCHANGED <<netVars, ws, connectId, manualClose, orphanTimers, reqVars, opener>>

\* 'error' on an open socket; its close event follows later.
SocketError(s) ==
    /\ sock[s] = "open"
    /\ sock' = [sock EXCEPT ![s] = "dead"]
    /\ connecting' = FALSE
    /\ challengeTimer' = FALSE
    /\ call' = SettleCalls(Joined \cup Opening(s), "rejected")
    /\ UNCHANGED <<netVars, ws, connectId, connected, manualClose, retryVars,
                   orphanTimers, reqVars, opener>>

\* The gateway closes the socket (code 1000/1001), or the network breaks it.
PeerLeaves(s) ==
    /\ sock[s] = "open"
    /\ \E end \in {"bye", "dead"} : sock' = [sock EXCEPT ![s] = end]
    /\ UNCHANGED <<netVars, linkVars, retryVars, waitVars, reqVars, callVars>>

\* A challenge arrives.  Once connected it is an ordinary event frame.
Challenge(s) ==
    /\ Receiving(s)
    /\ s \notin challenged
    /\ challenged' = challenged \cup {s}
    /\ IF connected
       THEN UNCHANGED <<hs, challengeTimer>>
       ELSE challengeTimer' = FALSE /\ SendConnect
    /\ UNCHANGED <<sock, wire, replies, served, writes, linkVars, retryVars,
                   orphanTimers, reqVars, callVars>>

\* The wait for a challenge ends: connect without a nonce.  The callback does
\* not forget the handle.
ChallengeTimeout ==
    /\ \/ challengeTimer /\ challengeTimer' = FALSE /\ UNCHANGED orphanTimers
       \/ orphanTimers > 0 /\ orphanTimers' = orphanTimers - 1 /\ UNCHANGED challengeTimer
    /\ SendConnect
    /\ UNCHANGED <<sock, challenged, wire, replies, served, writes, linkVars,
                   retryVars, reqVars, callVars>>

\* The gateway accepts a connect frame.  An answer that comes when the manager
\* is connected, or that names another handshake, is an ordinary frame.
ConnectAccepted(s) ==
    /\ Receiving(s) /\ hs[s] > 0
    /\ hs' = [hs EXCEPT ![s] = @ - 1]
    /\ IF ~connected /\ connectId = s
       THEN /\ connected' = TRUE
            /\ connecting' = FALSE
            /\ reconnectAttempts' = 0
            /\ challengeTimer' = FALSE
            /\ RecoverPendingRequests
            /\ call' = SettleCalls(Joined \cup Opening(s), "resolved")
       ELSE UNCHANGED <<connected, connecting, reconnectAttempts, challengeTimer,
                        wire, writes, reqVars, call>>
    /\ UNCHANGED <<sock, challenged, replies, served, ws, connectId, manualClose,
                   reconnectTimer, orphanTimers, opener>>

\* The gateway refuses a connect frame: 'error' is emitted and this.ws closed.
ConnectRefused(s) ==
    /\ Receiving(s) /\ hs[s] > 0
    /\ hs' = [hs EXCEPT ![s] = @ - 1]
    /\ IF ~connected /\ connectId = s
       THEN /\ call' = SettleCalls(Joined, "rejected")
            /\ sock' = IF Writable THEN [sock EXCEPT ![ws] = "refused"] ELSE sock
       ELSE UNCHANGED <<call, sock>>
    /\ UNCHANGED <<challenged, wire, replies, served, writes, linkVars, retryVars,
                   waitVars, reqVars, opener>>

\* _handleFrame: an answer settles the request if it is still pending and is
\* otherwise ignored.
Reply(r, s) ==
    /\ Receiving(s) /\ r \in replies[s]
    /\ replies' = [replies EXCEPT ![s] = @ \ {r}]
    /\ IF r \in pending
       THEN /\ \E o \in {"resolved", "rejected"} : req' = Settle({r}, o)
            /\ pending' = pending \ {r}
            /\ armed' = armed \ {r}
            /\ framed' = framed \ {r}
       ELSE UNCHANGED <<req, pending, armed, framed>>
    /\ UNCHANGED <<sock, challenged, hs, wire, served, writes, linkVars, retryVars,
                   waitVars, recovery, callVars>>

\* The timeout of a request fires; it acts only on a pending entry.
RequestTimeout(r) ==
    /\ r \in armed
    /\ armed' = armed \ {r}
    /\ pending' = pending \ {r}
    /\ framed' = framed \ (pending \cap {r})
    /\ req' = Settle(pending \cap {r}, "rejected")
    /\ UNCHANGED <<sock, netVars, linkVars, retryVars, waitVars, recovery, callVars>>

\* The gateway processes a request frame it was sent; frames written before a
\* socket broke may still have reached it.
Serve(r, s) ==
    /\ r \in wire[s]
    /\ wire' = [wire EXCEPT ![s] = @ \ {r}]
    /\ replies' = [replies EXCEPT ![s] = @ \cup {r}]
    /\ served' = served \cup {r}
    /\ UNCHANGED <<sock, challenged, hs, writes, linkVars, retryVars, waitVars,
                   reqVars, callVars>>

------------------------------------------------------------------------------
Init ==
    /\ sock = [s \in Sockets |-> "closed"]
    /\ challenged = {}
    /\ hs = [s \in Sockets |-> 0]
    /\ wire = [s \in Sockets |-> {}]
    /\ replies = [s \in Sockets |-> {}]
    /\ served = {}
    /\ writes = [r \in Requests |-> 0]
    /\ ws = NoSocket /\ connectId = NoSocket
    /\ connected = FALSE /\ connecting = FALSE /\ manualClose = FALSE
    /\ reconnectAttempts = 0 /\ reconnectTimer = FALSE
    /\ challengeTimer = FALSE /\ orphanTimers = 0
    /\ pending = {} /\ recovery = {} /\ framed = {} /\ armed = {}
    /\ req = [r \in Requests |-> "idle"]
    /\ call = [c \in Callers |-> "idle"]
    /\ opener = [s \in Sockets |-> TimerCaller]

SocketEvent(s) ==
    \/ SocketOpen(s) \/ SocketClose(s) \/ SocketFail(s) \/ SocketError(s)
    \/ PeerLeaves(s) \/ Challenge(s) \/ ConnectAccepted(s) \/ ConnectRefused(s)

RequestEvent(r) ==
    \/ Send(r)
    \/ RequestTimeout(r)
    \/ \E s \in Sockets : Serve(r, s) \/ Reply(r, s)

\* Everything that happens without a call to connect() or disconnect().
Internal ==
    \/ \E s \in Sockets : SocketEvent(s)
    \/ \E r \in Requests : RequestEvent(r)
    \/ ReconnectTimerFires
    \/ ChallengeTimeout

\* The whole public interface, in any order.
Next ==
    \/ Internal
    \/ \E c \in Callers : Connect(c)
    \/ Disconnect

\* The manager as server.js drives it: connect() once at startup, from then on
\* only timers and events; disconnect() comes right before process.exit().
ServerNext ==
    \/ Internal
    \/ \E c \in Callers : connectId = NoSocket /\ Connect(c)

\* realtime.state of GET /api/health.  "down" is its "degraded" if an error was
\* noted, else its "disconnected".
RealtimeState ==
    IF connected THEN "healthy"
    ELSE IF reconnectAttempts > 0 THEN "reconnecting" ELSE "down"

Spec == Init /\ [][Next]_vars
ServerSpec == Init /\ [][ServerNext]_vars
------------------------------------------------------------------------------
(* Invariants of the whole interface *)

\* Every field holds a value of its type.
TypeOK ==
    /\ sock \in [Sockets -> SocketStates]
    /\ challenged \subseteq Sockets
    /\ hs \in [Sockets -> Nat]
    /\ wire \in [Sockets -> SUBSET Requests]
    /\ replies \in [Sockets -> SUBSET Requests]
    /\ served \subseteq Requests
    /\ writes \in [Requests -> Nat]
    /\ ws \in Sockets \cup {NoSocket}
    /\ connectId \in Sockets \cup {NoSocket}
    /\ connected \in BOOLEAN /\ connecting \in BOOLEAN /\ manualClose \in BOOLEAN
    /\ reconnectAttempts \in 0..AttemptCap
    /\ reconnectTimer \in BOOLEAN
    /\ challengeTimer \in BOOLEAN
    /\ orphanTimers \in Nat
    /\ pending \subseteq Requests /\ recovery \subseteq Requests
    /\ framed \subseteq Requests /\ armed \subseteq Requests
    /\ req \in [Requests -> {"idle", "outstanding", "resolved", "rejected"}]
    /\ call \in [Callers -> {"idle", "opening", "joined", "resolved", "rejected"}]
    /\ opener \in [Sockets -> Callers \cup {TimerCaller}]

\* A request whose promise is open is in one of the two maps, through drops,
\* reconnects, stale socket events and disconnect(): no path forgets it.
NoRequestLost ==
    \A r \in Requests : req[r] = "outstanding" => r \in pending \cup recovery

\* A request waiting for its answer always has a running timeout, also after
\* it was resent: the answer of the gateway is never the only way out.
PendingIsTimed == pending \subseteq armed

\* The recovery map holds something only while the manager is not connected, so
\* that the next drop never overwrites requests still waiting to be resent.
RecoveryOnlyOffline == recovery # {} => ~connected /\ pending = {}

\* However often the connection drops, a request frame is written at most
\* twice: the first time and one resend.
AtMostOneResend == \A r \in Requests : writes[r] <= 2

\* The automatic reconnect has given up.
Exhausted == MaxReconnectAttempts > 0 /\ reconnectAttempts > MaxReconnectAttempts

\* Once connect() was called and until disconnect() is or the attempts are used
\* up, a manager that is not connected has either a reconnect timer or a socket
\* whose close event will arm one: no order of events strands it offline.
NeverStranded ==
    connectId # NoSocket /\ ~connected /\ ~manualClose /\ ~Exhausted
        => reconnectTimer \/ \E s \in Sockets : sock[s] # "closed"

\* Whoever opened a socket with connect() is answered by the time it is gone.
OpenersAnswered ==
    \A c \in Callers : call[c] = "opening" =>
        \E s \in Sockets : opener[s] = c /\ sock[s] # "closed"

Ledger == INSTANCE RequestLedger WITH outcome <- req

\* What send() promises its caller (module RequestLedger), kept over any number
\* of sockets.
KeepsLedger == Ledger!Spec

------------------------------------------------------------------------------
(* Invariants of the manager as server.js drives it *)

\* A settled request is in neither map: nothing resends it, times it out or
\* answers it again.
SettledIsForgotten ==
    \A r \in pending \cup recovery : req[r] = "outstanding"

\* There is never a second socket beside the current one, so no event reaches
\* the manager from a socket it has replaced.
SingleSocket ==
    \A s \in Sockets : sock[s] # "closed" => s = ws

\* The manager calls itself connected only with a socket that opened and whose
\* close event has not come.
ConnectedHasSocket ==
    connected => ws # NoSocket /\ connectId = ws
                 /\ sock[ws] \in {"open", "refused", "bye", "dead"}

\* On an open socket that is not connected yet, either the wait for the
\* challenge still runs or a connect frame waits for its answer: the handshake
\* never waits for nothing.
HandshakeDriven ==
    Writable /\ ~connected => challengeTimer \/ hs[ws] > 0

\* What GET /api/health reports is what goes on: "healthy" with a socket that
\* opened and whose close event has not come, "reconnecting" with an attempt made
\* or to come, until the attempts are used up; and otherwise the first attempt is
\* not over, and no request waits for it (server.js:753-767).
HealthIsTruthful ==
    LET underWay == reconnectTimer \/ \E s \in Sockets : sock[s] # "closed"
    IN  CASE RealtimeState = "healthy" ->
               ws # NoSocket /\ sock[ws] \in {"open", "refused", "bye", "dead"}
          [] RealtimeState = "reconnecting" -> underWay \/ Exhausted
          [] RealtimeState = "down" ->
               /\ connectId = NoSocket \/ underWay
               /\ pending \cup recovery = {}

------------------------------------------------------------------------------
(* Liveness *)

\* Timers fire, and a socket that is going down delivers its close event.
LocalFairness ==
    /\ WF_vars(ReconnectTimerFires)
    /\ WF_vars(ChallengeTimeout)
    /\ \A r \in Requests : WF_vars(RequestTimeout(r))
    /\ \A s \in Sockets : WF_vars(SocketClose(s)) /\ WF_vars(SocketFail(s) \/ SocketOpen(s))

\* The gateway is not gone for good: if connecting is tried again and again, one
\* socket opens, lives through the challenge wait and has its connect accepted.
GatewayReturns ==
    \A s \in Sockets :
        /\ SF_vars(SocketOpen(s))
        /\ SF_vars(s = ws /\ Writable /\ ChallengeTimeout)
        /\ SF_vars(ConnectAccepted(s) /\ ~connected /\ connected')

FairSpec == ServerSpec /\ LocalFairness /\ GatewayReturns

\* With a gateway that comes back, every request settles: by its answer, by its
\* timeout, or by the reconnect that resends or rejects it.
RequestsSettle ==
    \A r \in Requests : req[r] = "outstanding" ~> req[r] \in {"resolved", "rejected"}

\* With unlimited attempts the manager is connected again after every drop.
KeepsReconnecting == (connectId # NoSocket /\ ~connected) ~> connected
==============================================================================
