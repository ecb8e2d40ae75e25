--------------------------- MODULE GatewayWsProofs ---------------------------
(***************************************************************************)
(* Theorems about GatewayWsManager for any number of sockets, requests and *)
(* callers and any limit on reconnects, over the whole public interface.   *)
(***************************************************************************)
EXTENDS GatewayWs, TLAPS

USE SocketAssumption, CallerAssumption, AttemptAssumption

------------------------------------------------------------------------------
(* Type correctness *)

LEMMA SettleType ==
    ASSUME TypeOK, NEW S, NEW o \in {"resolved", "rejected"}
    PROVE  Settle(S, o) \in [Requests -> {"idle", "outstanding", "resolved", "rejected"}]
BY DEF TypeOK, Settle

LEMMA SettleCallsType ==
    ASSUME TypeOK, NEW S, NEW o \in {"resolved", "rejected"}
    PROVE  SettleCalls(S, o) \in
             [Callers -> {"idle", "opening", "joined", "resolved", "rejected"}]
BY DEF TypeOK, SettleCalls

LEMMA ScheduleType ==
    ASSUME TypeOK, ScheduleReconnect
    PROVE  reconnectAttempts' \in 0..AttemptCap /\ reconnectTimer' \in BOOLEAN
<1>1. CASE manualClose \/ reconnectTimer
  BY <1>1 DEF TypeOK, ScheduleReconnect, retryVars
<1>2. CASE ~(manualClose \/ reconnectTimer)
  BY <1>2 DEF TypeOK, ScheduleReconnect
<1>. QED  BY <1>1, <1>2

LEMMA OpenSocketType ==
    ASSUME TypeOK, NEW c \in Callers \cup {TimerCaller}, OpenSocket(c)
    PROVE  /\ sock' \in [Sockets -> SocketStates]
           /\ challenged' \subseteq Sockets
           /\ hs' \in [Sockets -> Nat]
           /\ wire' \in [Sockets -> SUBSET Requests]
           /\ replies' \in [Sockets -> SUBSET Requests]
           /\ served' \subseteq Requests
           /\ writes' \in [Requests -> Nat]
           /\ ws' \in Sockets \cup {NoSocket}
           /\ connectId' \in Sockets \cup {NoSocket}
           /\ connected' \in BOOLEAN /\ connecting' \in BOOLEAN /\ manualClose' \in BOOLEAN
           /\ opener' \in [Sockets -> Callers \cup {TimerCaller}]
<1>1. PICK s \in Sockets :
        /\ sock' = [sock EXCEPT ![s] = "connecting"]
        /\ ws' = s
        /\ connectId' = s
        /\ connecting' = TRUE
        /\ manualClose' = FALSE
        /\ opener' = [opener EXCEPT ![s] = c]
        /\ challenged' = challenged \ {s}
        /\ hs' = [hs EXCEPT ![s] = 0]
        /\ wire' = [wire EXCEPT ![s] = {}]
        /\ replies' = [replies EXCEPT ![s] = {}]
        /\ UNCHANGED <<served, writes, connected>>
  BY DEF OpenSocket
<1>2. sock' \in [Sockets -> SocketStates]
  BY <1>1 DEF TypeOK, SocketStates
<1>3. /\ hs' \in [Sockets -> Nat]
      /\ opener' \in [Sockets -> Callers \cup {TimerCaller}]
  BY <1>1 DEF TypeOK
<1>4. /\ wire' \in [Sockets -> SUBSET Requests]
      /\ replies' \in [Sockets -> SUBSET Requests]
  BY <1>1 DEF TypeOK
<1>. QED
  BY <1>1, <1>2, <1>3, <1>4 DEF TypeOK

LEMMA SendConnectType ==
    ASSUME TypeOK, SendConnect
    PROVE  hs' \in [Sockets -> Nat]
BY DEF TypeOK, SendConnect, Writable

LEMMA AnswerTakenType ==
    ASSUME TypeOK, NEW s \in Sockets, hs[s] > 0,
           hs' = [hs EXCEPT ![s] = @ - 1]
    PROVE  hs' \in [Sockets -> Nat]
<1>1. hs[s] \in Nat /\ hs[s] - 1 \in Nat
  BY DEF TypeOK
<1>. QED  BY <1>1 DEF TypeOK

LEMMA CloseHandlerType ==
    ASSUME TypeOK, NEW s \in Sockets, NEW also, CloseHandler(s, also)
    PROVE  TypeOK'
<1>1. sock' \in [Sockets -> SocketStates]
  BY DEF TypeOK, CloseHandler, SocketStates
<1>2. /\ pending' \subseteq Requests /\ recovery' \subseteq Requests
      /\ framed' \subseteq Requests /\ armed' \subseteq Requests
      /\ req' \in [Requests -> {"idle", "outstanding", "resolved", "rejected"}]
  BY SettleType
     DEF TypeOK, CloseHandler, StorePendingForRecovery, FailPendingRequests
<1>3. call' \in [Callers -> {"idle", "opening", "joined", "resolved", "rejected"}]
  BY SettleCallsType DEF CloseHandler
<1>4. reconnectAttempts' \in 0..AttemptCap /\ reconnectTimer' \in BOOLEAN
  BY ScheduleType DEF CloseHandler
<1>. QED
  BY <1>1, <1>2, <1>3, <1>4 DEF TypeOK, CloseHandler, netVars

LEMMA TypeInductive == TypeOK /\ [Next]_vars => TypeOK'
<1>. SUFFICES ASSUME TypeOK, [Next]_vars PROVE TypeOK'
  OBVIOUS
<1>1. ASSUME NEW c \in Callers, Connect(c) PROVE TypeOK'
  <2>1. CASE connected
    BY <1>1, <2>1 DEF Connect, TypeOK, netVars, linkVars, retryVars, waitVars, reqVars
  <2>2. CASE ~connected /\ connecting
    BY <1>1, <2>2 DEF Connect, TypeOK, netVars, linkVars, retryVars, waitVars, reqVars
  <2>3. CASE ~connected /\ ~connecting
    <3>1. OpenSocket(c)
      BY <1>1, <2>3 DEF Connect
    <3>. QED
      BY <1>1, <2>3, <3>1, OpenSocketType DEF Connect, TypeOK, retryVars, waitVars, reqVars
  <2>. QED  BY <2>1, <2>2, <2>3
<1>2. ASSUME ReconnectTimerFires PROVE TypeOK'
  <2>1. CASE connected \/ connecting
    BY <1>2, <2>1 DEF ReconnectTimerFires, TypeOK, netVars, linkVars, waitVars, reqVars
  <2>2. CASE ~connected /\ ~connecting
    <3>1. OpenSocket(TimerCaller)
      BY <1>2, <2>2 DEF ReconnectTimerFires
    <3>. QED
      BY <1>2, <3>1, OpenSocketType DEF ReconnectTimerFires, TypeOK, waitVars, reqVars
  <2>. QED  BY <2>1, <2>2
<1>3. ASSUME NEW r \in Requests, Send(r) PROVE TypeOK'
  BY <1>3 DEF Send, TypeOK, Writable, linkVars, retryVars, waitVars, callVars
<1>4. ASSUME Disconnect PROVE TypeOK'
  <2>1. sock' \in [Sockets -> SocketStates]
    BY <1>4 DEF Disconnect, TypeOK, SocketStates
  <2>2. /\ pending' \subseteq Requests /\ recovery' \subseteq Requests
        /\ framed' \subseteq Requests /\ armed' \subseteq Requests
        /\ req' \in [Requests -> {"idle", "outstanding", "resolved", "rejected"}]
    BY <1>4, SettleType DEF Disconnect, FailPendingRequests, TypeOK
  <2>. QED
    BY <1>4, <2>1, <2>2 DEF Disconnect, TypeOK, netVars, callVars
<1>5. ASSUME NEW s \in Sockets, SocketOpen(s) PROVE TypeOK'
  BY <1>5 DEF SocketOpen, TypeOK, SocketStates, netVars, linkVars, retryVars, reqVars, callVars
<1>6. ASSUME NEW s \in Sockets, SocketClose(s) \/ SocketFail(s) PROVE TypeOK'
  BY <1>6, CloseHandlerType DEF SocketClose, SocketFail
<1>7. ASSUME NEW s \in Sockets, SocketError(s) PROVE TypeOK'
  BY <1>7, SettleCallsType
     DEF SocketError, TypeOK, SocketStates, netVars, retryVars, reqVars
<1>8. ASSUME NEW s \in Sockets, PeerLeaves(s) PROVE TypeOK'
  BY <1>8 DEF PeerLeaves, TypeOK, SocketStates, netVars, linkVars, retryVars, waitVars,
              reqVars, callVars
<1>9. ASSUME NEW s \in Sockets, Challenge(s) PROVE TypeOK'
  <2>1. hs' \in [Sockets -> Nat] /\ challengeTimer' \in BOOLEAN
    BY <1>9, SendConnectType DEF Challenge, TypeOK
  <2>. QED
    BY <1>9, <2>1 DEF Challenge, TypeOK, linkVars, retryVars, reqVars, callVars
<1>10. ASSUME ChallengeTimeout PROVE TypeOK'
  <2>1. hs' \in [Sockets -> Nat]
    BY <1>10, SendConnectType DEF ChallengeTimeout
  <2>2. challengeTimer' \in BOOLEAN
    BY <1>10, Zenon DEF ChallengeTimeout, TypeOK
  <2>3. orphanTimers' \in Nat
    BY <1>10 DEF ChallengeTimeout, TypeOK
  <2>. QED
    BY <1>10, <2>1, <2>2, <2>3 DEF ChallengeTimeout, TypeOK, linkVars, retryVars, reqVars, callVars
<1>11. ASSUME NEW s \in Sockets, ConnectAccepted(s) PROVE TypeOK'
  <2>1. hs' \in [Sockets -> Nat]
    BY <1>11, AnswerTakenType DEF ConnectAccepted
  <2>2. CASE ~connected /\ connectId = s
    <3>1. /\ req' \in [Requests -> {"idle", "outstanding", "resolved", "rejected"}]
          /\ pending' \subseteq Requests /\ recovery' \subseteq Requests
          /\ framed' \subseteq Requests /\ armed' \subseteq Requests
          /\ wire' \in [Sockets -> SUBSET Requests]
          /\ writes' \in [Requests -> Nat]
      <4>. DEFINE resent == IF Writable THEN recovery \cap framed ELSE {}
      <4>1. RecoverPendingRequests
        BY <1>11, <2>2 DEF ConnectAccepted
      <4>2. resent \subseteq Requests
        BY DEF TypeOK
      <4>3. req' \in [Requests -> {"idle", "outstanding", "resolved", "rejected"}]
        BY <4>1, SettleType DEF RecoverPendingRequests
      <4>4. wire' \in [Sockets -> SUBSET Requests]
        BY <4>1, <4>2 DEF RecoverPendingRequests, TypeOK
      <4>5. writes' \in [Requests -> Nat]
        BY <4>1 DEF RecoverPendingRequests, TypeOK
      <4>. QED
        BY <4>1, <4>2, <4>3, <4>4, <4>5 DEF RecoverPendingRequests, TypeOK
    <3>2. call' \in [Callers -> {"idle", "opening", "joined", "resolved", "rejected"}]
      BY <1>11, <2>2, SettleCallsType DEF ConnectAccepted
    <3>3. reconnectAttempts' \in 0..AttemptCap
      BY <1>11, <2>2, AttemptAssumption DEF ConnectAccepted
    <3>. QED
      BY <1>11, <2>1, <2>2, <3>1, <3>2, <3>3 DEF ConnectAccepted, TypeOK
  <2>3. CASE ~(~connected /\ connectId = s)
    BY <1>11, <2>1, <2>3 DEF ConnectAccepted, TypeOK, reqVars
  <2>. QED  BY <2>2, <2>3
<1>12. ASSUME NEW s \in Sockets, ConnectRefused(s) PROVE TypeOK'
  <2>1. hs' \in [Sockets -> Nat]
    BY <1>12, AnswerTakenType DEF ConnectRefused
  <2>2. sock' \in [Sockets -> SocketStates]
    BY <1>12 DEF ConnectRefused, TypeOK, SocketStates
  <2>3. call' \in [Callers -> {"idle", "opening", "joined", "resolved", "rejected"}]
    BY <1>12, SettleCallsType DEF ConnectRefused, TypeOK
  <2>. QED
    BY <1>12, <2>1, <2>2, <2>3
       DEF ConnectRefused, TypeOK, linkVars, retryVars, waitVars, reqVars
<1>13. ASSUME NEW r \in Requests, NEW s \in Sockets, Reply(r, s) PROVE TypeOK'
  BY <1>13, SettleType
     DEF Reply, TypeOK, linkVars, retryVars, waitVars, callVars
<1>14. ASSUME NEW r \in Requests, RequestTimeout(r) PROVE TypeOK'
  BY <1>14, SettleType
     DEF RequestTimeout, TypeOK, netVars, linkVars, retryVars, waitVars, callVars
<1>15. ASSUME NEW r \in Requests, NEW s \in Sockets, Serve(r, s) PROVE TypeOK'
  BY <1>15 DEF Serve, TypeOK, linkVars, retryVars, waitVars, reqVars, callVars
<1>16. CASE UNCHANGED vars
  BY <1>16 DEF TypeOK, vars, netVars, linkVars, retryVars, waitVars, reqVars, callVars
<1>. QED
  BY <1>1, <1>2, <1>3, <1>4, <1>5, <1>6, <1>7, <1>8, <1>9, <1>10, <1>11, <1>12,
     <1>13, <1>14, <1>15, <1>16
     DEF Next, Internal, SocketEvent, RequestEvent

\* The fields of the manager keep their types in every behaviour of its public
\* interface (GatewayWsManager in lib/gateway-ws.js).
THEOREM TypeCorrect == Spec => []TypeOK
<1>1. Init => TypeOK
  <2>. SUFFICES ASSUME Init PROVE TypeOK
    OBVIOUS
  <2>1. /\ sock \in [Sockets -> SocketStates]
        /\ hs \in [Sockets -> Nat]
        /\ wire \in [Sockets -> SUBSET Requests]
        /\ replies \in [Sockets -> SUBSET Requests]
        /\ opener \in [Sockets -> Callers \cup {TimerCaller}]
    BY DEF Init, SocketStates
  <2>2. /\ writes \in [Requests -> Nat]
        /\ req \in [Requests -> {"idle", "outstanding", "resolved", "rejected"}]
        /\ call \in [Callers -> {"idle", "opening", "joined", "resolved", "rejected"}]
    BY DEF Init
  <2>3. reconnectAttempts \in 0..AttemptCap
    BY DEF Init
  <2>. QED
    BY <2>1, <2>2, <2>3 DEF Init, TypeOK
<1>. QED
  BY <1>1, TypeInductive, PTL DEF Spec

------------------------------------------------------------------------------
(* The request maps.  The three invariants are not inductive alone: a drop   *)
(* only keeps RecoveryOnlyOffline because nothing is pending while offline,  *)
(* and a resend only stays within its bound because an entry keeps its frame *)
(* until it is resent and never gets it back.                                *)

OfflineHoldsNothingPending == ~connected => pending = {}

FrameNotYetResent ==
    /\ framed \subseteq pending \cup recovery
    /\ \A r \in framed : writes[r] <= 1

IdleIsUnknown ==
    \A r \in Requests : req[r] = "idle" => writes[r] = 0 /\ r \notin pending \cup recovery

RequestInv ==
    /\ NoRequestLost
    /\ PendingIsTimed
    /\ RecoveryOnlyOffline
    /\ AtMostOneResend
    /\ OfflineHoldsNothingPending
    /\ FrameNotYetResent
    /\ IdleIsUnknown

\* A step that leaves the request maps, the link state and the write counts
\* alone keeps the invariant.
LEMMA RequestInvUntouched ==
    RequestInv /\ UNCHANGED <<reqVars, connected, writes>> => RequestInv'
BY DEF RequestInv, NoRequestLost, PendingIsTimed, RecoveryOnlyOffline, AtMostOneResend,
       OfflineHoldsNothingPending, FrameNotYetResent, IdleIsUnknown, reqVars

LEMMA SendKeepsRequestInv ==
    ASSUME TypeOK, RequestInv, NEW r \in Requests, Send(r)
    PROVE  RequestInv'
<1>1. req[r] = "idle" /\ writes[r] = 0 /\ r \notin pending \cup recovery
  BY DEF Send, RequestInv, IdleIsUnknown
<1>2. CASE ~connected
  <2>1. req' = [req EXCEPT ![r] = "rejected"]
        /\ UNCHANGED <<writes, pending, recovery, framed, armed, connected>>
    BY <1>2 DEF Send, linkVars
  <2>. QED
    BY <1>1, <2>1 DEF TypeOK, RequestInv, NoRequestLost, PendingIsTimed, RecoveryOnlyOffline,
       AtMostOneResend, OfflineHoldsNothingPending, FrameNotYetResent, IdleIsUnknown
<1>3. CASE connected
  <2>1. /\ pending' = pending \cup {r}
        /\ framed' = framed \cup {r}
        /\ armed' = armed \cup {r}
        /\ req'[r] \in {"rejected", "outstanding"}
        /\ \A q \in Requests : q # r => req'[q] = req[q] /\ writes'[q] = writes[q]
        /\ UNCHANGED <<recovery, connected>>
    BY <1>3 DEF Send, linkVars, TypeOK
  <2>2. writes'[r] \in {0, 1}
    BY <1>1, <1>3 DEF Send, TypeOK
  <2>3. recovery = {}
    BY <1>3 DEF RequestInv, RecoveryOnlyOffline
  <2>4. FrameNotYetResent' /\ AtMostOneResend' /\ IdleIsUnknown'
    BY <1>1, <2>1, <2>2
       DEF RequestInv, FrameNotYetResent, AtMostOneResend, IdleIsUnknown, TypeOK
  <2>. QED
    BY <1>1, <1>3, <2>1, <2>3, <2>4
       DEF RequestInv, NoRequestLost, PendingIsTimed, RecoveryOnlyOffline,
           OfflineHoldsNothingPending
<1>. QED  BY <1>2, <1>3

LEMMA FailKeepsRequestInv ==
    ASSUME TypeOK, RequestInv, FailPendingRequests, connected' = FALSE, UNCHANGED writes
    PROVE  RequestInv'
BY DEF TypeOK, FailPendingRequests, Settle, RequestInv, NoRequestLost, PendingIsTimed,
       RecoveryOnlyOffline, AtMostOneResend, OfflineHoldsNothingPending,
       FrameNotYetResent, IdleIsUnknown

LEMMA StoreKeepsRequestInv ==
    ASSUME TypeOK, RequestInv, connected, StorePendingForRecovery, connected' = FALSE,
           UNCHANGED writes
    PROVE  RequestInv'
BY DEF TypeOK, StorePendingForRecovery, RequestInv, NoRequestLost, PendingIsTimed,
       RecoveryOnlyOffline, AtMostOneResend, OfflineHoldsNothingPending,
       FrameNotYetResent, IdleIsUnknown

LEMMA CloseKeepsRequestInv ==
    ASSUME TypeOK, RequestInv, NEW s \in Sockets, NEW also, CloseHandler(s, also)
    PROVE  RequestInv'
<1>1. connected' = FALSE /\ UNCHANGED writes
  BY DEF CloseHandler, netVars
<1>2. CASE connected
  BY <1>1, <1>2, StoreKeepsRequestInv DEF CloseHandler
<1>3. CASE ~connected
  BY <1>1, <1>3, FailKeepsRequestInv DEF CloseHandler
<1>. QED  BY <1>2, <1>3

LEMMA RecoverKeepsRequestInv ==
    ASSUME TypeOK, RequestInv, ~connected, RecoverPendingRequests, connected' = TRUE
    PROVE  RequestInv'
<1>. DEFINE resent == IF Writable THEN recovery \cap framed ELSE {}
<1>1. pending = {}
  BY DEF RequestInv, OfflineHoldsNothingPending
<1>2. resent \subseteq recovery \cap framed
  OBVIOUS
<1>3. /\ req' = Settle(recovery \ resent, "rejected")
      /\ pending' = resent
      /\ recovery' = {}
      /\ armed' = (armed \ recovery) \cup resent
      /\ framed' = framed \ recovery
      /\ writes' = [r \in Requests |-> IF r \in resent THEN writes[r] + 1 ELSE writes[r]]
  BY <1>1 DEF RecoverPendingRequests
<1>. HIDE DEF resent
<1>4. NoRequestLost'
  BY <1>1, <1>3 DEF RequestInv, NoRequestLost, Settle, TypeOK
<1>5. PendingIsTimed' /\ RecoveryOnlyOffline' /\ OfflineHoldsNothingPending'
  BY <1>3 DEF PendingIsTimed, RecoveryOnlyOffline, OfflineHoldsNothingPending
<1>6. framed' = {}
  BY <1>1, <1>3 DEF RequestInv, FrameNotYetResent
<1>7. AtMostOneResend'
  BY <1>2, <1>3 DEF RequestInv, AtMostOneResend, FrameNotYetResent, TypeOK
<1>8. IdleIsUnknown'
  BY <1>2, <1>3 DEF RequestInv, IdleIsUnknown, Settle, TypeOK
<1>. QED
  BY <1>4, <1>5, <1>6, <1>7, <1>8 DEF RequestInv, FrameNotYetResent

LEMMA ReplyKeepsRequestInv ==
    ASSUME TypeOK, RequestInv, NEW r \in Requests, NEW s \in Sockets, Reply(r, s)
    PROVE  RequestInv'
<1>1. UNCHANGED <<recovery, connected, writes>>
  BY DEF Reply, linkVars
<1>2. CASE r \in pending
  <2>1. /\ \E o \in {"resolved", "rejected"} : req' = Settle({r}, o)
        /\ pending' = pending \ {r}
        /\ armed' = armed \ {r}
        /\ framed' = framed \ {r}
    BY <1>2 DEF Reply
  <2>. QED
    BY <1>1, <1>2, <2>1
       DEF TypeOK, Settle, RequestInv, NoRequestLost, PendingIsTimed, RecoveryOnlyOffline,
           AtMostOneResend, OfflineHoldsNothingPending, FrameNotYetResent, IdleIsUnknown
<1>3. CASE r \notin pending
  BY <1>1, <1>3, RequestInvUntouched DEF Reply, reqVars
<1>. QED  BY <1>2, <1>3

LEMMA TimeoutKeepsRequestInv ==
    ASSUME TypeOK, RequestInv, NEW r \in Requests, RequestTimeout(r)
    PROVE  RequestInv'
<1>1. UNCHANGED <<recovery, connected, writes>>
  BY DEF RequestTimeout, linkVars, netVars
<1>2. /\ armed' = armed \ {r}
      /\ pending' = pending \ {r}
      /\ framed' = framed \ (pending \cap {r})
      /\ req' = Settle(pending \cap {r}, "rejected")
  BY DEF RequestTimeout
<1>. QED
  BY <1>1, <1>2
     DEF TypeOK, Settle, RequestInv, NoRequestLost, PendingIsTimed, RecoveryOnlyOffline,
         AtMostOneResend, OfflineHoldsNothingPending, FrameNotYetResent, IdleIsUnknown

LEMMA RequestInvInductive == TypeOK /\ RequestInv /\ [Next]_vars => RequestInv'
<1>. SUFFICES ASSUME TypeOK, RequestInv, [Next]_vars PROVE RequestInv'
  OBVIOUS
<1>1. ASSUME NEW c \in Callers, Connect(c) PROVE RequestInv'
  BY <1>1, RequestInvUntouched DEF Connect, OpenSocket, netVars, linkVars
<1>2. ASSUME ReconnectTimerFires PROVE RequestInv'
  BY <1>2, RequestInvUntouched DEF ReconnectTimerFires, OpenSocket, netVars, linkVars
<1>3. ASSUME Disconnect PROVE RequestInv'
  BY <1>3, FailKeepsRequestInv DEF Disconnect, netVars
<1>4. ASSUME NEW s \in Sockets, SocketOpen(s) \/ PeerLeaves(s) PROVE RequestInv'
  BY <1>4, RequestInvUntouched DEF SocketOpen, PeerLeaves, netVars, linkVars
<1>5. ASSUME NEW s \in Sockets, SocketClose(s) \/ SocketFail(s) PROVE RequestInv'
  BY <1>5, CloseKeepsRequestInv DEF SocketClose, SocketFail
<1>6. ASSUME NEW s \in Sockets, SocketError(s) PROVE RequestInv'
  BY <1>6, RequestInvUntouched DEF SocketError, netVars
<1>7. ASSUME NEW s \in Sockets, Challenge(s) \/ ConnectRefused(s) PROVE RequestInv'
  BY <1>7, RequestInvUntouched DEF Challenge, ConnectRefused, linkVars
<1>8. ASSUME ChallengeTimeout PROVE RequestInv'
  BY <1>8, RequestInvUntouched DEF ChallengeTimeout, linkVars
<1>9. ASSUME NEW s \in Sockets, ConnectAccepted(s) PROVE RequestInv'
  <2>1. CASE ~connected /\ connectId = s
    BY <1>9, <2>1, RecoverKeepsRequestInv DEF ConnectAccepted
  <2>2. CASE ~(~connected /\ connectId = s)
    BY <1>9, <2>2, RequestInvUntouched DEF ConnectAccepted
  <2>. QED  BY <2>1, <2>2
<1>10. ASSUME NEW r \in Requests, RequestEvent(r) PROVE RequestInv'
  <2>1. ASSUME NEW s \in Sockets, Serve(r, s) PROVE RequestInv'
    BY <2>1, RequestInvUntouched DEF Serve, linkVars
  <2>. QED
    BY <1>10, <2>1, SendKeepsRequestInv, ReplyKeepsRequestInv, TimeoutKeepsRequestInv
       DEF RequestEvent
<1>11. CASE UNCHANGED vars
  BY <1>11, RequestInvUntouched DEF vars, netVars, linkVars
<1>. QED
  BY <1>1, <1>2, <1>3, <1>4, <1>5, <1>6, <1>7, <1>8, <1>9, <1>10, <1>11
     DEF Next, Internal, SocketEvent

LEMMA RequestInvariant == Spec => []RequestInv
<1>1. Init => RequestInv
  BY DEF Init, RequestInv, NoRequestLost, PendingIsTimed, RecoveryOnlyOffline,
         AtMostOneResend, OfflineHoldsNothingPending, FrameNotYetResent, IdleIsUnknown
<1>. QED
  BY <1>1, RequestInvInductive, TypeCorrect, PTL DEF Spec

\* send(): a request whose promise is open is always in one of the two maps of
\* GatewayWsManager, whatever happens to its sockets.
THEOREM NoRequestIsLost == Spec => []NoRequestLost
<1>1. RequestInv => NoRequestLost
  BY DEF RequestInv
<1>. QED  BY <1>1, RequestInvariant, PTL

\* send() and _recoverPendingRequests: every pending entry has a running timeout.
THEOREM EveryPendingRequestIsTimed == Spec => []PendingIsTimed
<1>1. RequestInv => PendingIsTimed
  BY DEF RequestInv
<1>. QED  BY <1>1, RequestInvariant, PTL

\* _storePendingForRecovery never overwrites requests that wait to be resent.
THEOREM RecoveryIsOffline == Spec => []RecoveryOnlyOffline
<1>1. RequestInv => RecoveryOnlyOffline
  BY DEF RequestInv
<1>. QED  BY <1>1, RequestInvariant, PTL

\* A request frame is written at most twice, however often the socket drops.
THEOREM ResendBound == Spec => []AtMostOneResend
<1>1. RequestInv => AtMostOneResend
  BY DEF RequestInv
<1>. QED  BY <1>1, RequestInvariant, PTL

------------------------------------------------------------------------------
(* The connection.  A manager that is connecting always has a socket whose    *)
(* close event is still to come; with that, NeverStranded is inductive.       *)

SomeSocketLive == \E s \in Sockets : sock[s] # "closed"

ConnectingHasSocket == connecting => SomeSocketLive

LinkInv == NeverStranded /\ ConnectingHasSocket /\ OpenersAnswered

\* A step that creates a socket.
LEMMA OpenSocketLive ==
    ASSUME TypeOK, NEW c \in Callers \cup {TimerCaller}, OpenSocket(c)
    PROVE  /\ SomeSocketLive'
           /\ \E s \in Sockets : sock'[s] # "closed" /\ opener'[s] = c
           /\ \A t \in Sockets : sock[t] # "closed" =>
                 sock'[t] # "closed" /\ opener'[t] = opener[t]
<1>1. PICK s \in Sockets :
        /\ sock[s] = "closed"
        /\ sock' = [sock EXCEPT ![s] = "connecting"]
        /\ opener' = [opener EXCEPT ![s] = c]
  BY DEF OpenSocket
<1>2. sock'[s] = "connecting" /\ opener'[s] = c
  BY <1>1 DEF TypeOK
<1>3. \A t \in Sockets : t # s => sock'[t] = sock[t] /\ opener'[t] = opener[t]
  BY <1>1 DEF TypeOK
<1>. QED
  BY <1>1, <1>2, <1>3 DEF SomeSocketLive

\* A step that creates no socket and lets none go keeps the invariant if the
\* manager's own fields do not change either.
LEMMA LinkInvUntouched ==
    ASSUME LinkInv,
           UNCHANGED <<connectId, connected, manualClose, reconnectTimer, opener>>,
           connecting' => connecting,
           reconnectAttempts' = reconnectAttempts,
           \A s \in Sockets : sock[s] # "closed" => sock'[s] # "closed",
           \A c \in Callers : call'[c] = "opening" => call[c] = "opening"
    PROVE  LinkInv'
<1>1. Exhausted' <=> Exhausted
  BY DEF Exhausted
<1>2. SomeSocketLive => SomeSocketLive'
  BY DEF SomeSocketLive
<1>3. NeverStranded'
  BY <1>1, <1>2 DEF LinkInv, NeverStranded, SomeSocketLive
<1>4. ConnectingHasSocket'
  BY <1>2 DEF LinkInv, ConnectingHasSocket
<1>5. OpenersAnswered'
  BY DEF LinkInv, OpenersAnswered
<1>. QED  BY <1>3, <1>4, <1>5 DEF LinkInv

LEMMA CloseKeepsLinkInv ==
    ASSUME TypeOK, LinkInv, NEW s \in Sockets, NEW also, CloseHandler(s, also)
    PROVE  LinkInv'
<1>1. /\ sock' = [sock EXCEPT ![s] = "closed"]
      /\ connecting' = FALSE
      /\ ScheduleReconnect
      /\ UNCHANGED <<connectId, manualClose, opener>>
  BY DEF CloseHandler
<1>2. ~manualClose => reconnectTimer' \/ Exhausted'
  <2>1. CASE manualClose \/ reconnectTimer
    BY <1>1, <2>1 DEF ScheduleReconnect, retryVars
  <2>2. CASE ~(manualClose \/ reconnectTimer)
    <3>. DEFINE n == IF reconnectAttempts < AttemptCap THEN reconnectAttempts + 1
                                                        ELSE AttemptCap
    <3>1. /\ reconnectAttempts' = n
          /\ reconnectTimer' = (MaxReconnectAttempts = 0 \/ n <= MaxReconnectAttempts)
      BY <1>1, <2>2 DEF ScheduleReconnect
    <3>2. n \in Nat
      BY AttemptAssumption DEF TypeOK
    <3>3. CASE MaxReconnectAttempts = 0 \/ n <= MaxReconnectAttempts
      BY <3>1, <3>3
    <3>4. CASE ~(MaxReconnectAttempts = 0 \/ n <= MaxReconnectAttempts)
      <4>1. MaxReconnectAttempts > 0 /\ n > MaxReconnectAttempts
        BY <3>2, <3>4, AttemptAssumption
      <4>. QED  BY <3>1, <4>1 DEF Exhausted
    <3>. QED  BY <3>3, <3>4
  <2>. QED  BY <2>1, <2>2
<1>3. NeverStranded' /\ ConnectingHasSocket'
  BY <1>1, <1>2 DEF NeverStranded, ConnectingHasSocket
<1>4. OpenersAnswered'
  <2>1. call' = SettleCalls(also \cup Opening(s), "rejected")
    BY DEF CloseHandler
  <2>2. SUFFICES ASSUME NEW c \in Callers, call'[c] = "opening"
                 PROVE  \E t \in Sockets : opener'[t] = c /\ sock'[t] # "closed"
    BY DEF OpenersAnswered
  <2>3. c \notin Opening(s) /\ call[c] = "opening"
    BY <2>1, <2>2 DEF SettleCalls
  <2>4. PICK t \in Sockets : opener[t] = c /\ sock[t] # "closed"
    BY <2>3 DEF LinkInv, OpenersAnswered
  <2>5. t # s
    BY <2>3, <2>4 DEF Opening
  <2>. QED
    BY <1>1, <2>4, <2>5 DEF TypeOK
<1>. QED  BY <1>3, <1>4 DEF LinkInv

LEMMA LinkInvInductive == TypeOK /\ LinkInv /\ [Next]_vars => LinkInv'
<1>. SUFFICES ASSUME TypeOK, LinkInv, [Next]_vars PROVE LinkInv'
  OBVIOUS
<1>1. ASSUME NEW c \in Callers, Connect(c) PROVE LinkInv'
  <2>1. CASE connected \/ connecting
    <3>1. \A d \in Callers : call'[d] = "opening" => call[d] = "opening"
      BY <1>1, <2>1 DEF Connect, TypeOK
    <3>. QED
      BY <1>1, <2>1, <3>1, LinkInvUntouched DEF Connect, linkVars, retryVars
  <2>2. CASE ~(connected \/ connecting)
    <3>1. OpenSocket(c) /\ call' = [call EXCEPT ![c] = "opening"]
      BY <1>1, <2>2 DEF Connect
    <3>2. NeverStranded' /\ ConnectingHasSocket'
      BY <3>1, OpenSocketLive DEF NeverStranded, ConnectingHasSocket, SomeSocketLive
    <3>3. OpenersAnswered'
      <4>1. SUFFICES ASSUME NEW d \in Callers, call'[d] = "opening"
                     PROVE  \E t \in Sockets : opener'[t] = d /\ sock'[t] # "closed"
        BY DEF OpenersAnswered
      <4>2. CASE d = c
        BY <3>1, <4>2, OpenSocketLive
      <4>3. CASE d # c
        <5>1. call[d] = "opening"
          BY <3>1, <4>1, <4>3 DEF TypeOK
        <5>. QED
          BY <3>1, <5>1, OpenSocketLive DEF LinkInv, OpenersAnswered
      <4>. QED  BY <4>2, <4>3
    <3>. QED  BY <3>2, <3>3 DEF LinkInv
  <2>. QED  BY <2>1, <2>2
<1>2. ASSUME ReconnectTimerFires PROVE LinkInv'
  <2>1. CASE connected \/ connecting
    <3>1. UNCHANGED <<sock, connectId, connected, connecting, manualClose,
                      reconnectAttempts, call, opener>>
      BY <1>2, <2>1 DEF ReconnectTimerFires, linkVars
    <3>. QED
      BY <2>1, <3>1
         DEF LinkInv, NeverStranded, ConnectingHasSocket, SomeSocketLive, OpenersAnswered
  <2>2. CASE ~(connected \/ connecting)
    <3>1. OpenSocket(TimerCaller) /\ UNCHANGED call
      BY <1>2, <2>2 DEF ReconnectTimerFires
    <3>2. NeverStranded' /\ ConnectingHasSocket'
      BY <3>1, OpenSocketLive DEF NeverStranded, ConnectingHasSocket, SomeSocketLive
    <3>3. OpenersAnswered'
      BY <3>1, OpenSocketLive DEF LinkInv, OpenersAnswered
    <3>. QED  BY <3>2, <3>3 DEF LinkInv
  <2>. QED  BY <2>1, <2>2
<1>3. ASSUME Disconnect PROVE LinkInv'
  <2>1. manualClose' = TRUE /\ connecting' = FALSE /\ UNCHANGED <<call, opener>>
    BY <1>3 DEF Disconnect, callVars
  <2>2. \A s \in Sockets : sock[s] # "closed" => sock'[s] # "closed"
    BY <1>3 DEF Disconnect, TypeOK
  <2>. QED
    BY <2>1, <2>2 DEF LinkInv, NeverStranded, ConnectingHasSocket, OpenersAnswered
<1>4. ASSUME NEW s \in Sockets, SocketOpen(s) \/ PeerLeaves(s) PROVE LinkInv'
  <2>1. \A t \in Sockets : sock[t] # "closed" => sock'[t] # "closed"
    BY <1>4 DEF SocketOpen, PeerLeaves, TypeOK
  <2>. QED
    BY <1>4, <2>1, LinkInvUntouched DEF SocketOpen, PeerLeaves, linkVars, retryVars, callVars
<1>5. ASSUME NEW s \in Sockets, SocketClose(s) \/ SocketFail(s) PROVE LinkInv'
  BY <1>5, CloseKeepsLinkInv DEF SocketClose, SocketFail
<1>6. ASSUME NEW s \in Sockets, SocketError(s) PROVE LinkInv'
  <2>1. \A t \in Sockets : sock[t] # "closed" => sock'[t] # "closed"
    BY <1>6 DEF SocketError, TypeOK
  <2>2. \A c \in Callers : call'[c] = "opening" => call[c] = "opening"
    BY <1>6 DEF SocketError, SettleCalls
  <2>. QED
    BY <1>6, <2>1, <2>2, LinkInvUntouched DEF SocketError, retryVars
<1>7. ASSUME NEW s \in Sockets, Challenge(s) PROVE LinkInv'
  BY <1>7, LinkInvUntouched DEF Challenge, linkVars, retryVars, callVars
<1>8. ASSUME ChallengeTimeout PROVE LinkInv'
  BY <1>8, LinkInvUntouched DEF ChallengeTimeout, linkVars, retryVars, callVars
<1>9. ASSUME NEW s \in Sockets, ConnectAccepted(s) PROVE LinkInv'
  <2>1. CASE ~connected /\ connectId = s
    <3>1. /\ connected' = TRUE /\ connecting' = FALSE
          /\ UNCHANGED <<sock, opener>>
      BY <1>9, <2>1 DEF ConnectAccepted
    <3>2. \A c \in Callers : call'[c] = "opening" => call[c] = "opening"
      BY <1>9, <2>1 DEF ConnectAccepted, SettleCalls
    <3>. QED
      BY <3>1, <3>2 DEF LinkInv, NeverStranded, ConnectingHasSocket, OpenersAnswered
  <2>2. CASE ~(~connected /\ connectId = s)
    BY <1>9, <2>2, LinkInvUntouched DEF ConnectAccepted
  <2>. QED  BY <2>1, <2>2
<1>10. ASSUME NEW s \in Sockets, ConnectRefused(s) PROVE LinkInv'
  <2>1. \A t \in Sockets : sock[t] # "closed" => sock'[t] # "closed"
    BY <1>10 DEF ConnectRefused, TypeOK
  <2>2. \A c \in Callers : call'[c] = "opening" => call[c] = "opening"
    BY <1>10 DEF ConnectRefused, SettleCalls
  <2>. QED
    BY <1>10, <2>1, <2>2, LinkInvUntouched DEF ConnectRefused, linkVars, retryVars
<1>11. ASSUME NEW r \in Requests, RequestEvent(r) PROVE LinkInv'
  BY <1>11, LinkInvUntouched
     DEF RequestEvent, Send, RequestTimeout, Serve, Reply, linkVars, retryVars, callVars
<1>12. CASE UNCHANGED vars
  BY <1>12, LinkInvUntouched DEF vars, linkVars, retryVars, callVars
<1>. QED
  BY <1>1, <1>2, <1>3, <1>4, <1>5, <1>6, <1>7, <1>8, <1>9, <1>10, <1>11, <1>12
     DEF Next, Internal, SocketEvent

LEMMA LinkInvariant == Spec => []LinkInv
<1>1. Init => LinkInv
  BY DEF Init, LinkInv, NeverStranded, ConnectingHasSocket, OpenersAnswered
<1>. QED
  BY <1>1, LinkInvInductive, TypeCorrect, PTL DEF Spec

\* The close handler and the reconnect timer: no order of events leaves the
\* manager offline with neither a timer armed nor a close event to come.
THEOREM ManagerIsNeverStranded == Spec => []NeverStranded
<1>1. LinkInv => NeverStranded
  BY DEF LinkInv
<1>. QED  BY <1>1, LinkInvariant, PTL

\* connect(): the caller that opened a socket is answered before it is gone.
THEOREM OpenersAreAnswered == Spec => []OpenersAnswered
<1>1. LinkInv => OpenersAnswered
  BY DEF LinkInv
<1>. QED  BY <1>1, LinkInvariant, PTL

------------------------------------------------------------------------------
(* Refinement: GatewayWs implements RequestLedger.  Answers in flight belong  *)
(* to requests the gateway served, frames in flight to requests that were     *)
(* issued; the rest is one ledger step per handler.                           *)

LedgerInv ==
    /\ \A s \in Sockets : replies[s] \subseteq served
    /\ \A s \in Sockets : \A r \in wire[s] : req[r] # "idle"

LEMMA LedgerInvUntouched ==
    ASSUME LedgerInv,
           \A s \in Sockets : replies'[s] \subseteq replies[s] /\ wire'[s] \subseteq wire[s],
           served \subseteq served',
           \A s \in Sockets : \A r \in wire[s] : req'[r] = req[r] \/ req'[r] # "idle"
    PROVE  LedgerInv'
BY DEF LedgerInv

LEMMA OpenSocketNet ==
    ASSUME TypeOK, NEW c, OpenSocket(c)
    PROVE  /\ \A s \in Sockets : replies'[s] \subseteq replies[s] /\ wire'[s] \subseteq wire[s]
           /\ UNCHANGED served
BY DEF OpenSocket, TypeOK

\* Rejecting a set of requests that are not idle.
LEMMA SettleRejects ==
    ASSUME TypeOK, NEW S \in SUBSET Requests, req' = Settle(S, "rejected"), UNCHANGED served
    PROVE  /\ [Ledger!Next]_(Ledger!vars)
           /\ \A r \in Requests : req[r] # "idle" => req'[r] # "idle"
<1>. DEFINE T == {r \in S : req[r] = "outstanding"}
<1>1. Ledger!Reject(T)
  BY DEF Ledger!Reject, Settle
<1>. QED
  BY <1>1 DEF Ledger!Next, Settle

LEMMA LedgerStep ==
    TypeOK /\ RequestInv /\ LedgerInv /\ [Next]_vars
        => LedgerInv' /\ [Ledger!Next]_(Ledger!vars)
<1>. SUFFICES ASSUME TypeOK, RequestInv, LedgerInv, [Next]_vars
              PROVE  LedgerInv' /\ [Ledger!Next]_(Ledger!vars)
  OBVIOUS
<1>0. \A s \in Sockets : wire[s] \subseteq Requests
  BY DEF TypeOK
<1>1. ASSUME NEW c \in Callers, Connect(c)
      PROVE  LedgerInv' /\ [Ledger!Next]_(Ledger!vars)
  <2>1. UNCHANGED <<req, served>>
    BY <1>1, OpenSocketNet DEF Connect, reqVars, netVars
  <2>2. \A s \in Sockets : replies'[s] \subseteq replies[s] /\ wire'[s] \subseteq wire[s]
    BY <1>1, OpenSocketNet DEF Connect, netVars
  <2>. QED
    BY <2>1, <2>2, LedgerInvUntouched DEF Ledger!vars
<1>2. ASSUME ReconnectTimerFires
      PROVE  LedgerInv' /\ [Ledger!Next]_(Ledger!vars)
  <2>1. UNCHANGED <<req, served>>
    BY <1>2, OpenSocketNet DEF ReconnectTimerFires, reqVars, netVars
  <2>2. \A s \in Sockets : replies'[s] \subseteq replies[s] /\ wire'[s] \subseteq wire[s]
    BY <1>2, OpenSocketNet DEF ReconnectTimerFires, netVars
  <2>. QED
    BY <2>1, <2>2, LedgerInvUntouched DEF Ledger!vars
<1>3. ASSUME NEW r \in Requests, Send(r)
      PROVE  LedgerInv' /\ [Ledger!Next]_(Ledger!vars)
  <2>1. req[r] = "idle" /\ UNCHANGED <<replies, served>>
    BY <1>3 DEF Send
  <2>2. PICK o \in {"outstanding", "rejected"} : req' = [req EXCEPT ![r] = o]
    BY <1>3 DEF Send
  <2>3. Ledger!Next
    BY <2>1, <2>2 DEF Ledger!Next, Ledger!Issue
  <2>4. \A s \in Sockets : wire'[s] \subseteq wire[s] \cup {r}
    BY <1>3 DEF Send, TypeOK
  <2>5. \A q \in Requests : q = r \/ req[q] # "idle" => req'[q] # "idle"
    BY <2>2 DEF TypeOK
  <2>6. LedgerInv'
    BY <1>0, <2>1, <2>4, <2>5 DEF LedgerInv
  <2>. QED  BY <2>3, <2>6
<1>4. ASSUME Disconnect
      PROVE  LedgerInv' /\ [Ledger!Next]_(Ledger!vars)
  <2>1. req' = Settle(pending, "rejected") /\ UNCHANGED <<replies, wire, served>>
    BY <1>4 DEF Disconnect, FailPendingRequests, netVars
  <2>2. pending \in SUBSET Requests
    BY DEF TypeOK
  <2>. QED
    BY <1>0, <2>1, <2>2, SettleRejects, LedgerInvUntouched DEF LedgerInv
<1>5. ASSUME NEW s \in Sockets, SocketClose(s) \/ SocketFail(s)
      PROVE  LedgerInv' /\ [Ledger!Next]_(Ledger!vars)
  <2>1. PICK also : CloseHandler(s, also)
    BY <1>5 DEF SocketClose, SocketFail
  <2>2. UNCHANGED <<replies, wire, served>>
    BY <2>1 DEF CloseHandler, netVars
  <2>3. CASE connected
    <3>1. UNCHANGED req
      BY <2>1, <2>3 DEF CloseHandler, StorePendingForRecovery
    <3>. QED
      BY <2>2, <3>1, LedgerInvUntouched DEF Ledger!vars
  <2>4. CASE ~connected
    <3>1. req' = Settle(pending, "rejected")
      BY <2>1, <2>4 DEF CloseHandler, FailPendingRequests
    <3>2. pending \in SUBSET Requests
      BY DEF TypeOK
    <3>. QED
      BY <1>0, <2>2, <3>1, <3>2, SettleRejects, LedgerInvUntouched DEF LedgerInv
  <2>. QED  BY <2>3, <2>4
<1>6. ASSUME NEW s \in Sockets, ConnectAccepted(s)
      PROVE  LedgerInv' /\ [Ledger!Next]_(Ledger!vars)
  <2>1. UNCHANGED <<replies, served>>
    BY <1>6 DEF ConnectAccepted
  <2>2. CASE ~connected /\ connectId = s
    <3>. DEFINE resent == IF Writable THEN recovery \cap framed ELSE {}
    <3>1. RecoverPendingRequests
      BY <1>6, <2>2 DEF ConnectAccepted
    <3>2. /\ req' = Settle(recovery \ resent, "rejected")
          /\ \A t \in Sockets : wire'[t] \subseteq wire[t] \cup recovery
      BY <3>1 DEF RecoverPendingRequests
    <3>3. recovery \ resent \in SUBSET Requests /\ recovery \subseteq Requests
      BY DEF TypeOK
    <3>. HIDE DEF resent
    <3>4. /\ [Ledger!Next]_(Ledger!vars)
          /\ \A r \in Requests : req[r] # "idle" => req'[r] # "idle"
      BY <2>1, <3>2, <3>3, SettleRejects
    <3>5. \A r \in recovery : req[r] # "idle"
      BY <3>3 DEF RequestInv, IdleIsUnknown
    <3>. QED
      BY <1>0, <2>1, <3>2, <3>3, <3>4, <3>5 DEF LedgerInv
  <2>3. CASE ~(~connected /\ connectId = s)
    <3>1. UNCHANGED <<req, wire>>
      BY <1>6, <2>3 DEF ConnectAccepted, reqVars
    <3>. QED
      BY <2>1, <3>1, LedgerInvUntouched DEF Ledger!vars
  <2>. QED  BY <2>2, <2>3
<1>7. ASSUME NEW r \in Requests, NEW s \in Sockets, Reply(r, s)
      PROVE  LedgerInv' /\ [Ledger!Next]_(Ledger!vars)
  <2>1. /\ r \in replies[s] /\ UNCHANGED <<wire, served>>
        /\ \A t \in Sockets : replies'[t] \subseteq replies[t]
    BY <1>7 DEF Reply, TypeOK
  <2>2. \/ UNCHANGED req
        \/ req' = Settle({r}, "resolved") \/ req' = Settle({r}, "rejected")
    BY <1>7 DEF Reply
  <2>3. CASE UNCHANGED req
    BY <2>1, <2>3, LedgerInvUntouched DEF Ledger!vars
  <2>4. CASE req' = Settle({r}, "rejected")
    <3>1. {r} \in SUBSET Requests
      OBVIOUS
    <3>. QED
      BY <1>0, <2>1, <2>4, <3>1, SettleRejects, LedgerInvUntouched DEF LedgerInv
  <2>5. CASE req' = Settle({r}, "resolved")
    <3>1. r \in served
      BY <2>1 DEF LedgerInv
    <3>2. CASE req[r] = "outstanding"
      <4>1. req' = [req EXCEPT ![r] = "resolved"]
        BY <2>5, <3>2 DEF Settle, TypeOK
      <4>2. Ledger!Next
        BY <2>1, <3>1, <3>2, <4>1 DEF Ledger!Next, Ledger!Resolve
      <4>3. \A q \in Requests : req[q] # "idle" => req'[q] # "idle"
        BY <4>1 DEF TypeOK
      <4>. QED
        BY <1>0, <2>1, <4>2, <4>3, LedgerInvUntouched DEF LedgerInv
    <3>3. CASE req[r] # "outstanding"
      <4>1. UNCHANGED req
        BY <2>5, <3>3 DEF Settle, TypeOK
      <4>. QED
        BY <2>1, <4>1, LedgerInvUntouched DEF Ledger!vars
    <3>. QED  BY <3>2, <3>3
  <2>. QED  BY <2>2, <2>3, <2>4, <2>5
<1>8. ASSUME NEW r \in Requests, RequestTimeout(r)
      PROVE  LedgerInv' /\ [Ledger!Next]_(Ledger!vars)
  <2>1. /\ req' = Settle(pending \cap {r}, "rejected")
        /\ UNCHANGED <<replies, wire, served>>
    BY <1>8 DEF RequestTimeout, netVars
  <2>2. pending \cap {r} \in SUBSET Requests
    OBVIOUS
  <2>. QED
    BY <1>0, <2>1, <2>2, SettleRejects, LedgerInvUntouched DEF LedgerInv
<1>9. ASSUME NEW r \in Requests, NEW s \in Sockets, Serve(r, s)
      PROVE  LedgerInv' /\ [Ledger!Next]_(Ledger!vars)
  <2>1. /\ r \in wire[s]
        /\ served' = served \cup {r}
        /\ UNCHANGED req
        /\ \A t \in Sockets : wire'[t] \subseteq wire[t] /\ replies'[t] \subseteq replies[t] \cup {r}
    BY <1>9 DEF Serve, TypeOK, reqVars
  <2>2. Ledger!Next
    BY <2>1 DEF LedgerInv, Ledger!Next, Ledger!Serve
  <2>. QED
    BY <2>1, <2>2 DEF LedgerInv
<1>10. ASSUME NEW s \in Sockets,
              SocketOpen(s) \/ SocketError(s) \/ PeerLeaves(s) \/ Challenge(s) \/ ConnectRefused(s)
       PROVE  LedgerInv' /\ [Ledger!Next]_(Ledger!vars)
  <2>1. UNCHANGED <<req, wire, replies, served>>
    BY <1>10 DEF SocketOpen, SocketError, PeerLeaves, Challenge, ConnectRefused, netVars, reqVars
  <2>. QED
    BY <2>1, LedgerInvUntouched DEF Ledger!vars
<1>11. ASSUME ChallengeTimeout \/ UNCHANGED vars
       PROVE  LedgerInv' /\ [Ledger!Next]_(Ledger!vars)
  <2>1. UNCHANGED <<req, wire, replies, served>>
    BY <1>11 DEF ChallengeTimeout, vars, netVars, reqVars
  <2>. QED
    BY <2>1, LedgerInvUntouched DEF Ledger!vars
<1>. QED
  BY <1>1, <1>2, <1>3, <1>4, <1>5, <1>6, <1>7, <1>8, <1>9, <1>10, <1>11
     DEF Next, Internal, SocketEvent, RequestEvent

\* The manager implements the ledger: over any number of sockets, drops and
\* resends, the promise of send() settles once, and is fulfilled only by an answer
\* the gateway gave to that request.
THEOREM ManagerImplementsLedger == Spec => KeepsLedger
<1>1. Init => LedgerInv /\ Ledger!Init
  BY DEF Init, LedgerInv, Ledger!Init
<1>. QED
  BY <1>1, LedgerStep, TypeCorrect, RequestInvariant, PTL DEF Spec, KeepsLedger, Ledger!Spec

------------------------------------------------------------------------------
(* As server.js drives the manager: connect() once, then timers and events.   *)
(* A reconnect timer is armed only when every socket is gone, so there is     *)
(* never a second socket, and nothing that overlapping sockets do wrong can   *)
(* happen.                                                                    *)

AllClosed == \A s \in Sockets : sock[s] = "closed"

ServerInv ==
    /\ SingleSocket
    /\ ConnectedHasSocket
    /\ ws = connectId
    /\ reconnectTimer \/ connectId = NoSocket => AllClosed
    /\ reconnectTimer => connectId # NoSocket
    /\ \A s \in Sockets : sock[s] \notin {"closing", "aborting"}

\* server.js takes only steps of the public interface.
LEMMA ServerStepIsStep == [ServerNext]_vars => [Next]_vars
BY DEF ServerNext, Next

LEMMA ServerIsSpec == ServerSpec => Spec
BY ServerStepIsStep, PTL DEF ServerSpec, Spec

LEMMA OpenSocketSingle ==
    ASSUME TypeOK, ServerInv, AllClosed, ~connected, NEW c, OpenSocket(c),
           reconnectTimer' = FALSE
    PROVE  ServerInv'
<1>1. PICK s \in Sockets :
        /\ sock' = [sock EXCEPT ![s] = "connecting"]
        /\ ws' = s
        /\ connectId' = s
        /\ connected' = connected
  BY DEF OpenSocket
<1>2. \A t \in Sockets : sock'[t] = IF t = s THEN "connecting" ELSE "closed"
  BY <1>1 DEF TypeOK, AllClosed
<1>3. connectId' # NoSocket
  BY <1>1, SocketAssumption
<1>. QED
  BY <1>1, <1>2, <1>3 DEF ServerInv, SingleSocket, ConnectedHasSocket

LEMMA CloseKeepsServerInv ==
    ASSUME TypeOK, ServerInv, NEW s \in Sockets, sock[s] # "closed", NEW also,
           CloseHandler(s, also)
    PROVE  ServerInv'
<1>1. sock' = [sock EXCEPT ![s] = "closed"] /\ connected' = FALSE
      /\ UNCHANGED <<ws, connectId>>
  BY DEF CloseHandler
<1>2. \A t \in Sockets : t # s => sock[t] = "closed"
  BY DEF ServerInv, SingleSocket
<1>3. AllClosed'
  BY <1>1, <1>2 DEF TypeOK, AllClosed
<1>4. connectId # NoSocket
  BY SocketAssumption DEF ServerInv, SingleSocket
<1>. QED
  BY <1>1, <1>3, <1>4 DEF ServerInv, SingleSocket, ConnectedHasSocket, AllClosed

\* A step that changes the state of one live socket to another live state.
LEMMA MoveKeepsServerInv ==
    ASSUME TypeOK, ServerInv, NEW s \in Sockets, sock[s] # "closed",
           NEW e \in {"open", "refused", "bye", "dead"},
           sock' = [sock EXCEPT ![s] = e],
           UNCHANGED <<ws, connectId, connected, reconnectTimer>>
    PROVE  ServerInv'
<1>1. \A t \in Sockets : sock'[t] = IF t = s THEN e ELSE sock[t]
  BY DEF TypeOK
<1>2. ~AllClosed
  BY DEF AllClosed
<1>. QED
  BY <1>1, <1>2 DEF ServerInv, SingleSocket, ConnectedHasSocket, AllClosed

LEMMA ServerInvUntouched ==
    ServerInv /\ UNCHANGED <<sock, ws, connectId, connected, reconnectTimer>> => ServerInv'
BY DEF ServerInv, SingleSocket, ConnectedHasSocket, AllClosed

LEMMA ServerInvInductive == TypeOK /\ ServerInv /\ [ServerNext]_vars => ServerInv'
<1>. SUFFICES ASSUME TypeOK, ServerInv, [ServerNext]_vars PROVE ServerInv'
  OBVIOUS
<1>1. ASSUME NEW c \in Callers, connectId = NoSocket, Connect(c) PROVE ServerInv'
  <2>1. AllClosed /\ ~connected
    BY <1>1 DEF ServerInv, ConnectedHasSocket
  <2>2. CASE connecting
    BY <1>1, <2>1, <2>2, ServerInvUntouched DEF Connect, linkVars, retryVars
  <2>3. CASE ~connecting
    <3>1. OpenSocket(c) /\ UNCHANGED reconnectTimer
      BY <1>1, <2>1, <2>3 DEF Connect, retryVars
    <3>2. reconnectTimer = FALSE
      BY <1>1 DEF ServerInv, TypeOK
    <3>. QED
      BY <2>1, <3>1, <3>2, OpenSocketSingle
  <2>. QED  BY <2>2, <2>3
<1>2. ASSUME ReconnectTimerFires PROVE ServerInv'
  <2>1. AllClosed
    BY <1>2 DEF ReconnectTimerFires, ServerInv
  <2>2. ~connected
    BY <2>1 DEF ServerInv, ConnectedHasSocket, AllClosed, TypeOK
  <2>3. CASE connecting
    BY <1>2, <2>1, <2>3
       DEF ReconnectTimerFires, linkVars, ServerInv, SingleSocket, ConnectedHasSocket, AllClosed
  <2>4. CASE ~connecting
    BY <1>2, <2>1, <2>2, <2>4, OpenSocketSingle DEF ReconnectTimerFires
  <2>. QED  BY <2>3, <2>4
<1>3. ASSUME NEW s \in Sockets, SocketOpen(s) \/ SocketError(s) \/ PeerLeaves(s)
      PROVE  ServerInv'
  <2>1. /\ sock[s] # "closed"
        /\ \E e \in {"open", "refused", "bye", "dead"} : sock' = [sock EXCEPT ![s] = e]
        /\ UNCHANGED <<ws, connectId, connected, reconnectTimer>>
    BY <1>3 DEF SocketOpen, SocketError, PeerLeaves, linkVars, retryVars
  <2>. QED  BY <2>1, MoveKeepsServerInv
<1>4. ASSUME NEW s \in Sockets, SocketClose(s) \/ SocketFail(s) PROVE ServerInv'
  BY <1>4, CloseKeepsServerInv DEF SocketClose, SocketFail
<1>5. ASSUME NEW s \in Sockets, Challenge(s) PROVE ServerInv'
  BY <1>5, ServerInvUntouched DEF Challenge, linkVars, retryVars
<1>6. ASSUME ChallengeTimeout PROVE ServerInv'
  BY <1>6, ServerInvUntouched DEF ChallengeTimeout, linkVars, retryVars
<1>7. ASSUME NEW s \in Sockets, ConnectAccepted(s) PROVE ServerInv'
  <2>1. sock[s] \in {"open", "refused"} /\ s = ws
    BY <1>7 DEF ConnectAccepted, Receiving, ServerInv, SingleSocket
  <2>2. UNCHANGED <<sock, ws, connectId, reconnectTimer>>
    BY <1>7 DEF ConnectAccepted
  <2>. QED
    BY <2>1, <2>2, SocketAssumption
       DEF ServerInv, SingleSocket, ConnectedHasSocket, AllClosed
<1>8. ASSUME NEW s \in Sockets, ConnectRefused(s) PROVE ServerInv'
  <2>1. UNCHANGED <<ws, connectId, connected, reconnectTimer>>
    BY <1>8 DEF ConnectRefused, linkVars, retryVars
  <2>2. CASE sock' = sock
    BY <2>1, <2>2, ServerInvUntouched
  <2>3. CASE sock' # sock
    <3>1. ws \in Sockets /\ sock[ws] = "open" /\ sock' = [sock EXCEPT ![ws] = "refused"]
      BY <1>8, <2>3 DEF ConnectRefused, Writable, TypeOK
    <3>. QED
      BY <2>1, <3>1, MoveKeepsServerInv
  <2>. QED  BY <2>2, <2>3
<1>9. ASSUME NEW r \in Requests, RequestEvent(r) PROVE ServerInv'
  BY <1>9, ServerInvUntouched
     DEF RequestEvent, Send, RequestTimeout, Serve, Reply, linkVars, retryVars
<1>10. CASE UNCHANGED vars
  BY <1>10, ServerInvUntouched DEF vars, linkVars, retryVars
<1>. QED
  BY <1>1, <1>2, <1>3, <1>4, <1>5, <1>6, <1>7, <1>8, <1>9, <1>10
     DEF ServerNext, Internal, SocketEvent

LEMMA ServerInvariant == ServerSpec => [](TypeOK /\ ServerInv)
<1>1. Init => ServerInv
  BY DEF Init, ServerInv, SingleSocket, ConnectedHasSocket, AllClosed
<1>. QED
  BY <1>1, ServerInvInductive, ServerIsSpec, TypeCorrect, PTL DEF ServerSpec

\* As server.js drives the manager, there is never a socket beside this.ws.
THEOREM NeverASecondSocket == ServerSpec => []SingleSocket
<1>1. ServerInv => SingleSocket
  BY DEF ServerInv
<1>. QED  BY <1>1, ServerInvariant, PTL

\* isConnected() is true only while this.ws is a socket that opened and whose
\* close event has not come.
THEOREM ConnectedMeansSocket == ServerSpec => []ConnectedHasSocket
<1>1. ServerInv => ConnectedHasSocket
  BY DEF ServerInv
<1>. QED  BY <1>1, ServerInvariant, PTL

------------------------------------------------------------------------------
(* What the single socket buys *)

LEMMA LiveIsCurrent ==
    ASSUME ServerInv, NEW s \in Sockets, sock[s] # "closed"
    PROVE  s = ws /\ connectId = s
BY DEF ServerInv, SingleSocket

LEMMA HandshakeInductive ==
    TypeOK /\ ServerInv /\ HandshakeDriven /\ [ServerNext]_vars => HandshakeDriven'
<1>. SUFFICES ASSUME TypeOK, ServerInv, HandshakeDriven, [ServerNext]_vars,
                     Writable', connected' = FALSE
              PROVE  challengeTimer' \/ hs'[ws'] > 0
  BY ServerInvInductive, ServerStepIsStep, TypeInductive DEF HandshakeDriven, TypeOK
<1>1. ASSUME NEW c, OpenSocket(c) PROVE FALSE
  BY <1>1 DEF OpenSocket, Writable, TypeOK
<1>2. ASSUME UNCHANGED <<sock, hs, ws, connected, challengeTimer>>
      PROVE  challengeTimer' \/ hs'[ws'] > 0
  BY <1>2 DEF HandshakeDriven, Writable
<1>3. ASSUME NEW c \in Callers, Connect(c) PROVE challengeTimer' \/ hs'[ws'] > 0
  BY <1>1, <1>2, <1>3 DEF Connect, netVars, linkVars, waitVars
<1>4. ASSUME ReconnectTimerFires PROVE challengeTimer' \/ hs'[ws'] > 0
  BY <1>1, <1>2, <1>4 DEF ReconnectTimerFires, netVars, linkVars, waitVars
<1>5. ASSUME NEW s \in Sockets, SocketOpen(s) PROVE challengeTimer'
  BY <1>5 DEF SocketOpen
<1>6. ASSUME NEW s \in Sockets, SocketClose(s) \/ SocketFail(s) PROVE FALSE
  <2>1. sock[s] # "closed" /\ sock' = [sock EXCEPT ![s] = "closed"] /\ ws' = ws
    BY <1>6 DEF SocketClose, SocketFail, CloseHandler
  <2>. QED  BY <2>1, LiveIsCurrent DEF Writable, TypeOK
<1>7. ASSUME NEW s \in Sockets, SocketError(s) \/ PeerLeaves(s) PROVE FALSE
  <2>1. /\ sock[s] = "open" /\ ws' = ws
        /\ \E e \in {"bye", "dead"} : sock' = [sock EXCEPT ![s] = e]
    BY <1>7 DEF SocketError, PeerLeaves, linkVars
  <2>. QED  BY <2>1, LiveIsCurrent DEF Writable, TypeOK
<1>8. ASSUME SendConnect, UNCHANGED <<sock, ws>> PROVE hs'[ws'] > 0
  <2>1. Writable /\ ws \in Sockets
    BY <1>8 DEF Writable, TypeOK
  <2>2. hs'[ws] = hs[ws] + 1 /\ hs[ws] \in Nat
    BY <1>8, <2>1 DEF SendConnect, TypeOK
  <2>. QED  BY <1>8, <2>2
<1>9. ASSUME NEW s \in Sockets, Challenge(s) PROVE challengeTimer' \/ hs'[ws'] > 0
  BY <1>2, <1>8, <1>9 DEF Challenge, linkVars
<1>10. ASSUME ChallengeTimeout PROVE hs'[ws'] > 0
  BY <1>8, <1>10 DEF ChallengeTimeout, linkVars
<1>11. ASSUME NEW s \in Sockets, ConnectAccepted(s) PROVE FALSE
  <2>1. connectId = s
    BY <1>11, LiveIsCurrent DEF ConnectAccepted, Receiving
  <2>. QED  BY <1>11, <2>1 DEF ConnectAccepted
<1>12. ASSUME NEW s \in Sockets, ConnectRefused(s) PROVE FALSE
  <2>1. connectId = s /\ ws = s /\ ws' = ws /\ connected' = connected
    BY <1>12, LiveIsCurrent DEF ConnectRefused, Receiving, linkVars
  <2>. QED  BY <1>12, <2>1 DEF ConnectRefused, Writable, TypeOK
<1>13. ASSUME NEW r \in Requests, RequestEvent(r) PROVE challengeTimer' \/ hs'[ws'] > 0
  BY <1>2, <1>13
     DEF RequestEvent, Send, RequestTimeout, Serve, Reply, netVars, linkVars, waitVars
<1>14. CASE UNCHANGED vars
  BY <1>2, <1>14 DEF vars, netVars, linkVars, waitVars
<1>. QED
  BY <1>3, <1>4, <1>5, <1>6, <1>7, <1>9, <1>10, <1>11, <1>12, <1>13, <1>14
     DEF ServerNext, Internal, SocketEvent

\* The handshake on an open socket never waits for nothing: the wait for the
\* challenge runs, or a connect frame waits for its answer.
THEOREM HandshakeNeverStalls == ServerSpec => []HandshakeDriven
<1>1. Init => HandshakeDriven
  BY DEF Init, HandshakeDriven, Writable
<1>. QED
  BY <1>1, HandshakeInductive, ServerInvariant, PTL DEF ServerSpec

LEMMA ForgottenInductive ==
    TypeOK /\ RequestInv /\ ServerInv /\ SettledIsForgotten /\ [ServerNext]_vars
        => SettledIsForgotten'
<1>. SUFFICES ASSUME TypeOK, RequestInv, ServerInv, SettledIsForgotten, [ServerNext]_vars
              PROVE  SettledIsForgotten'
  OBVIOUS
<1>. USE DEF SettledIsForgotten
<1>1. ASSUME UNCHANGED <<pending, recovery, req>> PROVE SettledIsForgotten'
  BY <1>1
<1>2. \A r \in pending : recovery = {}
  BY DEF RequestInv, RecoveryOnlyOffline
<1>3. ASSUME NEW r \in Requests, Send(r) PROVE SettledIsForgotten'
  <2>1. CASE ~connected
    <3>1. UNCHANGED <<pending, recovery>> /\ req[r] = "idle"
          /\ req' = [req EXCEPT ![r] = "rejected"]
      BY <1>3, <2>1 DEF Send
    <3>. QED  BY <3>1 DEF TypeOK, RequestInv, IdleIsUnknown
  <2>2. CASE connected
    <3>1. ws # NoSocket /\ sock[ws] # "connecting"
      BY <2>2 DEF ServerInv, ConnectedHasSocket
    <3>2. /\ pending' = pending \cup {r} /\ UNCHANGED recovery
          /\ req' = [req EXCEPT ![r] = "outstanding"]
      BY <1>3, <2>2, <3>1 DEF Send
    <3>. QED  BY <3>2 DEF TypeOK
  <2>. QED  BY <2>1, <2>2
<1>4. ASSUME NEW s \in Sockets, SocketClose(s) \/ SocketFail(s) PROVE SettledIsForgotten'
  <2>1. StorePendingForRecovery \/ FailPendingRequests
    BY <1>4 DEF SocketClose, SocketFail, CloseHandler
  <2>2. CASE StorePendingForRecovery
    BY <2>2 DEF StorePendingForRecovery
  <2>3. CASE FailPendingRequests
    <3>1. pending' = {} /\ UNCHANGED recovery /\ req' = Settle(pending, "rejected")
      BY <2>3 DEF FailPendingRequests
    <3>. QED  BY <1>2, <3>1 DEF Settle, TypeOK
  <2>. QED  BY <2>1, <2>2, <2>3
<1>5. ASSUME NEW s \in Sockets, ConnectAccepted(s) PROVE SettledIsForgotten'
  <2>1. CASE RecoverPendingRequests
    <3>1. PICK S : S \subseteq recovery /\ pending' = pending \cup S /\ recovery' = {}
                   /\ req' = Settle(recovery \ S, "rejected")
      BY <2>1 DEF RecoverPendingRequests
    <3>2. \A r \in pending : r \notin recovery
      BY <1>2
    <3>. QED  BY <3>1, <3>2 DEF Settle, TypeOK
  <2>. QED  BY <1>1, <1>5, <2>1 DEF ConnectAccepted, reqVars
<1>6. ASSUME NEW r \in Requests, NEW s \in Sockets, Reply(r, s) PROVE SettledIsForgotten'
  <2>1. CASE r \in pending
    <3>1. pending' = pending \ {r} /\ UNCHANGED recovery
          /\ \E o \in {"resolved", "rejected"} : req' = Settle({r}, o)
      BY <1>6, <2>1 DEF Reply
    <3>. QED  BY <1>2, <2>1, <3>1 DEF Settle, TypeOK
  <2>. QED  BY <1>1, <1>6, <2>1 DEF Reply
<1>7. ASSUME NEW r \in Requests, RequestTimeout(r) PROVE SettledIsForgotten'
  <2>1. pending' = pending \ {r} /\ UNCHANGED recovery
        /\ req' = Settle(pending \cap {r}, "rejected")
    BY <1>7 DEF RequestTimeout
  <2>. QED  BY <1>2, <2>1 DEF Settle, TypeOK
<1>8. ASSUME NEW r \in Requests, NEW s \in Sockets, Serve(r, s) PROVE SettledIsForgotten'
  BY <1>1, <1>8 DEF Serve, reqVars
<1>9. ASSUME NEW c \in Callers, Connect(c) PROVE SettledIsForgotten'
  BY <1>1, <1>9 DEF Connect, reqVars
<1>10. CASE ReconnectTimerFires \/ ChallengeTimeout
  BY <1>1, <1>10 DEF ReconnectTimerFires, ChallengeTimeout, reqVars
<1>11. ASSUME NEW s \in Sockets, SocketOpen(s) \/ SocketError(s) \/ PeerLeaves(s)
              \/ Challenge(s) \/ ConnectRefused(s)
       PROVE  SettledIsForgotten'
  BY <1>1, <1>11 DEF SocketOpen, SocketError, PeerLeaves, Challenge, ConnectRefused, reqVars
<1>12. CASE UNCHANGED vars
  BY <1>1, <1>12 DEF vars, reqVars
<1>. QED
  BY <1>3, <1>4, <1>5, <1>6, <1>7, <1>8, <1>9, <1>10, <1>11, <1>12
     DEF ServerNext, Internal, SocketEvent, RequestEvent

\* As server.js drives the manager, a settled request is in neither map, so
\* nothing resends, times out or answers it again.
THEOREM SettledRequestsAreForgotten == ServerSpec => []SettledIsForgotten
<1>1. Init => SettledIsForgotten
  BY DEF Init, SettledIsForgotten
<1>. QED
  BY <1>1, ForgottenInductive, RequestInvariant, ServerIsSpec, ServerInvariant, PTL
     DEF ServerSpec

------------------------------------------------------------------------------
(* What GET /api/health reports *)

\* Before the first connection was lost nothing waits for a reconnect.
HealthInv ==
    /\ ~manualClose
    /\ connectId = NoSocket => reconnectAttempts = 0
    /\ ~connected /\ reconnectAttempts = 0 => pending = {} /\ recovery = {}

\* The close of a socket counts as an attempt to reconnect.
LEMMA CloseCounts ==
    ASSUME TypeOK, ServerInv, ~manualClose, NEW s \in Sockets, sock[s] # "closed", NEW also,
           CloseHandler(s, also)
    PROVE  reconnectAttempts' # 0 /\ UNCHANGED manualClose
<1>1. ~reconnectTimer
  BY DEF ServerInv, AllClosed
<1>2. AttemptCap \in Nat /\ AttemptCap > 0 /\ reconnectAttempts \in 0..AttemptCap
  BY AttemptAssumption DEF TypeOK
<1>. QED
  BY <1>1, <1>2 DEF CloseHandler, ScheduleReconnect

LEMMA HealthInductive ==
    TypeOK /\ ServerInv /\ HealthInv /\ [ServerNext]_vars => HealthInv'
<1>. SUFFICES ASSUME TypeOK, ServerInv, HealthInv, [ServerNext]_vars PROVE HealthInv'
  OBVIOUS
<1>1. ASSUME UNCHANGED <<manualClose, connected, connectId, reconnectAttempts, pending, recovery>>
      PROVE  HealthInv'
  BY <1>1 DEF HealthInv
<1>2. ASSUME NEW c, OpenSocket(c), UNCHANGED <<reconnectAttempts, pending, recovery>> PROVE HealthInv'
  <2>1. connectId' # NoSocket
    BY <1>2, SocketAssumption DEF OpenSocket
  <2>. QED
    BY <1>2, <2>1 DEF OpenSocket, HealthInv
<1>3. ASSUME NEW c \in Callers, Connect(c) PROVE HealthInv'
  BY <1>1, <1>2, <1>3 DEF Connect, linkVars, retryVars, reqVars
<1>4. ASSUME ReconnectTimerFires PROVE HealthInv'
  BY <1>1, <1>2, <1>4 DEF ReconnectTimerFires, linkVars, reqVars
<1>5. ASSUME NEW s \in Sockets, SocketClose(s) \/ SocketFail(s) PROVE HealthInv'
  <2>1. PICK also : sock[s] # "closed" /\ CloseHandler(s, also)
    BY <1>5 DEF SocketClose, SocketFail
  <2>2. connectId # NoSocket
    BY <2>1, SocketAssumption DEF ServerInv, SingleSocket
  <2>. QED
    BY <2>1, <2>2, CloseCounts DEF HealthInv, CloseHandler
<1>6. ASSUME NEW s \in Sockets, ConnectAccepted(s) PROVE HealthInv'
  <2>1. CASE ~connected /\ connectId = s
    BY <1>6, <2>1 DEF ConnectAccepted, HealthInv
  <2>2. CASE ~(~connected /\ connectId = s)
    BY <1>1, <1>6, <2>2 DEF ConnectAccepted, reqVars
  <2>. QED
    BY <2>1, <2>2
<1>7. ASSUME NEW r \in Requests, RequestEvent(r) PROVE HealthInv'
  <2>1. UNCHANGED <<manualClose, connected, connectId, reconnectAttempts, recovery>>
    BY <1>7 DEF RequestEvent, Send, RequestTimeout, Serve, Reply, linkVars, retryVars, reqVars
  <2>2. CASE connected
    BY <2>1, <2>2 DEF HealthInv
  <2>3. CASE ~connected
    <3>1. pending' \subseteq pending
      BY <1>7, <2>3 DEF RequestEvent, Send, RequestTimeout, Serve, Reply, reqVars
    <3>2. recovery' = recovery /\ reconnectAttempts' = reconnectAttempts
      BY <2>1
    <3>. QED
      BY <2>1, <2>3, <3>1, <3>2 DEF HealthInv
  <2>. QED
    BY <2>2, <2>3
<1>8. ASSUME NEW s \in Sockets, SocketOpen(s) \/ SocketError(s) \/ PeerLeaves(s)
             \/ Challenge(s) \/ ConnectRefused(s)
      PROVE  HealthInv'
  BY <1>1, <1>8 DEF SocketOpen, SocketError, PeerLeaves, Challenge, ConnectRefused,
     linkVars, retryVars, reqVars
<1>9. CASE ChallengeTimeout
  BY <1>1, <1>9 DEF ChallengeTimeout, linkVars, retryVars, reqVars
<1>10. CASE UNCHANGED vars
  BY <1>1, <1>10 DEF vars, linkVars, retryVars, reqVars
<1>. QED
  BY <1>3, <1>4, <1>5, <1>6, <1>7, <1>8, <1>9, <1>10 DEF ServerNext, Internal, SocketEvent

\* The health endpoint never calls the connection healthy that is gone, nor
\* reconnecting when nothing will reconnect it (server.js:753-767).
THEOREM HealthTellsTheTruth == ServerSpec => []HealthIsTruthful
<1>1. Init => HealthInv
  BY DEF Init, HealthInv
<1>2. TypeOK /\ ServerInv /\ HealthInv /\ NeverStranded => HealthIsTruthful
  <2>. SUFFICES ASSUME TypeOK, ServerInv, HealthInv, NeverStranded PROVE HealthIsTruthful
    OBVIOUS
  <2>1. CASE connected
    BY <2>1 DEF RealtimeState, HealthIsTruthful, ServerInv, ConnectedHasSocket
  <2>2. CASE ~connected /\ reconnectAttempts > 0
    <3>1. connectId # NoSocket
      BY <2>2 DEF HealthInv
    <3>. QED
      BY <2>2, <3>1 DEF RealtimeState, HealthIsTruthful, HealthInv, NeverStranded
  <2>3. CASE ~connected /\ ~(reconnectAttempts > 0)
    <3>1. reconnectAttempts = 0 /\ ~Exhausted
      BY <2>3, AttemptAssumption DEF TypeOK, Exhausted
    <3>. QED
      BY <2>3, <3>1 DEF RealtimeState, HealthIsTruthful, HealthInv, NeverStranded
  <2>. QED
    BY <2>1, <2>2, <2>3
<1>. QED
  BY <1>1, <1>2, HealthInductive, ServerInvariant, ServerIsSpec, ManagerIsNeverStranded, PTL
     DEF ServerSpec
==============================================================================
