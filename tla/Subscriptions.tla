----------------------------- MODULE Subscriptions -----------------------------
(***************************************************************************)
(* What server.js and lib/gateway-session-subscriptions.js subscribe to at *)
(* the gateway: the first connect of the manager and the handlers it       *)
(* installs, the subscription to the list of sessions and to the messages  *)
(* of each session in use, its renewal at a reconnect and its pruning.     *)
(*                                                                         *)
(* The manager itself is module GatewayWs.  Here only what server.js sees  *)
(* of it is left: it is up or down, a send() in flight at a drop is sent   *)
(* again at the next reconnect, once, and rejected at the one after that.  *)
(* A step is what runs between two awaits, with the promise reactions it   *)
(* triggers.                                                               *)
(***************************************************************************)
EXTENDS Naturals, FiniteSets

CONSTANTS
    Keys,      \* session keys
    NoKey,     \* a call that subscribes to no session; also the topic "all"
    Tasks,     \* identities for running subscribe calls, reused
    NoTask

ASSUME NullAssumption == NoKey \notin Keys /\ NoTask \notin Tasks
ASSUME FiniteAssumption == IsFiniteSet(Keys) /\ IsFiniteSet(Tasks)

VARIABLES
    init,      \* the first connect() of initGatewayWsManager
    up,        \* gatewayWsManager.isConnected()
    sessionsActive, \* gatewaySessionsSubscriptionActive
    promise,   \* gatewaySessionsSubscriptionPromise, named after its call
    active,    \* activeGatewaySessionSubscriptions
    subs,      \* gatewaySessionSubscriptions
    idle,      \* the keys of subs last seen more than the idle time ago
    task,      \* the subscribe calls in progress
    gw,        \* topics the gateway has subscribed the connection to
    gaveUp     \* keys whose subscribe failed on this connection (history)

subVars == <<sessionsActive, promise, active, subs, idle, task, gw, gaveUp>>
linkVars == <<init, up>>
vars == <<linkVars, subVars>>

IdleTask == [st |-> "idle", key |-> NoKey, on |-> NoTask, frame |-> "none", again |-> FALSE]
Task == [st : {"idle", "all", "wait", "key"}, key : Keys \cup {NoKey},
         on : Tasks \cup {NoTask}, frame : {"none", "sent", "served", "stored"},
         again : BOOLEAN]

InFlight(t) == task[t].frame \in {"sent", "served"}
Free == {t \in Tasks : task[t].st = "idle"}

------------------------------------------------------------------------------
(* subscribeToGatewaySessions and subscribeToGatewaySession *)

\* What is left of a call for k once the sessions are subscribed to, or that
\* failed: done, or sessions.messages.subscribe in flight.
Going(k, subscribed) ==
    IF k = NoKey \/ k \in subscribed THEN IdleTask
    ELSE [IdleTask EXCEPT !.st = "key", !.key = k, !.frame = "sent"]

\* An identity for a new call.  They are interchangeable: any choice will do.
Fresh == CHOOSE t \in Free : TRUE

\* The start of call t: skip, share the pending promise, or make one.
Begin(t, k) ==
    /\ Free # {}
    /\ task' = [task EXCEPT ![t] =
          IF sessionsActive THEN Going(k, active)
          ELSE IF promise # NoTask
          THEN [IdleTask EXCEPT !.st = "wait", !.key = k, !.on = promise]
          ELSE [IdleTask EXCEPT !.st = "all", !.key = k, !.frame = "sent"]]
    /\ promise' = IF ~sessionsActive /\ promise = NoTask THEN t ELSE promise

\* The calls that wait for the promise of t, and t itself
Sharing(t) == {t} \cup {w \in Tasks : task[w].st = "wait" /\ task[w].on = t}

\* A route uses a session: send, send-stream or history
UseSession(k) ==
    /\ up
    /\ Begin(Fresh, k)
    /\ subs' = subs \cup {k}
    /\ idle' = idle \ {k}
    /\ UNCHANGED <<linkVars, sessionsActive, active, gw, gaveUp>>

\* GET /api/sessions
UseSessionList ==
    /\ up
    /\ Begin(Fresh, NoKey)
    /\ UNCHANGED <<linkVars, sessionsActive, active, subs, idle, gw, gaveUp>>

\* sessions.subscribe is answered, refused or timed out: the finally clears the
\* promise whoever it belongs to, and the calls sharing it go on.
AllEnds(t, ok) ==
    /\ task[t].st = "all"
    /\ sessionsActive' = (sessionsActive \/ ok)
    /\ promise' = NoTask
    /\ task' = [x \in Tasks |-> IF x \in Sharing(t) THEN Going(task[x].key, active)
                                                    ELSE task[x]]
    /\ UNCHANGED <<active, gaveUp>>

\* sessions.messages.subscribe is answered, refused or timed out.
KeyEnds(t, ok) ==
    /\ task[t].st = "key"
    /\ active' = IF ok THEN active \cup {task[t].key} ELSE active
    /\ gaveUp' = IF ok THEN gaveUp ELSE gaveUp \cup {task[t].key}
    /\ task' = [task EXCEPT ![t] = IdleTask]
    /\ UNCHANGED <<sessionsActive, promise>>

Ends(t, ok) ==
    /\ AllEnds(t, ok) \/ KeyEnds(t, ok)
    /\ UNCHANGED <<linkVars, subs, idle, gw>>

Acknowledged(t) == task[t].frame = "served" /\ Ends(t, TRUE)
Rejected(t) == InFlight(t) /\ Ends(t, FALSE)

\* The gateway subscribes the connection.
GatewaySubscribes(t) ==
    /\ task[t].frame = "sent"
    /\ task' = [task EXCEPT ![t].frame = "served"]
    /\ gw' = gw \cup {IF task[t].st = "all" THEN NoKey ELSE task[t].key}
    /\ UNCHANGED <<linkVars, sessionsActive, promise, active, subs, idle, gaveUp>>

------------------------------------------------------------------------------
(* Pruning *)

\* A key has not been seen for the idle time.
Age(k) ==
    /\ k \in subs \ idle
    /\ idle' = idle \cup {k}
    /\ UNCHANGED <<linkVars, sessionsActive, promise, active, subs, task, gw, gaveUp>>

\* The interval that prunes
Prune ==
    /\ idle # {}
    /\ subs' = subs \ idle
    /\ idle' = {}
    /\ active' = active \cap subs'
    /\ UNCHANGED <<linkVars, sessionsActive, promise, task, gw, gaveUp>>

------------------------------------------------------------------------------
(* The connection *)

\* Mutant of ForgetSubscriptions: the keys survive the connection.
ForgetOnlyFlag == sessionsActive' = FALSE /\ UNCHANGED active
\* What the 'close' and 'connected' handlers forget.
ForgetSubscriptions ==
    /\ sessionsActive' = FALSE
    /\ active' = {}

\* The first connect() succeeds and the handlers are installed.  They miss the
\* 'connected' event of this connection.
FirstConnect ==
    /\ init = "connecting"
    /\ init' = "ready"
    /\ up' = TRUE
    /\ UNCHANGED subVars

\* The first connect() fails: no handler is installed, now or later, while the
\* manager goes on reconnecting.
FirstFailure ==
    /\ init = "connecting"
    /\ init' = "failed"
    /\ UNCHANGED <<up, subVars>>

\* Bound: only with enough free identities for the calls of the reconnect.
Drop ==
    /\ up
    /\ Cardinality(Free) > Cardinality(subs)
    /\ up' = FALSE
    /\ gw' = {}
    /\ gaveUp' = {}
    /\ task' = [t \in Tasks |-> IF InFlight(t) THEN [task[t] EXCEPT !.frame = "stored"]
                                               ELSE task[t]]
    /\ IF init = "ready" THEN ForgetSubscriptions /\ promise' = NoTask
                         ELSE UNCHANGED <<sessionsActive, active, promise>>
    /\ UNCHANGED <<init, subs, idle>>

Stored(again) == {t \in Tasks : task[t].frame = "stored" /\ task[t].again = again}

\* Mutant of RejectedAtReconnect
RejectedAlone == Stored(TRUE)

\* The calls a second drop rejects, and the calls that share them
RejectedAtReconnect ==
    UNION {IF task[t].st = "all" THEN Sharing(t) ELSE {t} : t \in Stored(TRUE)}

\* What the reconnect makes of the calls from before it
Recovered(t) ==
    CASE t \in Stored(FALSE) -> [task[t] EXCEPT !.frame = "sent", !.again = TRUE]
      [] t \in RejectedAtReconnect ->
            IF task[t].st = "key" THEN IdleTask
            ELSE Going(task[t].key, IF init = "ready" THEN {} ELSE active)
      [] OTHER -> task[t]

\* Mutant of Resubscribed: the active keys, which the 'close' handler emptied
ResubscribedActive == active

\* The keys the 'connected' handler subscribes to again
Resubscribed == subs

\* The identities of the calls the 'connected' handler makes, and which is used
\* for what: any choice will do.
Assigned == CHOOSE f \in [Resubscribed \cup {NoKey} -> Free] :
                \A j, k \in DOMAIN f : f[j] = f[k] => j = k

\* The handler first subscribes to the sessions, then every key shares that
\* promise.  The reactions of the rejected calls run after it and clear the
\* promise it made.
Reconnect ==
    /\ ~up /\ init # "connecting"
    /\ up' = TRUE
    /\ IF init = "ready"
       THEN LET first == Assigned[NoKey]
                called == {Assigned[k] : k \in Resubscribed}
                keyOf == [t \in called |-> CHOOSE k \in Resubscribed : Assigned[k] = t]
            IN /\ ForgetSubscriptions
               /\ idle' = {}
               /\ promise' = IF \E t \in Stored(TRUE) : task[t].st = "all"
                             THEN NoTask ELSE first
               /\ task' = [t \in Tasks |->
                     IF t = first THEN [IdleTask EXCEPT !.st = "all", !.frame = "sent"]
                     ELSE IF t \in called
                     THEN [IdleTask EXCEPT !.st = "wait", !.key = keyOf[t], !.on = first]
                     ELSE Recovered(t)]
       ELSE /\ task' = [t \in Tasks |-> Recovered(t)]
            /\ promise' = IF \E t \in Stored(TRUE) : task[t].st = "all"
                          THEN NoTask ELSE promise
            /\ UNCHANGED <<sessionsActive, active, idle>>
    /\ gaveUp' = {task[t].key : t \in {x \in Stored(TRUE) : task[x].st = "key"}}
    /\ UNCHANGED <<init, subs, gw>>

------------------------------------------------------------------------------
Init ==
    /\ init = "connecting" /\ up = FALSE
    /\ sessionsActive = FALSE /\ promise = NoTask /\ active = {}
    /\ subs = {} /\ idle = {}
    /\ task = [t \in Tasks |-> IdleTask]
    /\ gw = {} /\ gaveUp = {}

\* What the routes ask for
RouteStep == UseSessionList \/ \E k \in Keys : UseSession(k)

\* What happens by itself
OwnStep ==
    \/ \E t \in Tasks : Acknowledged(t) \/ Rejected(t) \/ GatewaySubscribes(t)
    \/ \E k \in Keys : Age(k)
    \/ Prune \/ FirstConnect \/ FirstFailure \/ Drop \/ Reconnect

Next == RouteStep \/ OwnStep

Spec == Init /\ [][Next]_vars

\* Requests have a timeout (module GatewayWs: PendingIsTimed), and the gateway
\* comes back after an outage (GatewayWs: KeepsReconnecting).
Fairness ==
    /\ \A t \in Tasks : WF_vars(Rejected(t))
    /\ WF_vars(Reconnect)

FairSpec == Spec /\ Fairness

------------------------------------------------------------------------------
(* Properties *)

\* Every variable holds a value of its type.
TypeOK ==
    /\ init \in {"connecting", "ready", "failed"} /\ up \in BOOLEAN
    /\ sessionsActive \in BOOLEAN /\ promise \in Tasks \cup {NoTask}
    /\ active \subseteq Keys /\ subs \subseteq Keys /\ idle \subseteq subs
    /\ task \in [Tasks -> Task]
    /\ gw \subseteq Keys \cup {NoKey} /\ gaveUp \subseteq Keys

\* What the server believes to be subscribed to is subscribed to on this very
\* connection: a flag or key left over from an earlier one would make it skip a
\* subscription and miss every event (server.js:697-713, 715-728, 2085-2101).
BelievedIsSubscribed ==
    init = "ready" /\ up =>
        /\ sessionsActive => NoKey \in gw
        /\ active \subseteq gw

\* While connected, every session in use is subscribed to, about to be, or its
\* subscription has failed on this connection: no order of drops, reconnects,
\* prunes and late answers forgets one (server.js:682-728, 2085-2112).
NoSessionForgotten ==
    init = "ready" /\ up =>
        \A k \in subs : \/ k \in active \cup gaveUp
                        \/ \E t \in Tasks : task[t].st # "idle" /\ task[t].key = k

\* The pending promise, and whatever a call waits for, belongs to a
\* sessions.subscribe that still runs.  A finally may clear the promise of a
\* later call, but nobody is left waiting for a call that is over
\* (server.js:699-712).
WaitsForARunningCall ==
    /\ promise # NoTask => task[promise].st = "all"
    /\ \A t \in Tasks : task[t].st = "wait" => task[task[t].on].st = "all"

\* Every subscribe call ends, so the routes that await it answer, however often
\* the connection drops meanwhile (server.js:715-728, 1135, 1250).
EveryCallEnds ==
    \A t \in Tasks :
        task[t].st # "idle" ~> task[t].st = "idle"
===============================================================================
