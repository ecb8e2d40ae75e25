---------------------------- MODULE RealtimeProofs ----------------------------
(***************************************************************************)
(* The subscriptions, for any sessions and any number of subscribe calls,  *)
(* and the event streams, for any number of browsers.  The argument: a     *)
(* call is in flight only while the connection is up, what the gateway has *)
(* answered it has subscribed, a key of a session in use is active or      *)
(* carried by a call, and a dropped connection leaves enough identities    *)
(* for the calls of the reconnect to have one each.  While the process     *)
(* lives the streams and the shutdown leave all that alone, and a stream   *)
(* is open exactly when it is broadcast to.                                *)
(***************************************************************************)
EXTENDS Realtime, FunctionTheorems, FiniteSetTheorems, TLAPS

\* What the state of a call says about its other fields
WellFormed(x) ==
    /\ x.st \in {"all", "key"} <=> x.frame # "none"
    /\ x.st = "key" => x.key \in Keys
    /\ x.st = "wait" => x.on \in Tasks
    /\ x.st = "idle" => x.key = NoKey

CallsAreWellFormed == \A t \in Tasks : WellFormed(task[t])

\* Before the first connect nothing was asked for.
NothingBefore ==
    init = "connecting" =>
        /\ ~up /\ ~sessionsActive /\ active = {} /\ subs = {}
        /\ \A t \in Tasks : task[t].st = "idle"

\* Nothing is in flight on a connection that is down.
DownIsSilent == ~up => \A t \in Tasks : ~InFlight(t)

\* What the gateway has answered on this connection it has subscribed.
ServedIsSubscribed ==
    \A t \in Tasks : task[t].frame = "served" =>
        /\ task[t].st = "all" => NoKey \in gw
        /\ task[t].st = "key" => task[t].key \in gw

\* A reconnect finds an identity for each of its calls.
RoomForReconnect ==
    ~up /\ init = "ready" => Cardinality(Free) > Cardinality(subs)

CallInv == TypeOK /\ CallsAreWellFormed /\ WaitsForARunningCall /\ NothingBefore /\ DownIsSilent
                  /\ RoomForReconnect

IInv == CallInv /\ ServedIsSubscribed /\ BelievedIsSubscribed /\ NoSessionForgotten

------------------------------------------------------------------------------
(* Identities *)

\* A set that is no smaller can number another one.
LEMMA Numbering ==
    ASSUME NEW S, NEW T, IsFiniteSet(S), IsFiniteSet(T), Cardinality(S) <= Cardinality(T)
    PROVE  \E f \in [S -> T] : \A j, k \in DOMAIN f : f[j] = f[k] => j = k
<1>. DEFINE m == Cardinality(S)
            n == Cardinality(T)
<1>1. m \in Nat /\ n \in Nat /\ m <= n
  BY FS_CardinalityType
<1>2. ExistsInjection(S, 1..m)
  BY FS_CardinalityType, Fun_ExistsBijSymmetric DEF ExistsBijection, ExistsInjection, Bijection
<1>3. ExistsInjection(1..m, 1..n)
  <2>1. [i \in 1..m |-> i] \in Injection(1..m, 1..n)
    BY <1>1 DEF Injection, IsInjective
  <2>. QED
    BY <2>1 DEF ExistsInjection
<1>4. ExistsInjection(1..n, T)
  BY FS_CardinalityType DEF ExistsBijection, ExistsInjection, Bijection
<1>. HIDE DEF m, n
<1>5. ExistsInjection(S, T)
  BY <1>2, <1>3, <1>4, Fun_ExistsInjTransitive
<1>. QED
  BY <1>5 DEF ExistsInjection, Injection, IsInjective

LEMMA FreeIsFinite == IsFiniteSet(Free)
BY FiniteAssumption, FS_Subset DEF Free

LEMMA FreshIsFree == Free # {} => Fresh \in Free
BY DEF Fresh

\* The calls of a reconnect have an identity each.
LEMMA AssignedType ==
    ASSUME TypeOK, Cardinality(Free) > Cardinality(subs)
    PROVE  /\ Assigned \in [subs \cup {NoKey} -> Free]
           /\ \A j, k \in subs \cup {NoKey} : Assigned[j] = Assigned[k] => j = k
<1>1. IsFiniteSet(subs) /\ Cardinality(subs) \in Nat /\ Cardinality(Free) \in Nat
  BY FiniteAssumption, FreeIsFinite, FS_Subset, FS_CardinalityType DEF TypeOK
<1>2. IsFiniteSet(subs \cup {NoKey}) /\ Cardinality(subs \cup {NoKey}) <= Cardinality(Free)
  BY <1>1, FS_AddElement
<1>3. \E f \in [subs \cup {NoKey} -> Free] : \A j, k \in DOMAIN f : f[j] = f[k] => j = k
  BY <1>2, FreeIsFinite, Numbering
<1>4. /\ Assigned \in [subs \cup {NoKey} -> Free]
      /\ \A j, k \in DOMAIN Assigned : Assigned[j] = Assigned[k] => j = k
  BY <1>3 DEF Assigned, Resubscribed
<1>. QED
  BY <1>4

------------------------------------------------------------------------------
(* The states of a call *)

LEMMA CallTypes ==
    /\ IdleTask \in Task /\ WellFormed(IdleTask)
    /\ IdleTask.st = "idle" /\ IdleTask.frame = "none" /\ IdleTask.key = NoKey
BY DEF IdleTask, Task, WellFormed

\* A call that asks for the subscription to the sessions
LEMMA AskingTypes ==
    ASSUME NEW k \in Keys \cup {NoKey}
    PROVE  LET all == [IdleTask EXCEPT !.st = "all", !.key = k, !.frame = "sent"]
           IN  /\ all \in Task /\ WellFormed(all)
               /\ all.st = "all" /\ all.key = k /\ all.frame = "sent"
BY DEF IdleTask, Task, WellFormed

LEMMA FirstTypes ==
    LET all == [IdleTask EXCEPT !.st = "all", !.frame = "sent"]
    IN  /\ all \in Task /\ WellFormed(all)
        /\ all.st = "all" /\ all.key = NoKey /\ all.frame = "sent"
BY DEF IdleTask, Task, WellFormed

LEMMA GoingTypes ==
    ASSUME NEW k \in Keys \cup {NoKey}, NEW subscribed
    PROVE  LET x == Going(k, subscribed)
           IN  /\ x \in Task /\ WellFormed(x)
               /\ x.st \in {"idle", "key"} /\ x.frame \in {"none", "sent"}
               /\ k \in Keys \ subscribed => x.st = "key" /\ x.key = k
<1>1. CASE k = NoKey \/ k \in subscribed
  BY <1>1, CallTypes, NullAssumption DEF Going
<1>2. CASE ~(k = NoKey \/ k \in subscribed)
  BY <1>2 DEF Going, IdleTask, Task, WellFormed
<1>. QED
  BY <1>1, <1>2

\* The frame of a call is served, stored or sent again.
LEMMA FrameTypes ==
    ASSUME NEW x \in Task, WellFormed(x), x.frame # "none", NEW f \in {"sent", "served", "stored"}
    PROVE  /\ LET y == [x EXCEPT !.frame = f]
              IN  /\ y \in Task /\ WellFormed(y)
                  /\ y.st = x.st /\ y.key = x.key /\ y.on = x.on /\ y.frame = f
           /\ LET y == [x EXCEPT !.frame = f, !.again = TRUE]
              IN  /\ y \in Task /\ WellFormed(y)
                  /\ y.st = x.st /\ y.key = x.key /\ y.on = x.on /\ y.frame = f
BY DEF Task, WellFormed
------------------------------------------------------------------------------
(* Routes: a call begins *)

LEMMA BeginEffect ==
    ASSUME IInv, NEW k \in Keys \cup {NoKey}, Begin(Fresh, k)
    PROVE  /\ Fresh \in Tasks /\ task[Fresh].st = "idle"
           /\ task' \in [Tasks -> Task] /\ CallsAreWellFormed'
           /\ \A t \in Tasks \ {Fresh} : task'[t] = task[t]
           /\ task'[Fresh].frame # "served"
           /\ promise' \in Tasks \cup {NoTask} /\ WaitsForARunningCall'
           /\ k \in Keys \ active => task'[Fresh].st # "idle" /\ task'[Fresh].key = k
<1>. DEFINE f == Fresh
            x == IF sessionsActive THEN Going(k, active)
                 ELSE IF promise # NoTask
                 THEN [IdleTask EXCEPT !.st = "wait", !.key = k, !.on = promise]
                 ELSE [IdleTask EXCEPT !.st = "all", !.key = k, !.frame = "sent"]
<1>0. TypeOK /\ CallsAreWellFormed /\ WaitsForARunningCall
  BY DEF IInv, CallInv
<1>1. f \in Tasks /\ task[f].st = "idle"
  BY FreshIsFree DEF Begin, Free
<1>2. /\ x \in Task /\ WellFormed(x) /\ x.frame # "served"
      /\ x.st = "wait" => promise # NoTask /\ x.on = promise
      /\ ~sessionsActive /\ promise = NoTask => x.st = "all"
      /\ k \in Keys \ active => x.st # "idle" /\ x.key = k
  <2>1. CASE sessionsActive
    BY <2>1, GoingTypes
  <2>2. CASE ~sessionsActive /\ promise # NoTask
    <3>1. promise \in Tasks
      BY <1>0, <2>2 DEF TypeOK
    <3>. DEFINE wait == [IdleTask EXCEPT !.st = "wait", !.key = k, !.on = promise]
    <3>2. /\ wait \in Task /\ WellFormed(wait)
          /\ wait.st = "wait" /\ wait.key = k /\ wait.on = promise /\ wait.frame = "none"
      BY <3>1 DEF IdleTask, Task, WellFormed
    <3>3. x = wait
      BY <2>2
    <3>. HIDE DEF wait, x
    <3>. QED
      BY <2>2, <3>2, <3>3
  <2>3. CASE ~sessionsActive /\ promise = NoTask
    BY <1>1, <2>3, AskingTypes
  <2>. QED
    BY <2>1, <2>2, <2>3
<1>3. task' = [task EXCEPT ![f] = x]
  BY DEF Begin
<1>4. promise' = IF ~sessionsActive /\ promise = NoTask THEN f ELSE promise
  BY DEF Begin
<1>. HIDE DEF x, f
<1>5. /\ task' \in [Tasks -> Task] /\ task'[f] = x
      /\ \A t \in Tasks \ {f} : task'[t] = task[t]
  BY <1>0, <1>1, <1>2, <1>3 DEF TypeOK
<1>6. CallsAreWellFormed'
  BY <1>0, <1>2, <1>5 DEF CallsAreWellFormed, WellFormed
<1>7. promise' \in Tasks \cup {NoTask}
  BY <1>0, <1>1, <1>4 DEF TypeOK
<1>8. promise' # NoTask => task'[promise'].st = "all"
  BY <1>0, <1>1, <1>2, <1>4, <1>5 DEF WaitsForARunningCall, TypeOK
<1>9. ASSUME NEW t \in Tasks, task'[t].st = "wait" PROVE task'[task'[t].on].st = "all"
  <2>1. CASE t = f
    <3>1. promise # NoTask /\ task'[t].on = promise
      BY <1>2, <1>5, <1>9, <2>1
    <3>2. promise \in Tasks /\ task[promise].st = "all"
      BY <1>0, <3>1 DEF WaitsForARunningCall, TypeOK
    <3>3. task'[promise] = task[promise]
      BY <1>1, <1>5, <3>2
    <3>. QED
      BY <3>1, <3>2, <3>3
  <2>2. CASE t # f
    <3>1. task[t].st = "wait" /\ task'[t] = task[t] /\ task[t].on \in Tasks
      BY <1>0, <1>5, <1>9, <2>2 DEF CallsAreWellFormed, WellFormed
    <3>2. task[task[t].on].st = "all"
      BY <1>0, <3>1 DEF WaitsForARunningCall
    <3>. QED
      BY <1>1, <1>5, <3>1, <3>2
  <2>. QED
    BY <2>1, <2>2
<1>10. WaitsForARunningCall'
  BY <1>8, <1>9 DEF WaitsForARunningCall
<1>. QED
  BY <1>1, <1>2, <1>5, <1>6, <1>7, <1>10 DEF f

\* A route that uses session k, or the list of sessions
LEMMA RouteKeepsIInv ==
    ASSUME IInv, up, NEW k \in Keys \cup {NoKey}, Begin(Fresh, k),
           subs' = subs \cup ({k} \cap Keys), idle' \subseteq idle,
           UNCHANGED <<linkVars, sessionsActive, active, gw, gaveUp>>
    PROVE  IInv'
<1>0. TypeOK /\ ServedIsSubscribed /\ BelievedIsSubscribed /\ NoSessionForgotten
      /\ init # "connecting"
  BY DEF IInv, CallInv, NothingBefore
<1>. USE DEF linkVars
<1>1. TypeOK'
  BY <1>0, BeginEffect DEF TypeOK
<1>2. CallInv'
  BY <1>0, <1>1, BeginEffect DEF CallInv, NothingBefore, DownIsSilent, RoomForReconnect
<1>3. ServedIsSubscribed'
  BY <1>0, BeginEffect DEF ServedIsSubscribed
<1>4. BelievedIsSubscribed'
  BY <1>0 DEF BelievedIsSubscribed
<1>5. NoSessionForgotten'
  <2>1. ASSUME init = "ready", NEW j \in subs', j \notin active \cup gaveUp
        PROVE  \E t \in Tasks : task'[t].st # "idle" /\ task'[t].key = j
    <3>1. CASE j = k
      BY <2>1, <3>1, <1>0, BeginEffect DEF TypeOK
    <3>2. CASE j # k
      <4>1. PICK t \in Tasks : task[t].st # "idle" /\ task[t].key = j
        BY <1>0, <2>1, <3>2 DEF NoSessionForgotten
      <4>. QED
        BY <4>1, BeginEffect
    <3>. QED
      BY <3>1, <3>2
  <2>. QED
    BY <2>1 DEF NoSessionForgotten
<1>. QED
  BY <1>2, <1>3, <1>4, <1>5 DEF IInv

------------------------------------------------------------------------------
(* A call ends, or the gateway acts on it *)

\* Something is in flight only on a connection that is up.
LEMMA InFlightIsUp ==
    ASSUME IInv, NEW t \in Tasks, InFlight(t)
    PROVE  up /\ init # "connecting"
BY DEF IInv, CallInv, DownIsSilent, NothingBefore

LEMMA AllEndsKeepsIInv ==
    ASSUME IInv, NEW t \in Tasks, NEW ok \in BOOLEAN, InFlight(t), ok => task[t].frame = "served",
           AllEnds(t, ok), UNCHANGED <<linkVars, subs, idle, gw>>
    PROVE  IInv'
<1>0. /\ TypeOK /\ CallsAreWellFormed /\ WaitsForARunningCall
      /\ ServedIsSubscribed /\ BelievedIsSubscribed /\ NoSessionForgotten
  BY DEF IInv, CallInv
<1>1. up' /\ init' # "connecting"
  BY InFlightIsUp DEF linkVars
<1>2. /\ task' \in [Tasks -> Task] /\ CallsAreWellFormed'
      /\ \A x \in Sharing(t) : /\ task'[x].st \in {"idle", "key"}
                               /\ task'[x].frame \in {"none", "sent"}
                               /\ task[x].key \in Keys \ active =>
                                     task'[x].st = "key" /\ task'[x].key = task[x].key
      /\ \A x \in Tasks \ Sharing(t) : task'[x] = task[x]
  <2>1. task' = [x \in Tasks |-> IF x \in Sharing(t) THEN Going(task[x].key, active)
                                                    ELSE task[x]]
    BY DEF AllEnds
  <2>2. ASSUME NEW x \in Tasks PROVE task[x] \in Task /\ task[x].key \in Keys \cup {NoKey}
    BY <1>0 DEF TypeOK, Task
  <2>3. ASSUME NEW x \in Sharing(t)
        PROVE  /\ x \in Tasks /\ task'[x] = Going(task[x].key, active)
               /\ task'[x] \in Task /\ WellFormed(task'[x])
               /\ task'[x].st \in {"idle", "key"} /\ task'[x].frame \in {"none", "sent"}
               /\ task[x].key \in Keys \ active => task'[x].st = "key" /\ task'[x].key = task[x].key
    <3>1. x \in Tasks
      BY DEF Sharing
    <3>2. task'[x] = Going(task[x].key, active)
      BY <2>1, <3>1
    <3>. QED
      BY <2>2, <3>1, <3>2, GoingTypes
  <2>4. ASSUME NEW x \in Tasks \ Sharing(t) PROVE task'[x] = task[x]
    BY <2>1
  <2>5. \A x \in Tasks : task'[x] \in Task /\ WellFormed(task'[x])
    BY <1>0, <2>2, <2>3, <2>4 DEF CallsAreWellFormed
  <2>6. task' \in [Tasks -> Task]
    BY <2>1, <2>5
  <2>7. CallsAreWellFormed'
    BY <2>5 DEF CallsAreWellFormed, WellFormed
  <2>. QED
    BY <2>3, <2>4, <2>6, <2>7
<1>3. WaitsForARunningCall'
  <2>1. ASSUME NEW x \in Tasks, task'[x].st = "wait" PROVE task'[task'[x].on].st = "all"
    <3>1. x \notin Sharing(t) /\ task'[x] = task[x] /\ task[x].st = "wait" /\ task[x].on \in Tasks
      BY <1>0, <1>2, <2>1 DEF CallsAreWellFormed, WellFormed
    <3>2. task[task[x].on].st = "all" /\ task[x].on # t
      BY <1>0, <3>1 DEF WaitsForARunningCall, Sharing
    <3>3. task[x].on \notin Sharing(t)
      BY <3>2 DEF Sharing
    <3>. QED
      BY <1>2, <3>1, <3>2, <3>3
  <2>. QED
    BY <2>1 DEF WaitsForARunningCall, AllEnds
<1>4. TypeOK'
  BY <1>0, <1>2 DEF TypeOK, AllEnds, linkVars
<1>5. CallInv'
  BY <1>1, <1>2, <1>3, <1>4 DEF CallInv, NothingBefore, DownIsSilent, RoomForReconnect
<1>6. ServedIsSubscribed'
  BY <1>0, <1>2 DEF ServedIsSubscribed
<1>7. BelievedIsSubscribed'
  BY <1>0 DEF BelievedIsSubscribed, ServedIsSubscribed, AllEnds, linkVars
<1>8. NoSessionForgotten'
  <2>1. ASSUME init = "ready", up, NEW j \in subs, j \notin active \cup gaveUp
        PROVE  \E x \in Tasks : task'[x].st # "idle" /\ task'[x].key = j
    <3>1. PICK x \in Tasks : task[x].st # "idle" /\ task[x].key = j
      BY <1>0, <2>1 DEF NoSessionForgotten
    <3>2. j \in Keys
      BY <1>0, <2>1 DEF TypeOK
    <3>. QED
      BY <1>2, <2>1, <3>1, <3>2
  <2>. QED
    BY <2>1 DEF NoSessionForgotten, AllEnds, linkVars
<1>. QED
  BY <1>5, <1>6, <1>7, <1>8 DEF IInv

LEMMA KeyEndsKeepsIInv ==
    ASSUME IInv, NEW t \in Tasks, NEW ok \in BOOLEAN, InFlight(t), ok => task[t].frame = "served",
           KeyEnds(t, ok), UNCHANGED <<linkVars, subs, idle, gw>>
    PROVE  IInv'
<1>0. /\ TypeOK /\ CallsAreWellFormed /\ WaitsForARunningCall
      /\ ServedIsSubscribed /\ BelievedIsSubscribed /\ NoSessionForgotten
  BY DEF IInv, CallInv
<1>1. up' /\ init' # "connecting"
  BY InFlightIsUp DEF linkVars
<1>2. task[t].st = "key" /\ task[t].key \in Keys
  BY <1>0 DEF KeyEnds, CallsAreWellFormed, WellFormed
<1>3. /\ task' \in [Tasks -> Task] /\ task'[t] = IdleTask
      /\ \A x \in Tasks \ {t} : task'[x] = task[x]
  BY <1>0, CallTypes DEF KeyEnds, TypeOK
<1>4. CallsAreWellFormed'
  BY <1>0, <1>3, CallTypes DEF CallsAreWellFormed, WellFormed
<1>5. WaitsForARunningCall'
  BY <1>0, <1>2, <1>3, CallTypes DEF WaitsForARunningCall, CallsAreWellFormed, WellFormed, KeyEnds, TypeOK
<1>6. TypeOK'
  BY <1>0, <1>2, <1>3 DEF TypeOK, KeyEnds, linkVars
<1>7. CallInv'
  BY <1>1, <1>4, <1>5, <1>6 DEF CallInv, NothingBefore, DownIsSilent, RoomForReconnect
<1>8. ServedIsSubscribed'
  BY <1>0, <1>3, CallTypes DEF ServedIsSubscribed
<1>9. BelievedIsSubscribed'
  BY <1>0, <1>2 DEF BelievedIsSubscribed, ServedIsSubscribed, KeyEnds, linkVars
<1>10. NoSessionForgotten'
  <2>1. ASSUME init = "ready", up, NEW j \in subs, j \notin active' \cup gaveUp'
        PROVE  \E x \in Tasks : task'[x].st # "idle" /\ task'[x].key = j
    <3>1. PICK x \in Tasks : task[x].st # "idle" /\ task[x].key = j
      BY <1>0, <2>1 DEF NoSessionForgotten, KeyEnds
    <3>. QED
      BY <1>3, <2>1, <3>1 DEF KeyEnds
  <2>. QED
    BY <2>1 DEF NoSessionForgotten, linkVars
<1>. QED
  BY <1>7, <1>8, <1>9, <1>10 DEF IInv

LEMMA GatewaySubscribesKeepsIInv ==
    ASSUME IInv, NEW t \in Tasks, GatewaySubscribes(t)
    PROVE  IInv'
<1>0. /\ TypeOK /\ CallsAreWellFormed /\ WaitsForARunningCall
      /\ ServedIsSubscribed /\ BelievedIsSubscribed /\ NoSessionForgotten
  BY DEF IInv, CallInv
<1>1. up' /\ init' # "connecting"
  BY InFlightIsUp DEF GatewaySubscribes, InFlight, linkVars
<1>2. task[t] \in Task /\ WellFormed(task[t]) /\ task[t].frame = "sent"
  BY <1>0 DEF TypeOK, CallsAreWellFormed, GatewaySubscribes
<1>. DEFINE y == [task[t] EXCEPT !.frame = "served"]
<1>3. /\ y \in Task /\ WellFormed(y)
      /\ y.st = task[t].st /\ y.key = task[t].key /\ y.on = task[t].on
  BY <1>2, FrameTypes
<1>4. task' = [task EXCEPT ![t] = y]
  BY DEF GatewaySubscribes
<1>. HIDE DEF y
<1>5. /\ task' \in [Tasks -> Task] /\ task'[t] = y
      /\ \A x \in Tasks \ {t} : task'[x] = task[x]
  BY <1>0, <1>3, <1>4 DEF TypeOK
<1>6. \A x \in Tasks : /\ WellFormed(task'[x]) /\ task'[x].st = task[x].st
                       /\ task'[x].key = task[x].key /\ task'[x].on = task[x].on
  BY <1>0, <1>3, <1>5 DEF CallsAreWellFormed
<1>7. CallsAreWellFormed'
  BY <1>6 DEF CallsAreWellFormed, WellFormed
<1>8. WaitsForARunningCall'
  BY <1>0, <1>6 DEF WaitsForARunningCall, CallsAreWellFormed, WellFormed, GatewaySubscribes, TypeOK
<1>9. task[t].key \in Keys \cup {NoKey}
  BY <1>2 DEF Task
<1>10. TypeOK'
  BY <1>0, <1>5, <1>9 DEF TypeOK, GatewaySubscribes, linkVars
<1>11. CallInv'
  BY <1>1, <1>7, <1>8, <1>10 DEF CallInv, NothingBefore, DownIsSilent, RoomForReconnect
<1>12. ServedIsSubscribed'
  BY <1>0, <1>5, <1>6 DEF ServedIsSubscribed, GatewaySubscribes
<1>13. BelievedIsSubscribed'
  BY <1>0 DEF BelievedIsSubscribed, GatewaySubscribes, linkVars
<1>14. NoSessionForgotten'
  BY <1>0, <1>6 DEF NoSessionForgotten, GatewaySubscribes, linkVars
<1>. QED
  BY <1>11, <1>12, <1>13, <1>14 DEF IInv

------------------------------------------------------------------------------
(* Pruning and the connection *)

LEMMA PruneKeepsIInv ==
    ASSUME IInv, Prune
    PROVE  IInv'
<1>0. /\ TypeOK /\ CallsAreWellFormed /\ WaitsForARunningCall /\ NothingBefore /\ DownIsSilent
      /\ RoomForReconnect /\ ServedIsSubscribed /\ BelievedIsSubscribed /\ NoSessionForgotten
  BY DEF IInv, CallInv
<1>. USE DEF Prune, linkVars
<1>1. TypeOK'
  BY <1>0 DEF TypeOK
<1>2. CallsAreWellFormed' /\ WaitsForARunningCall' /\ DownIsSilent' /\ ServedIsSubscribed'
  BY <1>0 DEF CallsAreWellFormed, WellFormed, WaitsForARunningCall, DownIsSilent, InFlight,
              ServedIsSubscribed
<1>3. NothingBefore'
  BY <1>0 DEF NothingBefore
<1>4. RoomForReconnect'
  <2>1. IsFiniteSet(subs) /\ Cardinality(subs) \in Nat
    BY <1>0, FiniteAssumption, FS_Subset, FS_CardinalityType DEF TypeOK
  <2>2. Cardinality(subs') <= Cardinality(subs) /\ Cardinality(subs') \in Nat
    BY <2>1, FS_Subset, FS_CardinalityType
  <2>3. Cardinality(Free) \in Nat /\ Free' = Free
    BY FreeIsFinite, FS_CardinalityType DEF Free
  <2>. QED
    BY <1>0, <2>1, <2>2, <2>3 DEF RoomForReconnect
<1>5. BelievedIsSubscribed' /\ NoSessionForgotten'
  BY <1>0 DEF BelievedIsSubscribed, NoSessionForgotten
<1>. QED
  BY <1>1, <1>2, <1>3, <1>4, <1>5 DEF IInv, CallInv

LEMMA DropKeepsIInv ==
    ASSUME IInv, Drop
    PROVE  IInv'
<1>0. /\ TypeOK /\ CallsAreWellFormed /\ WaitsForARunningCall /\ NothingBefore
      /\ ServedIsSubscribed /\ BelievedIsSubscribed /\ NoSessionForgotten
  BY DEF IInv, CallInv
<1>1. ASSUME NEW t \in Tasks
      PROVE  /\ task'[t] \in Task /\ WellFormed(task'[t]) /\ task'[t].st = task[t].st
             /\ task'[t].on = task[t].on /\ task'[t].frame \notin {"sent", "served"}
  <2>1. task[t] \in Task /\ WellFormed(task[t])
    BY <1>0 DEF TypeOK, CallsAreWellFormed
  <2>2. task'[t] = IF InFlight(t) THEN [task[t] EXCEPT !.frame = "stored"] ELSE task[t]
    BY DEF Drop
  <2>3. CASE InFlight(t)
    <3>. DEFINE y == [task[t] EXCEPT !.frame = "stored"]
    <3>1. task[t].frame # "none"
      BY <2>3 DEF InFlight
    <3>2. /\ y \in Task /\ WellFormed(y)
          /\ y.st = task[t].st /\ y.on = task[t].on /\ y.frame = "stored"
      BY <2>1, <3>1, FrameTypes
    <3>. HIDE DEF y
    <3>3. task'[t] = y
      BY <2>2, <2>3 DEF y
    <3>. QED
      BY <3>2, <3>3
  <2>4. CASE ~InFlight(t)
    BY <2>1, <2>2, <2>4 DEF InFlight
  <2>. QED
    BY <2>3, <2>4
<1>2. task' \in [Tasks -> Task]
  BY <1>1 DEF Drop
<1>3. CallsAreWellFormed'
  BY <1>1 DEF CallsAreWellFormed, WellFormed
<1>4. TypeOK'
  BY <1>0, <1>2 DEF TypeOK, Drop, ForgetSubscriptions
<1>5. WaitsForARunningCall'
  BY <1>0, <1>1 DEF WaitsForARunningCall, CallsAreWellFormed, WellFormed, Drop, TypeOK
<1>6. NothingBefore'
  BY <1>0 DEF NothingBefore, Drop
<1>7. DownIsSilent'
  BY <1>1 DEF DownIsSilent, InFlight
<1>8. RoomForReconnect'
  <2>1. Free' = Free
    BY <1>1 DEF Free
  <2>. QED
    BY <2>1 DEF RoomForReconnect, Drop
<1>9. ServedIsSubscribed'
  BY <1>1 DEF ServedIsSubscribed
<1>10. BelievedIsSubscribed' /\ NoSessionForgotten'
  BY DEF BelievedIsSubscribed, NoSessionForgotten, Drop
<1>. QED
  BY <1>3, <1>4, <1>5, <1>6, <1>7, <1>8, <1>9, <1>10 DEF IInv, CallInv

------------------------------------------------------------------------------
(* The reconnect *)

\* What becomes of the calls from before it
LEMMA RecoveredEffect ==
    ASSUME IInv, ~up, NEW t \in Tasks
    PROVE  /\ Recovered(t) \in Task /\ WellFormed(Recovered(t)) /\ Recovered(t).frame # "served"
           /\ Recovered(t).st = "wait" =>
                 /\ task[t].st = "wait" /\ Recovered(t).on = task[t].on
                 /\ t \notin RejectedAtReconnect
           /\ task[t].st = "all" /\ t \in Stored(FALSE) => Recovered(t).st = "all"
<1>0. task[t] \in Task /\ WellFormed(task[t]) /\ ~InFlight(t)
  BY DEF IInv, CallInv, TypeOK, CallsAreWellFormed, DownIsSilent
<1>1. CASE t \in Stored(FALSE)
  <2>. DEFINE y == [task[t] EXCEPT !.frame = "sent", !.again = TRUE]
  <2>1. task[t].frame = "stored" /\ task[t].again = FALSE /\ task[t].st # "wait"
    BY <1>0, <1>1 DEF Stored, WellFormed
  <2>2. t \notin RejectedAtReconnect
    BY <2>1 DEF RejectedAtReconnect, Stored, Sharing
  <2>3. Recovered(t) = y
    BY <1>1, <2>2 DEF Recovered
  <2>4. /\ y \in Task /\ WellFormed(y) /\ y.st = task[t].st /\ y.frame = "sent"
    BY <1>0, <2>1, FrameTypes
  <2>. HIDE DEF y
  <2>. QED
    BY <2>1, <2>3, <2>4
<1>2. CASE t \notin Stored(FALSE) /\ t \in RejectedAtReconnect
  <2>1. Recovered(t) = IF task[t].st = "key" THEN IdleTask
                       ELSE Going(task[t].key, IF init = "ready" THEN {} ELSE active)
    BY <1>2 DEF Recovered
  <2>2. task[t].key \in Keys \cup {NoKey}
    BY <1>0 DEF Task
  <2>3. CASE task[t].st = "key"
    BY <1>2, <2>1, <2>3, CallTypes
  <2>4. CASE task[t].st # "key"
    <3>. DEFINE k == task[t].key
                known == IF init = "ready" THEN {} ELSE active
    <3>1. Recovered(t) = Going(k, known)
      BY <2>1, <2>4
    <3>2. k \in Keys \cup {NoKey}
      BY <2>2
    <3>. HIDE DEF k, known
    <3>3. /\ Going(k, known) \in Task /\ WellFormed(Going(k, known))
          /\ Going(k, known).st \in {"idle", "key"} /\ Going(k, known).frame \in {"none", "sent"}
      BY <3>2, GoingTypes
    <3>. QED
      BY <1>2, <3>1, <3>3
  <2>. QED
    BY <2>3, <2>4
<1>3. CASE t \notin Stored(FALSE) /\ t \notin RejectedAtReconnect
  <2>1. Recovered(t) = task[t]
    BY <1>3 DEF Recovered
  <2>. QED
    BY <1>0, <1>3, <2>1 DEF InFlight
<1>. QED
  BY <1>1, <1>2, <1>3

\* A call for the sessions from before it is sent again, or is rejected with
\* the calls that share it.
LEMMA StoredCalls ==
    ASSUME IInv, ~up, NEW t \in Tasks, task[t].st = "all"
    PROVE  /\ t \in Stored(FALSE) \/ t \in Stored(TRUE)
           /\ t \in Stored(TRUE) => Sharing(t) \subseteq RejectedAtReconnect
<1>1. task[t] \in Task /\ WellFormed(task[t]) /\ ~InFlight(t)
  BY DEF IInv, CallInv, TypeOK, CallsAreWellFormed, DownIsSilent
<1>2. task[t].frame = "stored" /\ task[t].again \in BOOLEAN
  BY <1>1 DEF Task, WellFormed, InFlight
<1>3. t \in Stored(FALSE) \/ t \in Stored(TRUE)
  BY <1>2 DEF Stored
<1>4. ASSUME t \in Stored(TRUE) PROVE Sharing(t) \subseteq RejectedAtReconnect
  BY <1>4 DEF RejectedAtReconnect
<1>. QED
  BY <1>3, <1>4

\* Whoever goes on waiting waits for a call that is sent again.
LEMMA WaitersRecovered ==
    ASSUME IInv, ~up, NEW t \in Tasks, Recovered(t).st = "wait"
    PROVE  /\ Recovered(t).on \in Tasks /\ task[Recovered(t).on].st = "all"
           /\ Recovered(Recovered(t).on).st = "all"
<1>. DEFINE y == task[t].on
<1>1. /\ task[t].st = "wait" /\ Recovered(t).on = y /\ t \notin RejectedAtReconnect
      /\ y \in Tasks /\ task[y].st = "all"
  BY RecoveredEffect DEF IInv, CallInv, CallsAreWellFormed, WellFormed, WaitsForARunningCall
<1>2. y \notin Stored(TRUE)
  BY <1>1, StoredCalls DEF Sharing
<1>. QED
  BY <1>1, <1>2, StoredCalls, RecoveredEffect

LEMMA ReconnectKeepsIInv ==
    ASSUME IInv, Reconnect
    PROVE  IInv'
<1>0. /\ TypeOK /\ CallsAreWellFormed /\ WaitsForARunningCall /\ RoomForReconnect
      /\ ~up /\ up' /\ init # "connecting" /\ init' = init /\ subs' = subs /\ gw' = gw
  BY DEF IInv, CallInv, Reconnect
<1>1. gaveUp' \subseteq Keys
  BY <1>0 DEF Reconnect, CallsAreWellFormed, WellFormed, Stored
<1>2. CASE init # "ready"
  <2>1. /\ task' = [t \in Tasks |-> Recovered(t)]
        /\ promise' = IF \E t \in Stored(TRUE) : task[t].st = "all" THEN NoTask ELSE promise
        /\ UNCHANGED <<sessionsActive, active, idle>>
    BY <1>2 DEF Reconnect
  <2>2. \A t \in Tasks : task'[t] = Recovered(t)
    BY <2>1
  <2>3. task' \in [Tasks -> Task] /\ CallsAreWellFormed'
    <3>1. \A t \in Tasks : Recovered(t) \in Task /\ WellFormed(Recovered(t))
      BY <1>0, RecoveredEffect
    <3>2. task' \in [Tasks -> Task]
      BY <2>1, <3>1
    <3>. QED
      BY <2>2, <3>1, <3>2 DEF CallsAreWellFormed, WellFormed
  <2>4. promise' # NoTask => promise' \in Tasks /\ task'[promise'].st = "all"
    <3>. SUFFICES ASSUME promise' # NoTask
                  PROVE  promise' \in Tasks /\ task'[promise'].st = "all"
      OBVIOUS
    <3>1. /\ promise' = promise /\ promise \in Tasks /\ task[promise].st = "all"
          /\ promise \notin Stored(TRUE)
      BY <1>0, <2>1 DEF TypeOK, WaitsForARunningCall
    <3>. QED
      BY <1>0, <2>2, <3>1, StoredCalls, RecoveredEffect
  <2>5. WaitsForARunningCall'
    BY <1>0, <2>2, <2>4, WaitersRecovered DEF WaitsForARunningCall
  <2>6. TypeOK'
    BY <1>0, <1>1, <2>1, <2>3, <2>4 DEF TypeOK
  <2>7. CallInv'
    BY <1>0, <2>3, <2>5, <2>6 DEF CallInv, NothingBefore, DownIsSilent, RoomForReconnect
  <2>8. ServedIsSubscribed'
    BY <1>0, <2>2, RecoveredEffect DEF ServedIsSubscribed
  <2>9. BelievedIsSubscribed' /\ NoSessionForgotten'
    BY <1>0, <1>2 DEF BelievedIsSubscribed, NoSessionForgotten
  <2>. QED
    BY <2>7, <2>8, <2>9 DEF IInv
<1>3. CASE init = "ready"
  <2>. DEFINE first == Assigned[NoKey]
              called == {Assigned[k] : k \in Resubscribed}
              keyOf == [t \in called |-> CHOOSE k \in Resubscribed : Assigned[k] = t]
              Sub(t) == [IdleTask EXCEPT !.st = "wait", !.key = keyOf[t], !.on = first]
              All == [IdleTask EXCEPT !.st = "all", !.frame = "sent"]
  <2>1. /\ Assigned \in [subs \cup {NoKey} -> Free]
        /\ \A j, k \in subs \cup {NoKey} : Assigned[j] = Assigned[k] => j = k
    BY <1>0, <1>3, AssignedType DEF RoomForReconnect
  <2>2. /\ first \in Free /\ called \subseteq Free /\ first \notin called
        /\ \A k \in subs : Assigned[k] \in called /\ keyOf[Assigned[k]] = k
        /\ \A t \in called : keyOf[t] \in subs
    BY <1>0, <2>1, NullAssumption DEF Resubscribed, TypeOK
  <2>3. first \in Tasks /\ \A t \in Free : t \in Tasks /\ task[t].st = "idle"
    BY <2>2 DEF Free
  <2>4. /\ ForgetSubscriptions /\ idle' = {}
        /\ promise' \in {NoTask, first}
        /\ task' = [t \in Tasks |-> IF t = first THEN All
                                    ELSE IF t \in called THEN Sub(t) ELSE Recovered(t)]
    BY <1>3 DEF Reconnect
  <2>. HIDE DEF first, called, keyOf
  <2>5. /\ All \in Task /\ WellFormed(All) /\ All.st = "all" /\ All.frame # "served"
        /\ \A t \in called : /\ Sub(t) \in Task /\ WellFormed(Sub(t))
                             /\ Sub(t).st = "wait" /\ Sub(t).key = keyOf[t]
                             /\ Sub(t).on = first /\ Sub(t).frame # "served"
    <3>1. All \in Task /\ WellFormed(All) /\ All.st = "all" /\ All.frame # "served"
      BY FirstTypes
    <3>2. ASSUME NEW t \in called
          PROVE  /\ Sub(t) \in Task /\ WellFormed(Sub(t))
                 /\ Sub(t).st = "wait" /\ Sub(t).key = keyOf[t]
                 /\ Sub(t).on = first /\ Sub(t).frame # "served"
      <4>1. first \in Tasks /\ keyOf[t] \in Keys \cup {NoKey}
        BY <1>0, <2>2, <2>3 DEF TypeOK
      <4>. DEFINE wait == [IdleTask EXCEPT !.st = "wait", !.key = keyOf[t], !.on = first]
      <4>2. /\ wait \in Task /\ WellFormed(wait) /\ wait.st = "wait" /\ wait.key = keyOf[t]
            /\ wait.on = first /\ wait.frame = "none"
        BY <4>1 DEF IdleTask, Task, WellFormed
      <4>3. Sub(t) = wait
        OBVIOUS
      <4>. HIDE DEF wait, Sub
      <4>. QED
        BY <4>2, <4>3
    <3>. HIDE DEF All, Sub
    <3>. QED
      BY <3>1, <3>2
  <2>6. /\ task'[first] = All /\ \A t \in called : task'[t] = Sub(t)
        /\ \A t \in Tasks : t # first /\ t \notin called => task'[t] = Recovered(t)
    BY <2>2, <2>3, <2>4
  <2>. HIDE DEF All, Sub
  <2>7. \A t \in Tasks : task'[t] \in Task /\ WellFormed(task'[t]) /\ task'[t].frame # "served"
    BY <1>0, <2>5, <2>6, RecoveredEffect
  <2>8. task' \in [Tasks -> Task] /\ CallsAreWellFormed'
    BY <2>4, <2>7 DEF CallsAreWellFormed, WellFormed
  <2>9. WaitsForARunningCall'
    <3>1. promise' # NoTask => task'[promise'].st = "all"
      BY <2>4, <2>5, <2>6
    <3>2. ASSUME NEW t \in Tasks, task'[t].st = "wait" PROVE task'[task'[t].on].st = "all"
      <4>1. CASE t \in called
        BY <2>5, <2>6, <4>1
      <4>2. CASE t \notin called
        <5>1. task'[t] = Recovered(t) /\ Recovered(t).st = "wait"
          BY <2>5, <2>6, <3>2, <4>2
        <5>2. /\ task'[t].on \in Tasks /\ task[task'[t].on].st = "all"
              /\ Recovered(task'[t].on).st = "all"
          BY <1>0, <5>1, WaitersRecovered
        <5>3. task'[t].on # first /\ task'[t].on \notin called
          BY <2>2, <2>3, <5>2
        <5>. QED
          BY <2>6, <5>2, <5>3
      <4>. QED
        BY <4>1, <4>2
    <3>. QED
      BY <3>1, <3>2 DEF WaitsForARunningCall
  <2>10. TypeOK'
    BY <1>0, <1>1, <2>3, <2>4, <2>8 DEF TypeOK, ForgetSubscriptions
  <2>11. CallInv'
    BY <1>0, <2>8, <2>9, <2>10 DEF CallInv, NothingBefore, DownIsSilent, RoomForReconnect
  <2>12. ServedIsSubscribed'
    BY <2>7 DEF ServedIsSubscribed
  <2>13. BelievedIsSubscribed'
    BY <2>4 DEF BelievedIsSubscribed, ForgetSubscriptions
  <2>14. NoSessionForgotten'
    <3>1. ASSUME NEW k \in subs
          PROVE  \E t \in Tasks : task'[t].st # "idle" /\ task'[t].key = k
      <4>1. Assigned[k] \in Tasks /\ Assigned[k] \in called /\ keyOf[Assigned[k]] = k
        BY <2>2, <2>3
      <4>. QED
        BY <2>5, <2>6, <4>1
    <3>. QED
      BY <1>0, <3>1 DEF NoSessionForgotten
  <2>. QED
    BY <2>11, <2>12, <2>13, <2>14 DEF IInv
<1>. QED
  BY <1>2, <1>3

------------------------------------------------------------------------------
(* The invariant *)

LEMMA InitIInv == Init => IInv
<1>. SUFFICES ASSUME Init PROVE IInv
  OBVIOUS
<1>1. TypeOK
  BY CallTypes DEF Init, TypeOK
<1>2. \A t \in Tasks : task[t] = IdleTask
  BY DEF Init
<1>3. CallInv
  BY <1>1, <1>2, CallTypes DEF Init, CallInv, CallsAreWellFormed, WaitsForARunningCall,
     NothingBefore, DownIsSilent, InFlight, RoomForReconnect
<1>4. ServedIsSubscribed /\ BelievedIsSubscribed /\ NoSessionForgotten
  BY <1>2, CallTypes DEF Init, ServedIsSubscribed, BelievedIsSubscribed, NoSessionForgotten
<1>. QED
  BY <1>3, <1>4 DEF IInv

LEMMA NextIInv == IInv /\ [Next]_vars => IInv'
<1>. SUFFICES ASSUME IInv, [Next]_vars PROVE IInv'
  OBVIOUS
<1>1. CASE UseSessionList
  <2>1. {NoKey} \cap Keys = {}
    BY NullAssumption
  <2>. QED
    BY <1>1, <2>1, RouteKeepsIInv DEF UseSessionList
<1>2. ASSUME NEW k \in Keys, UseSession(k) PROVE IInv'
  <2>1. {k} \cap Keys = {k}
    OBVIOUS
  <2>. QED
    BY <1>2, <2>1, RouteKeepsIInv DEF UseSession
<1>3. ASSUME NEW t \in Tasks, Acknowledged(t) PROVE IInv'
  <2>1. InFlight(t) /\ task[t].frame = "served"
    BY <1>3 DEF Acknowledged, InFlight
  <2>. QED
    BY <1>3, <2>1, AllEndsKeepsIInv, KeyEndsKeepsIInv DEF Acknowledged, Ends
<1>4. ASSUME NEW t \in Tasks, Rejected(t) PROVE IInv'
  BY <1>4, AllEndsKeepsIInv, KeyEndsKeepsIInv DEF Rejected, Ends
<1>5. ASSUME NEW t \in Tasks, GatewaySubscribes(t) PROVE IInv'
  BY <1>5, GatewaySubscribesKeepsIInv
<1>6. ASSUME NEW k \in Keys, Age(k) PROVE IInv'
  BY <1>6 DEF Age, linkVars, IInv, CallInv, TypeOK, CallsAreWellFormed, WellFormed,
     WaitsForARunningCall, NothingBefore, DownIsSilent, InFlight, RoomForReconnect, Free,
     ServedIsSubscribed, BelievedIsSubscribed, NoSessionForgotten
<1>7. CASE FirstConnect
  BY <1>7 DEF FirstConnect, subVars, IInv, CallInv, TypeOK, CallsAreWellFormed, WellFormed,
     WaitsForARunningCall, NothingBefore, DownIsSilent, RoomForReconnect,
     ServedIsSubscribed, BelievedIsSubscribed, NoSessionForgotten
<1>8. CASE FirstFailure
  BY <1>8 DEF FirstFailure, subVars, IInv, CallInv, TypeOK, CallsAreWellFormed, WellFormed,
     WaitsForARunningCall, NothingBefore, DownIsSilent, InFlight, RoomForReconnect,
     ServedIsSubscribed, BelievedIsSubscribed, NoSessionForgotten
<1>9. CASE UNCHANGED vars
  BY <1>9 DEF vars, subVars, linkVars, IInv, CallInv, TypeOK, CallsAreWellFormed, WellFormed,
     WaitsForARunningCall, NothingBefore, DownIsSilent, InFlight, RoomForReconnect, Free,
     ServedIsSubscribed, BelievedIsSubscribed, NoSessionForgotten
<1>. QED
  BY <1>1, <1>2, <1>3, <1>4, <1>5, <1>6, <1>7, <1>8, <1>9, PruneKeepsIInv, DropKeepsIInv,
     ReconnectKeepsIInv DEF Next, RouteStep, OwnStep

LEMMA Invariance == Spec => []IInv
BY InitIInv, NextIInv, PTL DEF Spec

------------------------------------------------------------------------------
(* Results *)

\* The state is well-typed: the fields of a call, the promise and the books of
\* server.js (693-728, 2085-2112).
THEOREM TypeCorrect == Spec => []TypeOK
<1>1. IInv => TypeOK
  BY DEF IInv, CallInv
<1>. QED
  BY <1>1, Invariance, PTL

\* What the server believes to be subscribed to is subscribed to on this very
\* connection (server.js:697-728, 2085-2101).
THEOREM OnlySubscribedIsBelieved == Spec => []BelievedIsSubscribed
<1>1. IInv => BelievedIsSubscribed
  BY DEF IInv
<1>. QED
  BY <1>1, Invariance, PTL

\* While connected, a session in use is subscribed to, about to be, or has
\* failed to be on this connection (server.js:682-728, 2085-2112).
THEOREM NoSessionIsForgotten == Spec => []NoSessionForgotten
<1>1. IInv => NoSessionForgotten
  BY DEF IInv
<1>. QED
  BY <1>1, Invariance, PTL

\* A call that waits, and the pending promise, belong to a subscription to the
\* sessions that still runs (server.js:699-712).
THEOREM WaitersHaveACall == Spec => []WaitsForARunningCall
<1>1. IInv => WaitsForARunningCall
  BY DEF IInv, CallInv
<1>. QED
  BY <1>1, Invariance, PTL

------------------------------------------------------------------------------
(* The streams and the shutdown *)

StreamTypes ==
    /\ queue \in [Clients -> Levels] /\ sseClients \subseteq Clients
    /\ stream \in [Clients -> {"none", "open", "ended"}]
    /\ shutdown \in {"no", "closing", "exited"}

RInv == TypeOK /\ StreamTypes /\ (Alive => IInv) /\ NoSilentStream

LEMMA InitRInv == InitRealtime => RInv
<1>. SUFFICES ASSUME InitRealtime PROVE RInv
  OBVIOUS
<1>1. IInv /\ TypeOK
  BY InitIInv DEF InitRealtime, IInv, CallInv
<1>2. StreamTypes /\ NoSilentStream
  BY DEF InitRealtime, StreamTypes, NoSilentStream, Levels
<1>. QED
  BY <1>1, <1>2 DEF RInv

\* A step of the streams alone leaves the subscriptions as they are.
LEMMA SubscriptionsUnchanged ==
    ASSUME RInv, UNCHANGED vars, Alive' => Alive
    PROVE  TypeOK' /\ (Alive' => IInv')
<1>1. Alive => IInv'
  BY NextIInv DEF RInv
<1>2. TypeOK'
  BY DEF RInv, TypeOK, vars, linkVars, subVars
<1>. QED
  BY <1>1, <1>2

LEMMA NextRInv == RInv /\ [NextRealtime]_allVars => RInv'
<1>. SUFFICES ASSUME RInv, [NextRealtime]_allVars PROVE RInv'
  OBVIOUS
<1>0. TypeOK /\ StreamTypes /\ NoSilentStream
  BY DEF RInv
<1>1. ASSUME Alive, RouteStep \/ OwnStep, UNCHANGED <<sseVars, shutdown>> PROVE RInv'
  <2>1. IInv'
    BY <1>1, NextIInv DEF RInv, Next
  <2>2. StreamTypes' /\ NoSilentStream'
    BY <1>0, <1>1 DEF StreamTypes, NoSilentStream, Alive, sseVars
  <2>. QED
    BY <2>1, <2>2 DEF RInv, IInv, CallInv
<1>2. CASE RouteStepWhileRunning
  BY <1>1, <1>2 DEF RouteStepWhileRunning, Running, Alive
<1>3. CASE OwnStepWhileAlive
  BY <1>1, <1>3 DEF OwnStepWhileAlive
<1>4. ASSUME NEW c \in Clients, OpenStream(c) PROVE RInv'
  <2>1. TypeOK' /\ (Alive' => IInv')
    BY <1>4, SubscriptionsUnchanged DEF OpenStream, Alive
  <2>2. StreamTypes'
    BY <1>0, <1>4 DEF OpenStream, StreamTypes
  <2>3. NoSilentStream'
    BY <1>0, <1>4 DEF OpenStream, StreamTypes, NoSilentStream, Alive, Running
  <2>. QED
    BY <2>1, <2>2, <2>3 DEF RInv
<1>5. ASSUME NEW c \in Clients, CloseStream(c) PROVE RInv'
  <2>1. TypeOK' /\ (Alive' => IInv')
    BY <1>5, SubscriptionsUnchanged DEF CloseStream, Alive
  <2>2. StreamTypes'
    BY <1>0, <1>5 DEF CloseStream, StreamTypes, Levels
  <2>3. NoSilentStream'
    BY <1>0, <1>5 DEF CloseStream, StreamTypes, NoSilentStream, Alive
  <2>. QED
    BY <2>1, <2>2, <2>3 DEF RInv
<1>6. ASSUME NEW c \in Clients, Drain(c) PROVE RInv'
  <2>1. TypeOK' /\ (Alive' => IInv')
    BY <1>6, SubscriptionsUnchanged DEF Drain, Alive
  <2>2. StreamTypes' /\ NoSilentStream'
    BY <1>0, <1>6 DEF Drain, StreamTypes, Levels, NoSilentStream, Alive
  <2>. QED
    BY <2>1, <2>2 DEF RInv
<1>7. CASE GatewayEvent
  <2>1. TypeOK' /\ (Alive' => IInv')
    BY <1>7, SubscriptionsUnchanged DEF GatewayEvent, Alive
  <2>2. PICK level \in [sseClients -> Levels] :
           /\ queue' = [c \in Clients |-> IF c \in sseClients THEN level[c] ELSE queue[c]]
           /\ DropStreams({c \in sseClients : level[c] # "below mark"})
    BY <1>7 DEF GatewayEvent
  <2>3. StreamTypes'
    BY <1>0, <1>7, <2>2 DEF StreamTypes, DropStreams, GatewayEvent
  <2>4. NoSilentStream'
    BY <1>0, <1>7, <2>2 DEF StreamTypes, NoSilentStream, DropStreams, GatewayEvent, Alive
  <2>. QED
    BY <2>1, <2>3, <2>4 DEF RInv
<1>8. CASE Signal \/ ShutdownTimeout
  <2>1. TypeOK' /\ (Alive' => IInv')
    BY <1>8, SubscriptionsUnchanged DEF Signal, ShutdownTimeout, Alive, Running
  <2>2. StreamTypes' /\ NoSilentStream'
    BY <1>0, <1>8 DEF Signal, ShutdownTimeout, StreamTypes, NoSilentStream, Alive, Running, sseVars
  <2>. QED
    BY <2>1, <2>2 DEF RInv
<1>9. CASE ServerClosed
  <2>1. TypeOK' /\ StreamTypes' /\ ~Alive'
    BY <1>0, <1>9 DEF ServerClosed, TypeOK, subVars, StreamTypes, Alive
  <2>. QED
    BY <2>1 DEF RInv, NoSilentStream
<1>10. CASE UNCHANGED allVars
  <2>1. TypeOK' /\ (Alive' => IInv')
    BY <1>10, SubscriptionsUnchanged DEF allVars, Alive
  <2>2. StreamTypes' /\ NoSilentStream'
    BY <1>0, <1>10 DEF allVars, sseVars, StreamTypes, NoSilentStream, Alive
  <2>. QED
    BY <2>1, <2>2 DEF RInv
<1>. QED
  BY <1>2, <1>3, <1>4, <1>5, <1>6, <1>7, <1>8, <1>9, <1>10 DEF NextRealtime, StreamStep

LEMMA RealtimeInvariance == SpecRealtime => []RInv
BY InitRInv, NextRInv, PTL DEF SpecRealtime

------------------------------------------------------------------------------
(* Results *)

\* The streams, their clients and the shutdown are well-typed
\* (server.js:2023-2060, 2178-2232).
THEOREM RealtimeTypeCorrect == SpecRealtime => []TypeOKRealtime
<1>1. RInv => TypeOKRealtime
  BY DEF RInv, StreamTypes, TypeOKRealtime
<1>. QED
  BY <1>1, RealtimeInvariance, PTL

\* A browser's open stream is broadcast to until the server ends it
\* (server.js:2030-2060).
THEOREM OpenStreamsAreServed == SpecRealtime => []NoSilentStream
<1>1. RInv => NoSilentStream
  BY DEF RInv
<1>. QED
  BY <1>1, RealtimeInvariance, PTL

\* Streams and shutdown do not disturb the subscriptions: until the process
\* exits, what is believed to be subscribed to is, and no session is forgotten
\* (server.js:682-728, 2085-2112, 2178-2232).
THEOREM SubscriptionsWhileAlive ==
    SpecRealtime => [](Alive => BelievedIsSubscribed /\ NoSessionForgotten)
<1>1. RInv => (Alive => BelievedIsSubscribed /\ NoSessionForgotten)
  BY DEF RInv, IInv
<1>. QED
  BY <1>1, RealtimeInvariance, PTL
==============================================================================
