------------------------------- MODULE ChatQueue -------------------------------
(***************************************************************************)
(* How a chat message gets from the input box to the gateway: the          *)
(* persistent send queue of public/index.html, its triggers (sending,      *)
(* selecting a session, the retry timer, the health poll, the browser      *)
(* going online), and the send route of server.js, which tries the gateway *)
(* connection and then plain HTTP.                                         *)
(*                                                                         *)
(* Messages are numbered in the order the user sends them.  A step of the  *)
(* page is what runs between two awaits.  An attempt is one POST to        *)
(* /api/sessions/:key/send; the route goes on with it when the page no     *)
(* longer waits for the answer.                                            *)
(***************************************************************************)
EXTENDS Naturals, SequencesExt

CONSTANTS
    MaxMessages,  \* bound: how many messages the user sends
    MaxReloads,   \* bound: how often the page is loaded again
    MaxFailures,  \* bound: how many steps of the network and the gateway fail
    Sessions, NoSession,
    Attempts, NoAttempt,   \* identities for POSTs, reused
    MaxQueueSize

ASSUME BoundsAssumption ==
    /\ MaxMessages \in Nat /\ MaxReloads \in Nat /\ MaxFailures \in Nat
    /\ MaxQueueSize \in Nat \ {0}
ASSUME NullAssumption == NoSession \notin Sessions /\ NoAttempt \notin Attempts

Messages == 1 .. MaxMessages

VARIABLES
    queue,       \* sendQueue: items with their message and session
    stored,      \* localStorage 'miso.pendingQueue'
    cur,         \* currentSessionKey
    loading,     \* where selectSession is, for each session
    turn,        \* what processQueue is sending, and the answer it waits for
    timer,       \* queueRetryTimer is set
    online,      \* navigator.onLine
    attempt,     \* the POSTs at the server
    sentTo,      \* session of each message sent so far (history)
    fate,        \* what became of each message (history)
    executed,    \* messages the gateway has received (history)
    reloads, failures

queueVars == <<queue, stored, timer, turn, attempt>>
history == <<sentTo, fate, executed>>
bounds == <<reloads, failures>>
vars == <<queueVars, cur, loading, online, history, bounds>>

NoMessage == 0
NoItem == [msg |-> NoMessage, session |-> NoSession]
Item == [msg : Messages, session : Sessions]

IdleTurn == [phase |-> "none", item |-> NoItem, att |-> NoAttempt]
Turn == [phase : {"none", "request", "token", "retry", "poll"},
         item : Item \cup {NoItem}, att : Attempts \cup {NoAttempt}]

Copy == {"none", "pending", "served"}
FreeAttempt == [st |-> "free", msg |-> NoMessage, ws |-> "none", http |-> "none"]
Attempt == [st : {"free", "sent", "ws", "http", "ok", "error", "refused"},
            msg : Messages \cup {NoMessage}, ws : Copy, http : Copy]

Sending == turn.phase # "none"
\* The page waits for the answer to attempt a.
Awaits(a) == turn.phase \in {"request", "retry"} /\ turn.att = a
\* A step of the network or the gateway goes wrong.
Fail == failures < MaxFailures /\ failures' = failures + 1

Unused == {a \in Attempts : attempt[a].st = "free"}

------------------------------------------------------------------------------
(* The queue *)

\* Where the items of session s are in q; without a session, all of them
OfSession(q, s) == {i \in DOMAIN q : s \in {NoSession, q[i].session}}

\* queueCountForSession(currentSessionKey) > 0
Queued(q) == OfSession(q, cur) # {}

\* The items of q that are in S, in their order: SelectSeq for a set, which the
\* provers know nothing about, as a function of the position.
Kept(q, S) ==
    LET kept[n \in 0 .. Len(q)] ==
            IF n = 0 THEN <<>>
            ELSE IF q[n] \in S THEN Append(kept[n - 1], q[n]) ELSE kept[n - 1]
    IN  kept[Len(q)]

\* savePendingQueue keeps the first items.
Trimmed(q) == SubSeq(q, 1, IF Len(q) < MaxQueueSize THEN Len(q) ELSE MaxQueueSize)
Save(q) == queue' = q /\ stored' = Trimmed(q)

\* Mutants of TakeOut: the message stays in the queue, or in the storage.
TakeOutNothing(q, i) == Save(q)
TakeOutUnsaved(q, i) == queue' = RemoveAt(q, i) /\ stored' = Trimmed(q)

TakeOut(q, i) == Save(RemoveAt(q, i))

\* processQueue takes the first message of the session and sends it.
Take(q) ==
    LET i == Min(OfSession(q, cur))
        next == q[i]
        a == CHOOSE b \in Unused : TRUE
    IN /\ Unused # {}
       /\ TakeOut(q, i)
       /\ timer' = FALSE
       /\ turn' = [phase |-> "request", item |-> next, att |-> a]
       /\ attempt' = [attempt EXCEPT ![a] = [FreeAttempt EXCEPT !.st = "sent",
                                                                !.msg = next.msg]]

\* processQueue can do nothing: it is called while a message is being sent, or
\* there is nothing to send, or the browser is offline, when it schedules
\* nothing either.
Blocked(q, busy) == busy \/ cur = NoSession \/ ~Queued(q) \/ ~online

\* processQueue, called with the retry timer set or not
ProcessQueue(busy, retry) ==
    IF Blocked(queue, busy)
    THEN /\ timer' = retry
         /\ turn' = IF busy THEN turn ELSE IdleTurn
         /\ UNCHANGED <<queue, stored, attempt>>
    ELSE Take(queue)

\* sendMessage
SendMessage(m) ==
    /\ sentTo[m] = NoSession /\ \A l \in 1 .. m - 1 : sentTo[l] # NoSession
    /\ cur # NoSession
    /\ sentTo' = [sentTo EXCEPT ![m] = cur]
    /\ fate' = [fate EXCEPT ![m] = "open"]
    /\ LET q == Append(queue, [msg |-> m, session |-> cur])
       IN IF Blocked(q, Sending)
          THEN Save(q) /\ UNCHANGED <<timer, turn, attempt>>
          ELSE Take(q)
    /\ UNCHANGED <<cur, loading, online, executed, bounds>>

\* The answer is a success: the message is done, the history is polled before
\* the next one is sent.
Confirmed(a) ==
    /\ Awaits(a)
    /\ attempt[a].st = "ok"
    /\ turn' = [turn EXCEPT !.phase = "poll", !.att = NoAttempt]
    /\ fate' = [fate EXCEPT ![turn.item.msg] = "confirmed"]
    /\ UNCHANGED <<queue, stored, timer, attempt, cur, loading, online, sentTo, executed, bounds>>

\* The end of a turn that did not fail: the next message is sent if the session
\* of this one has more.
EndTurn ==
    IF OfSession(queue, turn.item.session) # {}
    THEN ProcessQueue(FALSE, timer)
    ELSE turn' = IdleTurn /\ UNCHANGED <<queue, stored, timer, attempt>>

HistoryPolled ==
    /\ turn.phase = "poll"
    /\ EndTurn
    /\ UNCHANGED <<cur, loading, online, history, bounds>>

\* The first answer is a 403: the page asks for a fresh CSRF token.
Forbidden(a) ==
    /\ turn.phase = "request" /\ turn.att = a
    /\ attempt[a].st = "refused"
    /\ turn' = [turn EXCEPT !.phase = "token"]
    /\ UNCHANGED <<queue, stored, timer, attempt, cur, loading, online, history, bounds>>

\* fetchCsrfToken: with a token apiFetch sends the request once more; without one
\* the 403 is the answer (Refused).
TokenFetched(a) ==
    /\ turn.phase = "token" /\ turn.att = a
    /\ turn' = [turn EXCEPT !.phase = "retry"]
    /\ attempt' = [attempt EXCEPT ![a].st = "sent"]
    /\ UNCHANGED <<queue, stored, timer, cur, loading, online, history, bounds>>

\* An error that is not transient: the message is discarded.
Refused(a) ==
    /\ turn.phase = "token" \/ Awaits(a)
    /\ turn.att = a /\ attempt[a].st = "refused"
    /\ fate' = [fate EXCEPT ![turn.item.msg] = "refused"]
    /\ EndTurn
    /\ UNCHANGED <<cur, loading, online, sentTo, executed, bounds>>

\* scheduleQueueRetry
ScheduleRetry(q) == timer' = (timer \/ (Queued(q) /\ online))

\* Mutants of PutBack: at the back of the queue, or once the turn was reset
PutBackLast == Append(queue, turn.item)
PutBackAfterReset == <<IdleTurn.item>> \o queue

PutBack == <<turn.item>> \o queue

\* A transient error, or no readable answer at all: back to the front of the
\* queue.  The server may go on with the attempt.
SendFailed(a) ==
    /\ Awaits(a)
    /\ \/ attempt[a].st = "error" /\ UNCHANGED failures
       \/ attempt[a].st # "error" /\ Fail
    /\ Save(PutBack)
    /\ ScheduleRetry(PutBack)
    /\ turn' = IdleTurn
    /\ UNCHANGED <<attempt, cur, loading, online, history, reloads>>

------------------------------------------------------------------------------
(* What else calls processQueue *)

RetryTimerFires ==
    /\ timer
    /\ ProcessQueue(Sending, FALSE)
    /\ UNCHANGED <<cur, loading, online, history, bounds>>

\* Mutant of HealthPolled: the timer is cleared and nothing sent.
HealthShown ==
    /\ cur # NoSession /\ Queued(queue) /\ ~Sending /\ online
    /\ timer' = FALSE
    /\ UNCHANGED <<queue, stored, turn, attempt, cur, loading, online, history, bounds>>

\* refreshBackendHealth: /api/health has no gatewayWsConnected, so any answer
\* of it counts as connected.
HealthPolled ==
    /\ cur # NoSession /\ Queued(queue) /\ ~Sending /\ online
    /\ ProcessQueue(FALSE, FALSE)
    /\ UNCHANGED <<cur, loading, online, history, bounds>>

GoOffline ==
    /\ online
    /\ online' = FALSE
    /\ timer' = (timer /\ ~Queued(queue))
    /\ UNCHANGED <<queue, stored, turn, attempt, cur, loading, history, bounds>>

\* Back online the queue is replayed, unless something is being sent.
GoOnline ==
    /\ ~online
    /\ online' = TRUE
    /\ IF cur # NoSession /\ Queued(queue) /\ ~Sending
       THEN Take(queue)
       ELSE /\ timer' = (timer /\ ~Queued(queue))
            /\ UNCHANGED <<queue, stored, turn, attempt>>
    /\ UNCHANGED <<cur, loading, history, bounds>>

\* selectSession: the session changes at once; the key is stored, then the
\* history is fetched, then the queue is processed.
SelectSession(s) ==
    /\ loading[s] = "no"
    /\ cur' = s
    /\ loading' = [loading EXCEPT ![s] = "key"]
    /\ UNCHANGED <<queueVars, online, history, bounds>>

SessionKeyStored(s) ==
    /\ loading[s] = "key"
    /\ loading' = [loading EXCEPT ![s] = "history"]
    /\ timer' = FALSE
    /\ UNCHANGED <<queue, stored, turn, attempt, cur, online, history, bounds>>

HistoryLoaded(s) ==
    /\ loading[s] = "history"
    /\ loading' = [loading EXCEPT ![s] = "no"]
    /\ ProcessQueue(Sending, timer)
    /\ UNCHANGED <<cur, online, history, bounds>>

Unexpired == {item \in Item : fate[item.msg] # "expired"}

\* The page is loaded again; loadPendingQueue drops what is too old, and what
\* was too old before still is.
Reload ==
    /\ reloads < MaxReloads
    /\ reloads' = reloads + 1
    /\ \E young \in SUBSET (ToSet(stored) \cap Unexpired) :
          /\ queue' = Kept(stored, young)
          /\ fate' = [m \in Messages |->
                IF fate[m] # "open" \/ \E item \in young : item.msg = m THEN fate[m]
                ELSE IF \E item \in ToSet(stored) : item.msg = m THEN "expired"
                ELSE "lost"]
    /\ turn' = IdleTurn /\ timer' = FALSE
    /\ cur' = NoSession /\ loading' = [s \in Sessions |-> "no"]
    /\ UNCHANGED <<stored, attempt, online, sentTo, executed, failures>>

------------------------------------------------------------------------------
(* POST /api/sessions/:key/send *)

\* The route sends the message to the gateway in one of two ways.
Try(a, way) == attempt' = [attempt EXCEPT ![a].st = way, ![a][way] = "pending"]

\* waitForGatewayWsReady: over the connection, if it is up or comes up in time.
Arrives(a) ==
    /\ attempt[a].st = "sent"
    /\ \E way \in {"ws", "http"} : Try(a, way)
    /\ UNCHANGED <<executed, failures>>

\* A limiter, the authentication or a validation turns it down.
TurnedDown(a) ==
    /\ attempt[a].st = "sent"
    /\ Fail
    /\ \E st \in {"refused", "error"} : attempt' = [attempt EXCEPT ![a].st = st]
    /\ UNCHANGED executed

\* The gateway receives a copy of the message, in time or not.
GatewayReceives(a) ==
    /\ \/ attempt[a].ws = "pending" /\ attempt' = [attempt EXCEPT ![a].ws = "served"]
       \/ attempt[a].http = "pending" /\ attempt' = [attempt EXCEPT ![a].http = "served"]
    /\ executed' = executed \cup {attempt[a].msg}
    /\ UNCHANGED failures

\* chat.send fails or times out: HTTP is next.
WsFails(a) ==
    /\ attempt[a].st = "ws"
    /\ Fail
    /\ Try(a, "http")
    /\ UNCHANGED executed

HttpFails(a) ==
    /\ attempt[a].st = "http"
    /\ Fail
    /\ attempt' = [attempt EXCEPT ![a].st = "error"]
    /\ UNCHANGED executed

\* Mutant of Answered: an answer that is no success counts as one.
AnsweredAnyhow(a) ==
    /\ attempt[a].st \in {"ws", "http"}
    /\ attempt' = [attempt EXCEPT ![a].st = "ok"]
    /\ UNCHANGED <<executed, failures>>

Answered(a) ==
    /\ \/ attempt[a].st = "ws" /\ attempt[a].ws = "served"
       \/ attempt[a].st = "http" /\ attempt[a].http = "served"
    /\ attempt' = [attempt EXCEPT ![a].st = "ok"]
    /\ UNCHANGED <<executed, failures>>

\* The route is done and nobody waits for it: what is left of it is lost.
Over(a) ==
    /\ attempt[a].st \in {"sent", "ok", "error", "refused"}
    /\ turn.att # a
    /\ attempt' = [attempt EXCEPT ![a] = FreeAttempt]
    /\ UNCHANGED <<executed, failures>>

Progress(a) == Arrives(a) \/ GatewayReceives(a) \/ Answered(a) \/ Over(a)
Failure(a) == TurnedDown(a) \/ WsFails(a) \/ HttpFails(a)

ServerStep(a) ==
    /\ Progress(a) \/ Failure(a)
    /\ UNCHANGED <<queue, stored, timer, turn, cur, loading, online, sentTo, fate, reloads>>

------------------------------------------------------------------------------
Init ==
    /\ queue = <<>> /\ stored = <<>>
    /\ cur = NoSession /\ loading = [s \in Sessions |-> "no"]
    /\ turn = IdleTurn /\ timer = FALSE /\ online = TRUE
    /\ attempt = [a \in Attempts |-> FreeAttempt]
    /\ sentTo = [m \in Messages |-> NoSession]
    /\ fate = [m \in Messages |-> "unsent"]
    /\ executed = {}
    /\ reloads = 0 /\ failures = 0

SessionStep(s) == SelectSession(s) \/ SessionKeyStored(s) \/ HistoryLoaded(s)
TurnStep(a) ==
    \/ Confirmed(a) \/ Forbidden(a) \/ TokenFetched(a) \/ Refused(a) \/ SendFailed(a)

Next ==
    \/ \E m \in Messages : SendMessage(m)
    \/ \E s \in Sessions : SessionStep(s)
    \/ \E a \in Attempts : TurnStep(a) \/ ServerStep(a)
    \/ HistoryPolled \/ RetryTimerFires \/ HealthPolled
    \/ GoOffline \/ GoOnline \/ Reload

Spec == Init /\ [][Next]_vars

\* Timers fire, requests end, and the network and the gateway, which fail only
\* so often (MaxFailures), do their part.  The user need not do anything.
Fairness ==
    /\ \A a \in Attempts : /\ WF_vars(Progress(a) /\ ServerStep(a))
                          /\ WF_vars(TurnStep(a))
    /\ \A s \in Sessions : WF_vars(SessionKeyStored(s)) /\ WF_vars(HistoryLoaded(s))
    /\ WF_vars(HistoryPolled) /\ WF_vars(RetryTimerFires) /\ WF_vars(HealthPolled)

FairSpec == Spec /\ Fairness

------------------------------------------------------------------------------
(* Properties *)

\* Every variable holds a value of its type.
TypeOK ==
    /\ queue \in Seq(Item) /\ stored \in Seq(Item)
    /\ cur \in Sessions \cup {NoSession}
    /\ loading \in [Sessions -> {"no", "key", "history"}]
    /\ turn \in Turn /\ timer \in BOOLEAN /\ online \in BOOLEAN
    /\ attempt \in [Attempts -> Attempt]
    /\ sentTo \in [Messages -> Sessions \cup {NoSession}]
    /\ fate \in [Messages -> {"unsent", "open", "confirmed", "refused", "expired", "lost"}]
    /\ executed \subseteq Messages
    /\ reloads \in 0 .. MaxReloads /\ failures \in 0 .. MaxFailures

\* A message whose fate is open is in the queue or being sent, exactly once; one
\* that was confirmed, refused or has expired is nowhere, so no later retry or
\* trigger sends it again (index.html:4081-4170).
HeldExactlyOnce ==
    \A m \in Messages :
        Cardinality({i \in DOMAIN queue : queue[i].msg = m})
            + (IF turn.phase \notin {"none", "poll"} /\ turn.item.msg = m THEN 1 ELSE 0)
        = IF fate[m] = "open" THEN 1 ELSE 0

\* What a reload would bring back is the front of the queue and nothing that is
\* being sent or done with, apart from items too old to come back
\* (index.html:2041-2072, 4097-4098, 4117, 4150).
StoredIsQueue == Kept(stored, Unexpired) = Trimmed(queue)

\* What the page shows as sent, the gateway has received, whichever of the two
\* ways the server used (server.js:1250-1262).
ConfirmedIsExecuted == \A m \in Messages : fate[m] = "confirmed" => m \in executed

\* The page, the route and the gateway together keep the promise of Delivery: the
\* gateway first sees the messages of a session in the order the user sent them,
\* through failures, retries and changes of session, and what became of a message
\* stays so; only a message that was refused, or that a reload caught unsaved, may
\* be overtaken (index.html:4081-4170).
Promise == INSTANCE Delivery
DeliversInOrder == Promise!Spec

\* While its session stays selected and the browser online, a message leaves the
\* queue, wherever in the queue and whenever it was sent
\* (index.html:3117-3214, 4069, 4152-4170, 4521).
MessagesLeave ==
    \A m \in Messages :
        fate[m] = "open" /\ cur = sentTo[m]
            ~> fate[m] # "open" \/ cur # sentTo[m] \/ ~online
===============================================================================
