----------------------------- MODULE SessionView -----------------------------
(***************************************************************************)
(* What the page shows (public/index.html): the selected session, its      *)
(* history, fetched on selection and polled after that, the answers that   *)
(* arrive as events or as the answer of a POST before the history has      *)
(* them, and the key of the session, kept across page loads in the app's   *)
(* secure storage or in localStorage (lib/session-key-hydration.js).       *)
(*                                                                         *)
(* A task is an asynchronous function of the page; a step of it runs from  *)
(* one await to the next.  Messages are the assistant's; those of the user *)
(* are shown when they are sent and skipped by polls.  A bubble is the set *)
(* of messages whose text it shows; in which order the bubbles stand on    *)
(* the page is left out, how many there are of each is not.                *)
(***************************************************************************)
EXTENDS Naturals, FiniteSets, Sequences

CONSTANTS
    Sessions, None,
    Places,         \* where the page may run: TRUE in the app, FALSE in a browser
    Tasks,          \* bound: identities for the page's tasks, reused
    RefreshesAmid,  \* bound: whether a refresh may begin while a task is under way
    MaxMessages,    \* bound: how many messages the assistant writes
    MaxMishaps      \* bound: failing calls, streams that break, echoes that expire,
                    \* changes of the list of sessions, and loads of the page, all
                    \* together

ASSUME SessionViewAssumption ==
    /\ None \notin Sessions
    /\ Places \subseteq BOOLEAN
    /\ RefreshesAmid \in BOOLEAN
    /\ MaxMessages \in Nat /\ MaxMishaps \in Nat

Messages == 1 .. MaxMessages
Bubbles == SUBSET Messages

VARIABLES
    home,        \* the session of each message written so far
    hist,        \* the gateway's history of each session
    running,     \* messages being written
    wire,        \* events on their way to the page
    replies,     \* answers of POSTs on their way to the page
    streaming,   \* the event stream is open
    cur,         \* currentSessionKey
    task,        \* what each task waits for, or has got
    polling,     \* historyPollTimer is set
    inFlight,    \* historyPollInFlight
    view,        \* how many there are on the page of each bubble
    keys,        \* historyMessageKeys
    live,        \* liveAssistantTurn: its text, and whether its bubble is on the page
    echoes,      \* localAssistantEchoes: the count of each
    stale,       \* the echoes that are past their expiresAt
    native,      \* the app, which has a secure storage, or a browser
    storedKey,   \* storedSessionKey
    secure, local,  \* what the two storages hold
    writing,     \* tasks that wait for the secure storage, in order
    heard, answered, \* messages whose last event, or whose answer of a POST, the
                 \* page has had (history)
    early,       \* messages a history had before either (history)
    expired,     \* messages a poll added because their echo was stale (history)
    strays,      \* messages rendered or answered for another session (history)
    wiped,       \* messages of the echoes and the live turn whose bubble a
                 \* rendering removed (history)
    torn,        \* a failed call left an older key in secure storage (history)
    started,     \* the list of sessions was asked for
    mishaps

gatewayVars == <<home, hist, running>>
arrivals == <<wire, replies, streaming>>
told == <<heard, answered>>
known == <<keys, echoes, stale, early, expired, strays, wiped>>
display == <<view, live, known>>
storage == <<native, storedKey, secure, local, writing, torn>>
bounds == <<started, mishaps>>
pageVars == <<cur, task, polling, inFlight>>
vars == <<gatewayVars, arrivals, pageVars, display, told, storage, bounds>>

Event == [msg : Messages, final : BOOLEAN]
Free == [at |-> "free"]
Task ==
    {Free}
    \cup [at : {"load", "bye"}]
    \cup [at : {"clear", "key", "select", "poll"}, s : Sessions]
    \cup [at : {"selected", "polled"}, s : Sessions, got : SUBSET Messages]

NoTurn == [text |-> {}, attached |-> FALSE]

Become(f, state) == task' = [task EXCEPT ![f] = state]
Mishap == mishaps < MaxMishaps /\ mishaps' = mishaps + 1
Selecting(s) == \E f \in Tasks : task[f].at \in {"key", "select", "selected"} /\ task[f].s = s
Shown == UNION {bubble \in Bubbles : view[bubble] > 0}
Announced == heard \cup answered
Remembered == {m \in Messages : echoes[m] > 0}
NoEchoes == [m \in Messages |-> 0]

------------------------------------------------------------------------------
(* The gateway and the stream of events *)

\* Bound: what is written is begun in the session selected then; it ends, and
\* reaches the page, at any time after that.
Begins(m) ==
    /\ cur # None
    /\ home[m] = None /\ \A l \in 1 .. m - 1 : home[l] # None
    /\ home' = [home EXCEPT ![m] = cur]

\* A run starts; its first text is an event.
RunStarts(m) ==
    /\ Begins(m)
    /\ running' = running \cup {m}
    /\ wire' = IF streaming THEN Append(wire, [msg |-> m, final |-> FALSE]) ELSE wire
    /\ UNCHANGED <<hist, replies, streaming, pageVars, display, told, storage, bounds>>

\* The message is complete: it is in the history, and the last event is sent.  If
\* the server's call over the WebSocket failed, so that the POST went by HTTP, it is
\* answered with the message as well.
RunEnds(m) ==
    /\ m \in running
    /\ running' = running \ {m}
    /\ hist' = [hist EXCEPT ![home[m]] = @ \cup {m}]
    /\ wire' = IF streaming THEN Append(wire, [msg |-> m, final |-> TRUE]) ELSE wire
    /\ \/ UNCHANGED <<replies, mishaps>>
       \/ Mishap /\ replies' = replies \cup {m}
    /\ UNCHANGED <<home, streaming, pageVars, display, told, storage, started>>

\* Or no event tells of the message, only the answer of the POST.
RunReplies(m) ==
    /\ Begins(m)
    /\ hist' = [hist EXCEPT ![cur] = @ \cup {m}]
    /\ replies' = replies \cup {m}
    /\ UNCHANGED <<running, wire, streaming, pageVars, display, told, storage, bounds>>

\* eventSource.onerror: what was on its way is lost, and polling starts anew.
StreamFails ==
    /\ streaming
    /\ Mishap
    /\ streaming' = FALSE /\ wire' = <<>>
    /\ polling' = TRUE /\ inFlight' = FALSE
    /\ UNCHANGED <<gatewayVars, replies, cur, task, display, told, storage, started>>

StreamOpens ==
    /\ ~streaming /\ started
    /\ streaming' = TRUE
    /\ UNCHANGED <<gatewayVars, wire, replies, pageVars, display, told, storage, bounds>>

------------------------------------------------------------------------------
(* The stored session key *)

Written(f) == IF task[f].at = "key" THEN task[f].s ELSE None

\* secureStorageSet or secureStorageRemove works, and localStorage is cleared.
KeySecured(key) ==
    /\ secure' = key /\ local' = None /\ torn' = FALSE
    /\ UNCHANGED mishaps

\* Mutant of KeyNotSecured: what was not saved is not saved elsewhere.
KeyForgotten(key) ==
    /\ Mishap
    /\ torn' = (secure \notin {None, key})
    /\ UNCHANGED <<secure, local>>

\* It fails: a key goes to localStorage, and a removal is silently given up.
KeyNotSecured(key) ==
    /\ Mishap
    /\ local' = key
    /\ torn' = (secure \notin {None, key})
    /\ UNCHANGED secure

\* What hydrateStoredSessionKey finds when the secure storage answers
Hydrated == IF native /\ secure # None THEN secure ELSE local

\* hydrateStoredSessionKey; the secure storage may fail to answer, and what is
\* found in localStorage moves to it, or the page is left before that.
Hydrate(sec, loc) ==
    \/ /\ native /\ sec # None
       /\ storedKey' = sec /\ secure' = sec /\ local' \in {None, loc} /\ torn' = torn
    \/ /\ native /\ sec # None
       /\ storedKey' = loc /\ secure' = sec /\ local' = loc /\ torn' = (loc # sec)
    \/ /\ ~native \/ sec = None
       /\ storedKey' = loc
       /\ IF native /\ loc # None
          THEN /\ secure' \in {None, loc}
               /\ local' \in IF secure' = loc THEN {None, loc} ELSE {loc}
          ELSE secure' = sec /\ local' = loc
       /\ torn' = FALSE

------------------------------------------------------------------------------
(* Showing messages *)

\* A bubble for each of the messages
Each(messages) == [bubble \in Bubbles |-> IF \E m \in messages : bubble = {m} THEN 1 ELSE 0]

\* One more bubble
Shows(bubble) == view' = [view EXCEPT ![bubble] = @ + 1]

\* Mutant of RenderHistory: the live turn is taken to be still on the page.
RenderKeepingTurn(s, messages) ==
    /\ view' = Each(messages)
    /\ keys' = messages
    /\ wiped' = (((wiped \cup Shown) \cap Remembered) \cup live.text) \ messages
    /\ early' = messages \ Announced /\ expired' = {}
    /\ strays' = IF s = cur THEN {} ELSE messages
    /\ UNCHANGED live

\* renderHistory, for session s: what was shown is gone, a live turn goes on
\* in a bubble that is no longer on the page.
RenderHistory(s, messages) ==
    /\ view' = Each(messages)
    /\ keys' = messages
    /\ live' = [live EXCEPT !.attached = FALSE]
    /\ wiped' = (((wiped \cup Shown) \cap Remembered) \cup live.text) \ messages
    /\ early' = messages \ Announced /\ expired' = {}
    /\ strays' = IF s = cur THEN {} ELSE messages

\* 30 s have passed since the echo was remembered.
EchoExpires(m) ==
    /\ m \in Remembered \ stale
    /\ Mishap
    /\ stale' = stale \cup {m}
    /\ UNCHANGED <<gatewayVars, arrivals, pageVars, view, live, keys, echoes, early, expired,
                   strays, wiped, told, storage, started>>

\* Mutant of Swallowed: any echo will do.
SwallowedByAny(new) == IF Remembered = {} THEN {} ELSE new

\* consumeLocalAssistantEcho
Swallowed(new) == new \cap (Remembered \ stale)

\* What a poll of the current session found is added, unless it was shown
\* before the history had it and its echo has not expired.
AddUnseen(messages) ==
    LET new == messages \ keys
        swallowed == Swallowed(new)
        added == new \ swallowed
    IN  /\ keys' = keys \cup new
        /\ echoes' = [m \in Messages |-> IF m \in swallowed THEN echoes[m] - 1
                                        ELSE IF m \in added THEN 0 ELSE echoes[m]]
        /\ stale' = stale \ added
        /\ view' = [bubble \in Bubbles |-> view[bubble] + Each(added)[bubble]]
        /\ early' = early \cup (messages \ Announced)
        /\ expired' = expired \cup (added \cap stale)
        /\ wiped' = wiped \ added
        /\ UNCHANGED <<live, strays>>

\* likelyReset: fewer messages than before, and none of those
LikelyReset(messages) ==
    Cardinality(messages) < Cardinality(keys) /\ messages \cap keys = {}

\* pollSessionHistory, called by the timer or after a message has arrived
StartPoll(f) ==
    IF cur = None \/ inFlight
    THEN UNCHANGED <<task, inFlight>>
    ELSE /\ task[f] = Free
         /\ Become(f, [at |-> "poll", s |-> cur])
         /\ inFlight' = TRUE

PollTimerFires(f) ==
    /\ polling /\ cur # None /\ ~inFlight
    /\ StartPoll(f)
    /\ UNCHANGED <<gatewayVars, arrivals, cur, polling, display, told, storage, bounds>>

\* Mutant of PollReturns: the session the page shows is not looked at again.
PollReturnsAnyhow(f) ==
    /\ task[f].at = "polled"
    /\ inFlight' = FALSE
    /\ Become(f, Free)
    /\ IF LikelyReset(task[f].got)
       THEN RenderHistory(cur, task[f].got) /\ UNCHANGED <<echoes, stale>>
       ELSE AddUnseen(task[f].got)
    /\ UNCHANGED <<gatewayVars, arrivals, cur, polling, told, storage, bounds>>

\* Mutant of PollReturns: no finally, so an early return leaves the flag set.
PollReturnsEarly(f) ==
    /\ task[f].at = "polled"
    /\ Become(f, Free)
    /\ IF task[f].s # cur
       THEN UNCHANGED <<display, inFlight>>
       ELSE /\ inFlight' = FALSE
            /\ IF LikelyReset(task[f].got)
               THEN RenderHistory(cur, task[f].got) /\ UNCHANGED <<echoes, stale>>
               ELSE AddUnseen(task[f].got)
    /\ UNCHANGED <<gatewayVars, arrivals, cur, polling, told, storage, bounds>>

PollReturns(f) ==
    /\ task[f].at = "polled"
    /\ inFlight' = FALSE
    /\ Become(f, Free)
    /\ IF task[f].s # cur THEN UNCHANGED display
       ELSE IF LikelyReset(task[f].got)
       THEN RenderHistory(cur, task[f].got) /\ UNCHANGED <<echoes, stale>>
       ELSE AddUnseen(task[f].got)
    /\ UNCHANGED <<gatewayVars, arrivals, cur, polling, told, storage, bounds>>

\* The text of m in the bubble of the live turn, if that is still on the page,
\* or in a new one if there is no live turn
ShowLive(m) ==
    IF live = NoTurn THEN Shows({m})
    ELSE IF live.attached
    THEN view' = [view EXCEPT ![live.text] = @ - 1, ![live.text \cup {m}] = @ + 1]
    ELSE UNCHANGED view

\* The live turn with the text of m added
MergeLive(m) ==
    /\ ShowLive(m)
    /\ live' = [text |-> live.text \cup {m}, attached |-> live.attached \/ live = NoTurn]

\* An event of a run that goes on.  Text that repeats the end of the turn's is
\* taken for a part that came already.
DeltaArrives ==
    /\ wire # <<>> /\ ~Head(wire).final
    /\ wire' = Tail(wire)
    /\ \/ home[Head(wire).msg] = cur /\ MergeLive(Head(wire).msg)
       \/ /\ home[Head(wire).msg] = cur => live.text # {}
          /\ UNCHANGED <<view, live>>
    /\ UNCHANGED <<gatewayVars, replies, streaming, pageVars, known, told, storage, bounds>>

\* Mutant of RememberEcho
ForgetEcho(text) == UNCHANGED <<echoes, stale>>

\* rememberLocalAssistantEcho; a merged text is that of no message.
RememberEcho(text) ==
    /\ echoes' = [m \in Messages |-> IF text = {m} THEN echoes[m] + 1 ELSE echoes[m]]
    /\ stale' = {m \in stale : text # {m}}

\* The last event of a run: the turn is over, and the history is polled.
FinalArrives(f) ==
    LET m == Head(wire).msg
    IN  /\ wire # <<>> /\ Head(wire).final
        /\ wire' = Tail(wire)
        /\ heard' = heard \cup {m}
        /\ IF home[m] # cur THEN UNCHANGED <<view, live, echoes, stale, task, inFlight>>
           ELSE /\ RememberEcho(live.text \cup {m})
                /\ ShowLive(m)
                /\ live' = NoTurn
                /\ StartPoll(f)
        /\ UNCHANGED <<gatewayVars, replies, streaming, cur, polling, keys, early, expired,
                       strays, wiped, answered, storage, bounds>>

\* processQueue gets an answer with text: it is shown whatever session is
\* selected now.
ReplyArrives(f, m) ==
    /\ m \in replies
    /\ replies' = replies \ {m}
    /\ answered' = answered \cup {m}
    /\ RememberEcho({m})
    /\ Shows({m})
    /\ strays' = IF home[m] = cur THEN strays ELSE strays \cup {m}
    /\ StartPoll(f)
    /\ UNCHANGED <<gatewayVars, wire, streaming, cur, polling, keys, live, early, expired, wiped,
                   heard, storage, bounds>>

------------------------------------------------------------------------------
(* Selecting a session *)

\* selectSession up to its first await, behind those that wait for the secure
\* storage; a browser has none and goes on at once.  The exceptions of what the
\* page shows are of the session shown, and begin anew with the one selected.
BeginSelect(f, s, waiting) ==
    /\ cur' = s
    /\ live' = NoTurn
    /\ storedKey' = s
    /\ early' = {} /\ expired' = {} /\ strays' = {}
    /\ IF native
       THEN Become(f, [at |-> "key", s |-> s]) /\ writing' = Append(waiting, f)
       ELSE Become(f, [at |-> "select", s |-> s]) /\ UNCHANGED writing

\* Without a secure storage persistStoredSessionKey is done at once.
KeyKept(key) == local' = IF native THEN local ELSE key

\* The user selects a session, or refreshes the current one.
SelectSession(f, s) ==
    /\ cur # None
    /\ task[f] = Free
    /\ s = cur => RefreshesAmid \/ \A g \in Tasks : task[g] = Free
    /\ BeginSelect(f, s, writing) /\ KeyKept(s)
    /\ UNCHANGED <<gatewayVars, arrivals, polling, inFlight, view, keys, echoes, stale, wiped,
                   told, native, secure, torn, bounds>>

\* The secure storage has answered the task that waited longest.
KeyStored(f) ==
    /\ writing # <<>> /\ Head(writing) = f
    /\ task[f].at = "key"
    /\ KeySecured(task[f].s) \/ KeyNotSecured(task[f].s)
    /\ Become(f, [at |-> "select", s |-> task[f].s])
    /\ writing' = Tail(writing)
    /\ UNCHANGED <<gatewayVars, arrivals, cur, polling, inFlight, display, told,
                   native, storedKey, started>>

\* What a fetch of the history has brought the task
Got(f, messages) ==
    Become(f, [at |-> IF task[f].at = "select" THEN "selected" ELSE "polled",
               s |-> task[f].s, got |-> messages])

\* The server has read the history, over the gateway connection or by HTTP.
HistoryRead(f) ==
    /\ task[f].at \in {"select", "poll"}
    /\ Got(f, hist[task[f].s])
    /\ UNCHANGED <<gatewayVars, arrivals, cur, polling, inFlight, display, told, storage, bounds>>

\* Every way to it failed, the answer is lost, or nobody is signed in, when
\* apiFetch begins a sign-in and throws: the page goes on without messages.
HistoryFails(f) ==
    /\ task[f].at \in {"select", "poll"}
    /\ Mishap
    /\ Got(f, {})
    /\ UNCHANGED <<gatewayVars, arrivals, cur, polling, inFlight, display, told, storage, started>>

\* The rest of selectSession; the current session is not looked at again.
HistoryLoaded(f) ==
    /\ task[f].at = "selected"
    /\ RenderHistory(task[f].s, task[f].got)
    /\ polling' = TRUE /\ inFlight' = FALSE
    /\ Become(f, Free)
    /\ UNCHANGED <<gatewayVars, arrivals, cur, echoes, stale, told, storage, bounds>>

------------------------------------------------------------------------------
(* Loading the list of sessions *)

\* loadSessions, at the start and on 'sessions.changed'
LoadSessions(f) ==
    /\ IF started THEN Mishap ELSE UNCHANGED mishaps
    /\ started' = TRUE
    /\ task[f] = Free
    /\ Become(f, [at |-> "load"])
    /\ UNCHANGED <<gatewayVars, arrivals, cur, polling, inFlight, display, told, storage>>

\* The list is empty, or there is none: polling stops.
NoSessions(f) ==
    /\ task[f].at = "load"
    /\ polling' = FALSE /\ inFlight' = FALSE
    /\ Become(f, Free)
    /\ UNCHANGED <<gatewayVars, arrivals, cur, display, told, storage, bounds>>

\* What GET /api/sessions answers with, when it lists any: each session once
Lists == SUBSET Sessions \ {{}}

\* resolvePreferredSession: the candidates in their order, then any
Preferred(list) ==
    IF cur \in list THEN {cur} ELSE IF storedKey \in list THEN {storedKey} ELSE list

\* The server's list has the current session: nothing changes.
SessionKept(f, list) ==
    /\ task[f].at = "load" /\ cur \in list
    /\ storedKey \in list \cup {None}
    /\ Become(f, Free)
    /\ UNCHANGED <<gatewayVars, arrivals, cur, polling, inFlight, display, told, storage, bounds>>

\* The current session is gone, or none was selected.
SessionSwitched(f, list) ==
    /\ task[f].at = "load" /\ cur \notin list
    /\ cur # None \/ storedKey \in list \cup {None}
    /\ \E s \in Preferred(list) : BeginSelect(f, s, writing) /\ KeyKept(s)
    /\ UNCHANGED <<gatewayVars, arrivals, polling, inFlight, view, keys, echoes, stale, wiped,
                   told, native, secure, torn, bounds>>

\* The saved session is gone: the key is cleared before another is selected.
StoredSessionGone(f, list) ==
    /\ task[f].at = "load"
    /\ cur \in list \cup {None} /\ storedKey \notin list \cup {None}
    /\ \E s \in Preferred(list) :
          IF native
          THEN /\ Become(f, [at |-> "clear", s |-> s])
               /\ storedKey' = None
               /\ writing' = Append(writing, f)
               /\ UNCHANGED <<cur, live, early, expired, strays, local>>
          ELSE BeginSelect(f, s, writing) /\ KeyKept(s)
    /\ UNCHANGED <<gatewayVars, arrivals, polling, inFlight, view, keys, echoes, stale, wiped,
                   told, native, secure, torn, bounds>>

KeyCleared(f) ==
    /\ writing # <<>> /\ Head(writing) = f
    /\ task[f].at = "clear"
    /\ KeySecured(None) \/ KeyNotSecured(None)
    /\ BeginSelect(f, task[f].s, Tail(writing))
    /\ UNCHANGED <<gatewayVars, arrivals, polling, inFlight, view, keys, echoes, stale, wiped,
                   told, native, started>>

------------------------------------------------------------------------------
(* Leaving the page *)

\* A page that has just been loaded
FreshPage ==
    /\ cur' = None /\ task' = [f \in Tasks |-> Free]
    /\ polling' = FALSE /\ inFlight' = FALSE
    /\ view' = Each({}) /\ keys' = {} /\ live' = NoTurn /\ echoes' = NoEchoes /\ stale' = {}
    /\ early' = {} /\ expired' = {} /\ strays' = {} /\ wiped' = {}
    /\ heard' = {} /\ answered' = {}
    /\ wire' = <<>> /\ replies' = {} /\ streaming' = FALSE
    /\ writing' = <<>>
    /\ started' = FALSE

\* The page is loaded again; of the calls to the secure storage none or the
\* first one is still made.
Reload ==
    /\ Mishap
    /\ FreshPage
    /\ \E sec \in {secure} \cup (IF writing = <<>> THEN {} ELSE {Written(Head(writing))}) :
          Hydrate(sec, local)
    /\ UNCHANGED <<gatewayVars, native>>

\* logout: the key is removed from both storages, then the page is left.  A
\* removal the secure storage refuses is given up, and the next page finds the key.
Logout(f) ==
    /\ cur # None
    /\ Mishap
    /\ task[f] = Free
    /\ polling' = FALSE /\ inFlight' = FALSE
    /\ storedKey' = None
    /\ Become(f, [at |-> "bye"])
    /\ IF native THEN writing' = Append(writing, f) /\ UNCHANGED local
                 ELSE local' = None /\ UNCHANGED writing
    /\ UNCHANGED <<gatewayVars, arrivals, cur, display, told, native, secure, torn, started>>

LoggedOut(f) ==
    /\ task[f].at = "bye"
    /\ native => writing # <<>> /\ Head(writing) = f
    /\ FreshPage
    /\ secure' \in {None, secure}
    /\ storedKey' = secure' /\ local' = None /\ torn' = FALSE
    /\ UNCHANGED <<gatewayVars, native, mishaps>>

------------------------------------------------------------------------------
Init ==
    /\ home = [m \in Messages |-> None] /\ hist = [s \in Sessions |-> {}]
    /\ running = {} /\ wire = <<>> /\ replies = {} /\ streaming = FALSE
    /\ cur = None /\ task = [f \in Tasks |-> Free]
    /\ polling = FALSE /\ inFlight = FALSE
    /\ view = Each({}) /\ keys = {} /\ live = NoTurn /\ echoes = NoEchoes /\ stale = {}
    /\ early = {} /\ expired = {} /\ strays = {} /\ wiped = {}
    /\ heard = {} /\ answered = {}
    /\ native \in Places
    /\ storedKey = None /\ secure = None /\ local = None /\ writing = <<>> /\ torn = FALSE
    /\ started = FALSE /\ mishaps = 0

GatewayStep ==
    \/ \E m \in Messages : RunStarts(m) \/ RunEnds(m) \/ RunReplies(m)
    \/ StreamFails \/ StreamOpens

TaskStep(f) ==
    \/ PollTimerFires(f) \/ PollReturns(f)
    \/ FinalArrives(f) \/ \E m \in Messages : ReplyArrives(f, m)
    \/ \E s \in Sessions : SelectSession(f, s)
    \/ KeyStored(f) \/ HistoryRead(f) \/ HistoryFails(f) \/ HistoryLoaded(f)
    \/ LoadSessions(f) \/ NoSessions(f) \/ KeyCleared(f)
    \/ \E list \in Lists :
          SessionKept(f, list) \/ SessionSwitched(f, list) \/ StoredSessionGone(f, list)
    \/ Logout(f) \/ LoggedOut(f)

Next ==
    \/ GatewayStep \/ DeltaArrives \/ (\E f \in Tasks : TaskStep(f)) \/ Reload
    \/ \E m \in Messages : EchoExpires(m)

Spec == Init /\ [][Next]_vars

------------------------------------------------------------------------------
(* Properties *)

\* Every variable holds a value of its type.
TypeOK ==
    /\ home \in [Messages -> Sessions \cup {None}]
    /\ hist \in [Sessions -> SUBSET Messages]
    /\ running \subseteq Messages /\ replies \subseteq Messages
    /\ wire \in Seq(Event)
    /\ streaming \in BOOLEAN /\ polling \in BOOLEAN /\ inFlight \in BOOLEAN
    /\ cur \in Sessions \cup {None}
    /\ task \in [Tasks -> Task]
    /\ view \in [Bubbles -> Nat]
    /\ live \in [text : Bubbles, attached : BOOLEAN]
    /\ echoes \in [Messages -> Nat]
    /\ keys \cup stale \cup early \cup expired \cup strays \cup wiped \subseteq Messages
    /\ heard \cup answered \subseteq Messages
    /\ native \in BOOLEAN /\ torn \in BOOLEAN
    /\ {storedKey, secure, local} \subseteq Sessions \cup {None}
    /\ writing \in Seq(Tasks)
    /\ started \in BOOLEAN /\ mishaps \in 0 .. MaxMishaps

\* What the page shows belongs to the selected session, unless that session is
\* still being loaded, or a selection that was overtaken, or an answer to a
\* POST, brought it: never a poll or an event, however long they were under way
\* (index.html:3278-3332, 3722-3761).
ShowsSelected ==
    cur # None /\ ~Selecting(cur) =>
        \A m \in Shown : home[m] = cur \/ m \in strays

\* Polls add no second bubble of a message: it has one of its own for the event
\* and one for the answer of the POST, if both bring it, and otherwise one,
\* whichever of them comes when.  Excepted is what a history had before the page
\* got it in another way, and what came in a history after its echo had expired
\* (index.html:3216-3246, 3301-3311, 3755-3759, 4131-4137).
ShownOnce ==
    ~Selecting(cur) =>
        \A m \in Messages \ (early \cup expired) :
            view[{m}] <= IF m \in answered /\ m \in heard \cup live.text THEN 2 ELSE 1

\* A message that polls will not add any more is shown, unless rendering the
\* history removed the bubble it was shown in (index.html:3301-3311, 3793-3823).
KnownIsShown == \A m \in keys : m \in Shown \cup wiped

\* The flag that keeps polls apart is set only while a poll is under way: no poll
\* that fails, or is overtaken, keeps the timer from starting the next
\* (index.html:3263-3283, 3329-3331).
PollsGoOn == inFlight => \E f \in Tasks : task[f].at \in {"poll", "polled"}

\* Once nothing waits for the secure storage, a page loaded again would find the
\* key this one has, unless a failed call left an older key behind
\* (session-key-hydration.js:42-104, secure-storage.js:40-71).
RestoresStored == writing = <<>> /\ ~torn => Hydrated = storedKey
===============================================================================
