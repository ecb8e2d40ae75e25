--------------------------- MODULE SessionViewProofs ---------------------------
(***************************************************************************)
(* What the page promises, for any number of sessions, tasks, messages and *)
(* mishaps: its types; that the selected session is shown, each message    *)
(* once, and what it takes as known; that polling goes on; and that a page *)
(* loaded again finds the key of its session.                              *)
(*                                                                         *)
(* What is shown.  WhereInv: a history has the messages of its session, an *)
(* event or answer on its way is of a message that is written, and the     *)
(* last event of a message is its last.  OnceInv counts the bubbles of a   *)
(* message against the ways it came, of which the live turn is one before  *)
(* its last event.  One the page has had is known to polls, or an echo     *)
(* makes them skip it, or it is shown in the live turn only.               *)
(*                                                                         *)
(* The key.  The tasks that wait for the secure storage stand in its queue *)
(* once each, and the last of them writes storedSessionKey, so the storage *)
(* has it when the queue is empty.                                         *)
(***************************************************************************)
EXTENDS SessionView, TLAPS

TaskFunction == task = [f \in Tasks |-> task[f]]

PollInv == TaskFunction /\ PollsGoOn

Queueing == {"key", "clear", "bye"}

\* Who waits for the secure storage stands in its queue once.
QueueIsOfTasks ==
    /\ writing \in Seq(Tasks)
    /\ \A i \in 1 .. Len(writing) : task[writing[i]].at \in Queueing
    /\ \A i, j \in 1 .. Len(writing) : writing[i] = writing[j] => i = j

\* What is written last is the key the page has.
LastIsStored ==
    writing # <<>> => native /\ Written(writing[Len(writing)]) = storedKey

\* A browser has localStorage only, and writes it at once.
BrowserHasKey == ~native => secure = None /\ local = storedKey

StorageInv == QueueIsOfTasks /\ LastIsStored /\ BrowserHasKey /\ RestoresStored

IInv == PollInv /\ StorageInv

LEMMA InitIInv == Init => IInv
BY DEF Init, IInv, PollInv, TaskFunction, PollsGoOn, StorageInv, QueueIsOfTasks, LastIsStored,
       BrowserHasKey, RestoresStored, Hydrated

LEMMA Becomes ==
    ASSUME TaskFunction, NEW f \in Tasks, NEW state, Become(f, state)
    PROVE  /\ TaskFunction'
           /\ task'[f] = state
           /\ \A g \in Tasks : g # f => task'[g] = task[g]
BY DEF TaskFunction, Become

------------------------------------------------------------------------------
(* Types *)

GatewayTypes ==
    /\ home \in [Messages -> Sessions \cup {None}]
    /\ hist \in [Sessions -> SUBSET Messages]
    /\ running \subseteq Messages /\ replies \subseteq Messages
    /\ streaming \in BOOLEAN

WireTypes == wire \in Seq(Event)

PageTypes ==
    /\ cur \in Sessions \cup {None} /\ task \in [Tasks -> Task]
    /\ polling \in BOOLEAN /\ inFlight \in BOOLEAN
    /\ started \in BOOLEAN /\ mishaps \in 0 .. MaxMishaps

KeyTypes ==
    /\ native \in BOOLEAN /\ torn \in BOOLEAN
    /\ {storedKey, secure, local} \subseteq Sessions \cup {None}
    /\ writing \in Seq(Tasks)

\* A live turn that is attached has text, and its bubble on the page.
ViewTypes ==
    /\ view \in [Bubbles -> Nat]
    /\ live \in [text : Bubbles, attached : BOOLEAN]
    /\ live.attached => live.text # {} /\ view[live.text] > 0
    /\ echoes \in [Messages -> Nat]
    /\ keys \cup early \cup expired \cup strays \cup wiped \subseteq Messages
    /\ heard \cup answered \subseteq Messages

StaleTypes == stale \subseteq Messages

TypeInv == GatewayTypes /\ WireTypes /\ PageTypes /\ KeyTypes /\ ViewTypes /\ StaleTypes

LEMMA TaskFields ==
    ASSUME NEW t \in Task
    PROVE  /\ t.at \in {"clear", "key", "select", "poll", "selected", "polled"} => t.s \in Sessions
           /\ t.at \in {"selected", "polled"} => t.got \in SUBSET Messages
BY DEF Task, Free

LEMMA NewTasks ==
    /\ Free \in Task
    /\ \A at \in {"load", "bye"} : [at |-> at] \in Task
    /\ \A at \in {"clear", "key", "select", "poll"}, s \in Sessions : [at |-> at, s |-> s] \in Task
    /\ \A at \in {"selected", "polled"}, s \in Sessions, got \in SUBSET Messages :
          [at |-> at, s |-> s, got |-> got] \in Task
BY DEF Task

LEMMA EachTypes ==
    ASSUME NEW S
    PROVE  /\ Each(S) \in [Bubbles -> Nat]
           /\ \A m \in Messages : Each(S)[{m}] = IF m \in S THEN 1 ELSE 0
           /\ \A b \in Bubbles : Each(S)[b] > 0 => \E m \in S : b = {m}
BY DEF Each, Bubbles

LEMMA NoTurnTypes ==
    /\ NoTurn \in [text : Bubbles, attached : BOOLEAN]
    /\ NoTurn.text = {} /\ NoTurn.attached = FALSE
BY DEF NoTurn, Bubbles

LEMMA InitTypes == Init => TypeInv
<1>0. SUFFICES ASSUME Init PROVE TypeInv
  OBVIOUS
<1>1. GatewayTypes
  <2>1. /\ home = [m \in Messages |-> None] /\ hist = [s \in Sessions |-> {}]
        /\ running = {} /\ replies = {} /\ streaming = FALSE
    BY <1>0 DEF Init
  <2>. QED
    BY <2>1 DEF GatewayTypes
<1>5. WireTypes
  <2>1. wire = <<>>
    BY <1>0 DEF Init
  <2>. QED
    BY <2>1 DEF WireTypes
<1>2. PageTypes
  <2>1. cur \in Sessions \cup {None} /\ task \in [Tasks -> Task]
    BY <1>0, NewTasks DEF Init
  <2>2. polling \in BOOLEAN /\ inFlight \in BOOLEAN /\ started \in BOOLEAN
    BY <1>0 DEF Init
  <2>3. mishaps \in 0 .. MaxMishaps
    BY <1>0, SessionViewAssumption DEF Init
  <2>. QED
    BY <2>1, <2>2, <2>3 DEF PageTypes
<1>3. KeyTypes
  <2>1. native \in BOOLEAN /\ storedKey = None /\ secure = None /\ local = None
    BY <1>0, SessionViewAssumption DEF Init
  <2>2. writing \in Seq(Tasks)
    BY <1>0 DEF Init
  <2>3. torn \in BOOLEAN
    BY <1>0 DEF Init
  <2>. QED
    BY <2>1, <2>2, <2>3 DEF KeyTypes
<1>4. ViewTypes
  <2>1. /\ view = Each({}) /\ keys = {} /\ live = NoTurn /\ echoes = NoEchoes
        /\ early = {} /\ expired = {} /\ strays = {} /\ wiped = {}
        /\ heard = {} /\ answered = {}
    BY <1>0 DEF Init
  <2>2. echoes \in [Messages -> Nat]
    BY <2>1 DEF NoEchoes
  <2>. QED
    BY <2>1, <2>2, EachTypes, NoTurnTypes DEF ViewTypes
<1>6. StaleTypes
  BY <1>0 DEF Init, StaleTypes
<1>. QED
  BY <1>1, <1>5, <1>2, <1>3, <1>4, <1>6 DEF TypeInv

LEMMA Tasked ==
    ASSUME PageTypes, NEW f \in Tasks, NEW state \in Task, Become(f, state)
    PROVE  task' \in [Tasks -> Task]
BY DEF PageTypes, Become

LEMMA StartPollTypes ==
    ASSUME PageTypes, NEW f \in Tasks, StartPoll(f)
    PROVE  task' \in [Tasks -> Task] /\ inFlight' \in BOOLEAN
BY NewTasks, Tasked DEF PageTypes, StartPoll

LEMMA BeginSelectTypes ==
    ASSUME PageTypes, NEW f \in Tasks, NEW s \in Sessions, NEW q, BeginSelect(f, s, q)
    PROVE  task' \in [Tasks -> Task] /\ cur' \in Sessions /\ storedKey' = s /\ live' = NoTurn
BY NewTasks, Tasked DEF PageTypes, BeginSelect

\* The first event on the wire and what is behind it
LEMMA EventFields == \A e \in Event : e.msg \in Messages
BY DEF Event

LEMMA WireHead ==
    ASSUME wire \in Seq(Event), wire # <<>>
    PROVE  /\ Head(wire) \in Event
           /\ Head(wire) = wire[1] /\ 1 \in 1 .. Len(wire)
           /\ Tail(wire) \in Seq(Event)
           /\ Len(Tail(wire)) = Len(wire) - 1
           /\ \A i \in 1 .. Len(Tail(wire)) : i + 1 \in 1 .. Len(wire) /\ Tail(wire)[i] = wire[i + 1]
OBVIOUS

\* Which steps touch the gateway and the wire
GatewayStays == UNCHANGED <<home, hist, running>>
WireStays == UNCHANGED <<wire, replies, streaming>>

WireMoves ==
    \/ \E m \in Messages : RunStarts(m) \/ RunEnds(m) \/ RunReplies(m)
    \/ StreamFails \/ StreamOpens \/ DeltaArrives
    \/ \E f \in Tasks : FinalArrives(f) \/ \E m \in Messages : ReplyArrives(f, m)

LEMMA Elsewhere ==
    ASSUME [Next]_vars
    PROVE  WireMoves \/ (GatewayStays /\ (WireStays \/ FreshPage))
<1>1. ASSUME NEW f \in Tasks, TaskStep(f)
      PROVE  WireMoves \/ (GatewayStays /\ (WireStays \/ FreshPage))
  BY <1>1
     DEF TaskStep, PollTimerFires, PollReturns, SelectSession, KeyStored, HistoryRead, HistoryFails,
         HistoryLoaded, LoadSessions, NoSessions, KeyCleared, SessionKept, SessionSwitched,
         StoredSessionGone, Logout, LoggedOut, WireMoves, GatewayStays, WireStays,
         gatewayVars, arrivals
<1>2. CASE UNCHANGED vars
  BY <1>2 DEF vars, GatewayStays, WireStays, gatewayVars, arrivals
<1>3. CASE Reload
  BY <1>3 DEF Reload, GatewayStays, gatewayVars
<1>4. CASE \E m \in Messages : EchoExpires(m)
  BY <1>4 DEF EchoExpires, GatewayStays, WireStays, gatewayVars, arrivals
<1>. QED
  BY <1>1, <1>2, <1>3, <1>4 DEF Next, GatewayStep, WireMoves

LEMMA NextGatewayTypes == TypeInv /\ [Next]_vars => GatewayTypes'
<1>0. SUFFICES ASSUME TypeInv, [Next]_vars PROVE GatewayTypes'
  OBVIOUS
<1>1. GatewayTypes /\ cur \in Sessions \cup {None}
  BY <1>0 DEF TypeInv, PageTypes
<1>2. ASSUME NEW m \in Messages, RunStarts(m) \/ RunEnds(m) \/ RunReplies(m)
      PROVE  GatewayTypes'
  BY <1>1, <1>2 DEF RunStarts, RunEnds, RunReplies, Begins, GatewayTypes
<1>3. CASE \/ StreamFails \/ StreamOpens \/ DeltaArrives
           \/ \E f \in Tasks : FinalArrives(f) \/ \E m \in Messages : ReplyArrives(f, m)
  <2>1. /\ UNCHANGED <<home, hist, running>>
        /\ replies' \subseteq replies /\ streaming' \in {streaming, TRUE, FALSE}
    BY <1>3 DEF StreamFails, StreamOpens, DeltaArrives, FinalArrives, ReplyArrives, gatewayVars
  <2>. QED
    BY <1>1, <2>1 DEF GatewayTypes
<1>4. CASE GatewayStays /\ (WireStays \/ FreshPage)
  BY <1>1, <1>4 DEF GatewayStays, WireStays, FreshPage, GatewayTypes
<1>. QED
  BY <1>0, <1>2, <1>3, <1>4, Elsewhere DEF WireMoves

\* What happens to the wire
WireStep ==
    \/ wire' = wire
    \/ wire' = <<>>
    \/ wire # <<>> /\ wire' = Tail(wire)
    \/ \E e \in Event : wire' = Append(wire, e)

LEMMA NextWireTypes == TypeInv /\ [Next]_vars => WireTypes'
<1>0. SUFFICES ASSUME TypeInv, [Next]_vars PROVE WireTypes'
  OBVIOUS
<1>1. wire \in Seq(Event)
  BY <1>0 DEF TypeInv, WireTypes
<1>2. \A m \in Messages, b \in BOOLEAN : [msg |-> m, final |-> b] \in Event
  BY DEF Event
<1>3. ASSUME NEW m \in Messages, RunStarts(m) \/ RunEnds(m) \/ RunReplies(m)
      PROVE  WireStep
  BY <1>2, <1>3 DEF RunStarts, RunEnds, RunReplies, WireStep
<1>4. WireStep
  BY <1>0, <1>3, Elsewhere
     DEF WireMoves, StreamFails, StreamOpens, DeltaArrives, FinalArrives, ReplyArrives,
         WireStays, FreshPage, WireStep
<1>5. wire' \in Seq(Event)
  <2>1. wire # <<>> => Tail(wire) \in Seq(Event)
    BY <1>1, WireHead
  <2>2. \A e \in Event : Append(wire, e) \in Seq(Event)
    BY <1>1
  <2>3. <<>> \in Seq(Event)
    OBVIOUS
  <2>. QED
    BY <1>1, <1>4, <2>1, <2>2, <2>3, Zenon DEF WireStep
<1>. QED
  BY <1>5 DEF WireTypes

LEMMA NextPageTypes == TypeInv /\ [Next]_vars => PageTypes'
<1>0. SUFFICES ASSUME TypeInv, [Next]_vars PROVE PageTypes'
  OBVIOUS
<1>. PageTypes /\ GatewayTypes /\ KeyTypes
  BY <1>0 DEF TypeInv
<1>1. CASE UNCHANGED <<pageVars, bounds>>
  BY <1>1 DEF pageVars, bounds, PageTypes
<1>2. Mishap => mishaps' \in 0 .. MaxMishaps
  BY SessionViewAssumption DEF Mishap, PageTypes
<1>3. CASE GatewayStep \/ DeltaArrives \/ \E m \in Messages : EchoExpires(m)
  BY <1>1, <1>2, <1>3
     DEF GatewayStep, RunStarts, RunEnds, RunReplies, StreamFails, StreamOpens, DeltaArrives,
         EchoExpires, pageVars, bounds, PageTypes
<1>4. CASE Reload
  BY <1>2, <1>4, NewTasks DEF Reload, FreshPage, PageTypes
<1>5. ASSUME NEW f \in Tasks, TaskStep(f)
      PROVE  PageTypes'
  <2>. DEFINE state == task[f]
  <2>0. state \in Task
    BY DEF PageTypes
  <2>1. CASE PollTimerFires(f) \/ FinalArrives(f) \/ \E m \in Messages : ReplyArrives(f, m)
    BY <2>1, StartPollTypes DEF PollTimerFires, FinalArrives, ReplyArrives, bounds, PageTypes
  <2>2. CASE PollReturns(f) \/ HistoryLoaded(f) \/ NoSessions(f)
             \/ \E list \in Lists : SessionKept(f, list)
    BY <2>2, NewTasks, Tasked
       DEF PollReturns, HistoryLoaded, NoSessions, SessionKept, bounds, PageTypes
  <2>3. CASE LoadSessions(f) \/ Logout(f)
    BY <1>2, <2>3, NewTasks, Tasked DEF LoadSessions, Logout, PageTypes
  <2>4. ASSUME NEW s \in Sessions, SelectSession(f, s)
        PROVE  PageTypes'
    BY <2>4, BeginSelectTypes DEF SelectSession, bounds, PageTypes
  <2>5. CASE HistoryRead(f) \/ HistoryFails(f)
    <3>1. state.s \in Sessions
      BY <2>0, <2>5, TaskFields DEF HistoryRead, HistoryFails
    <3>2. PICK messages \in SUBSET Messages : Got(f, messages)
      BY <2>5, <3>1 DEF HistoryRead, HistoryFails, GatewayTypes
    <3>3. task' \in [Tasks -> Task]
      BY <3>1, <3>2, NewTasks, Tasked DEF Got
    <3>. QED
      BY <1>2, <2>5, <3>3 DEF HistoryRead, HistoryFails, bounds, PageTypes
  <2>6. CASE KeyStored(f)
    <3>1. state.s \in Sessions
      BY <2>0, <2>6, TaskFields DEF KeyStored
    <3>2. task' \in [Tasks -> Task]
      BY <2>6, <3>1, NewTasks, Tasked DEF KeyStored
    <3>. QED
      BY <1>2, <2>6, <3>2 DEF KeyStored, KeySecured, KeyNotSecured, PageTypes
  <2>7. CASE KeyCleared(f)
    <3>1. state.s \in Sessions
      BY <2>0, <2>7, TaskFields DEF KeyCleared
    <3>2. task' \in [Tasks -> Task] /\ cur' \in Sessions
      BY <2>7, <3>1, BeginSelectTypes DEF KeyCleared
    <3>. QED
      BY <1>2, <2>7, <3>2 DEF KeyCleared, KeySecured, KeyNotSecured, PageTypes
  <2>8. ASSUME NEW list \in Lists, SessionSwitched(f, list) \/ StoredSessionGone(f, list)
        PROVE  PageTypes'
    <3>1. list \subseteq Sessions /\ Preferred(list) \subseteq Sessions
      BY DEF Lists, Preferred
    <3>2. PICK s \in Sessions : \/ BeginSelect(f, s, writing)
                                \/ Become(f, [at |-> "clear", s |-> s]) /\ UNCHANGED cur
      BY <2>8, <3>1 DEF SessionSwitched, StoredSessionGone
    <3>3. task' \in [Tasks -> Task] /\ cur' \in Sessions \cup {None}
      BY <3>2, NewTasks, Tasked, BeginSelectTypes DEF PageTypes
    <3>. QED
      BY <2>8, <3>3 DEF SessionSwitched, StoredSessionGone, bounds, PageTypes
  <2>9. CASE LoggedOut(f)
    BY <2>9, NewTasks DEF LoggedOut, FreshPage, PageTypes
  <2>. QED
    BY <1>5, <2>1, <2>2, <2>3, <2>4, <2>5, <2>6, <2>7, <2>8, <2>9 DEF TaskStep
<1>6. CASE UNCHANGED vars
  BY <1>1, <1>6 DEF vars
<1>. QED
  BY <1>0, <1>3, <1>4, <1>5, <1>6 DEF Next

\* What the storages can hold
Key == Sessions \cup {None}

LEMMA WrittenTypes ==
    ASSUME PageTypes, NEW f \in Tasks
    PROVE  Written(f) \in Key
<1>1. task[f] \in Task
  BY DEF PageTypes
<1>. QED
  BY <1>1, TaskFields DEF Written, Key

LEMMA HydrateTypes ==
    ASSUME KeyTypes, NEW sec \in Key, NEW loc \in Key, Hydrate(sec, loc)
    PROVE  {storedKey', secure', local'} \subseteq Key /\ torn' \in BOOLEAN
BY DEF KeyTypes, Hydrate, Key

LEMMA StoredTypes ==
    ASSUME KeyTypes, NEW key \in Key, KeySecured(key) \/ KeyNotSecured(key)
    PROVE  {secure', local'} \subseteq Key /\ torn' \in BOOLEAN
BY DEF KeyTypes, KeySecured, KeyNotSecured, Key

LEMMA SelectTypes ==
    ASSUME KeyTypes, NEW f \in Tasks, NEW s \in Sessions, BeginSelect(f, s, writing)
    PROVE  storedKey' \in Key /\ writing' \in Seq(Tasks)
<1>1. writing \in Seq(Tasks) /\ Append(writing, f) \in Seq(Tasks)
  BY DEF KeyTypes
<1>2. storedKey' = s /\ writing' \in {writing, Append(writing, f)}
  BY DEF BeginSelect
<1>. QED
  BY <1>1, <1>2 DEF Key

LEMMA NextKeyTypes == TypeInv /\ [Next]_vars => KeyTypes'
<1>0. SUFFICES ASSUME TypeInv, [Next]_vars PROVE KeyTypes'
  OBVIOUS
<1>. PageTypes /\ KeyTypes
  BY <1>0 DEF TypeInv
<1>1. CASE UNCHANGED storage
  BY <1>1 DEF storage, KeyTypes
<1>2. writing \in Seq(Tasks) /\ {storedKey, secure, local} \subseteq Key /\ None \in Key
  BY DEF KeyTypes, Key
<1>3. writing # <<>> => Head(writing) \in Tasks /\ Tail(writing) \in Seq(Tasks)
  BY <1>2
<1>4. <<>> \in Seq(Tasks) /\ \A f \in Tasks : Append(writing, f) \in Seq(Tasks)
  BY <1>2
<1>5. ASSUME UNCHANGED native, writing' \in Seq(Tasks), torn' \in BOOLEAN,
             {storedKey', secure', local'} \subseteq Key
      PROVE  KeyTypes'
  BY <1>5 DEF KeyTypes, Key
<1>6. CASE Reload
  <2>1. PICK sec : /\ sec \in {secure} \cup (IF writing = <<>> THEN {} ELSE {Written(Head(writing))})
                   /\ Hydrate(sec, local)
    BY <1>6 DEF Reload
  <2>2. sec \in Key /\ local \in Key
    BY <1>2, <1>3, <2>1, WrittenTypes
  <2>3. {storedKey', secure', local'} \subseteq Key /\ torn' \in BOOLEAN
    BY <2>1, <2>2, HydrateTypes
  <2>. QED
    BY <1>4, <1>5, <1>6, <2>3 DEF Reload, FreshPage
<1>7. ASSUME NEW f \in Tasks, TaskStep(f)
      PROVE  KeyTypes'
  <2>1. task[f] \in Task /\ (task[f].at \in {"key", "clear"} => task[f].s \in Sessions)
    BY TaskFields DEF PageTypes
  <2>2. ASSUME NEW s \in Sessions, BeginSelect(f, s, writing), KeyKept(s),
               UNCHANGED <<native, secure, torn>>
        PROVE  KeyTypes'
    <3>1. storedKey' \in Key /\ writing' \in Seq(Tasks) /\ local' \in Key
      BY <1>2, <2>2, SelectTypes DEF KeyKept, Key
    <3>. QED
      BY <1>2, <1>5, <2>2, <3>1 DEF KeyTypes
  <2>3. CASE \E s \in Sessions : SelectSession(f, s)
    BY <2>2, <2>3 DEF SelectSession
  <2>4. CASE KeyStored(f)
    <3>1. {secure', local'} \subseteq Key /\ torn' \in BOOLEAN
      BY <2>1, <2>4, StoredTypes DEF KeyStored, Key
    <3>. QED
      BY <1>2, <1>3, <1>5, <2>4, <3>1 DEF KeyStored
  <2>5. CASE KeyCleared(f)
    <3>1. {secure', local'} \subseteq Key /\ torn' \in BOOLEAN
      BY <1>2, <2>5, StoredTypes DEF KeyCleared
    <3>2. storedKey' \in Key /\ writing' \in Seq(Tasks)
      <4>1. BeginSelect(f, task[f].s, Tail(writing)) /\ Tail(writing) \in Seq(Tasks)
            /\ task[f].s \in Sessions
        BY <1>3, <2>1, <2>5 DEF KeyCleared
      <4>2. writing' \in {writing, Append(Tail(writing), f)} /\ storedKey' = task[f].s
        BY <4>1 DEF BeginSelect
      <4>. QED
        BY <1>2, <4>1, <4>2 DEF Key
    <3>. QED
      BY <1>5, <2>5, <3>1, <3>2 DEF KeyCleared
  <2>6. ASSUME NEW list \in Lists, SessionSwitched(f, list)
        PROVE  KeyTypes'
    BY <2>2, <2>6 DEF SessionSwitched, Lists, Preferred
  <2>7. ASSUME NEW list \in Lists, StoredSessionGone(f, list)
        PROVE  KeyTypes'
    <3>1. UNCHANGED <<native, secure, torn>>
      BY <2>7 DEF StoredSessionGone
    <3>2. CASE native
      <4>1. storedKey' = None /\ writing' = Append(writing, f) /\ UNCHANGED local
        BY <2>7, <3>2 DEF StoredSessionGone
      <4>. QED
        BY <1>2, <1>4, <1>5, <3>1, <4>1 DEF KeyTypes
    <3>3. CASE ~native
      <4>1. PICK s \in Preferred(list) : BeginSelect(f, s, writing) /\ KeyKept(s)
        BY <2>7, <3>3 DEF StoredSessionGone
      <4>2. s \in Sessions
        BY <4>1 DEF Lists, Preferred
      <4>. QED
        BY <2>2, <3>1, <4>1, <4>2
    <3>. QED
      BY <3>2, <3>3
  <2>8. CASE Logout(f)
    <3>1. /\ UNCHANGED <<native, secure, torn>> /\ storedKey' = None
          /\ local' \in {local, None} /\ writing' \in {writing, Append(writing, f)}
      BY <2>8 DEF Logout
    <3>. QED
      BY <1>2, <1>4, <1>5, <3>1 DEF KeyTypes
  <2>9. CASE LoggedOut(f)
    BY <1>2, <1>4, <1>5, <2>9 DEF LoggedOut, FreshPage
  <2>. QED
    BY <1>1, <1>7, <2>3, <2>4, <2>5, <2>6, <2>7, <2>8, <2>9
       DEF TaskStep, PollTimerFires, PollReturns, FinalArrives, ReplyArrives, HistoryRead,
           HistoryFails, HistoryLoaded, LoadSessions, NoSessions, SessionKept
<1>8. CASE GatewayStep \/ DeltaArrives \/ \E m \in Messages : EchoExpires(m)
  BY <1>1, <1>8 DEF GatewayStep, RunStarts, RunEnds, RunReplies, StreamFails, StreamOpens,
                    DeltaArrives, EchoExpires
<1>9. CASE UNCHANGED vars
  BY <1>1, <1>9 DEF vars
<1>. QED
  BY <1>0, <1>6, <1>7, <1>8, <1>9 DEF Next

------------------------------------------------------------------------------
(* What is shown *)

\* Counting things up and down
LEMMA OneMore ==
    ASSUME NEW B, NEW v \in [B -> Nat], NEW b \in B
    PROVE  /\ [v EXCEPT ![b] = @ + 1] \in [B -> Nat]
           /\ \A c \in B : [v EXCEPT ![b] = @ + 1][c] = IF c = b THEN v[c] + 1 ELSE v[c]
OBVIOUS

LEMMA OneInstead ==
    ASSUME NEW B, NEW v \in [B -> Nat], NEW a \in B, NEW b \in B, v[a] > 0
    PROVE  /\ [v EXCEPT ![a] = @ - 1, ![b] = @ + 1] \in [B -> Nat]
           /\ \A c \in B : [v EXCEPT ![a] = @ - 1, ![b] = @ + 1][c] =
                 (v[c] - (IF c = a THEN 1 ELSE 0)) + (IF c = b THEN 1 ELSE 0)
<1>1. PICK w : w = [v EXCEPT ![a] = @ - 1, ![b] = @ + 1]
  OBVIOUS
<1>2. v[a] - 1 \in Nat /\ v[a] \in Nat
  OBVIOUS
<1>3. CASE a = b
  <2>1. \A c \in B : w[c] = v[c]
    BY <1>1, <1>2, <1>3
  <2>. QED
    BY <1>1, <1>2, <1>3, <2>1
<1>4. CASE a # b
  <2>1. \A c \in B : w[c] = IF c = b THEN v[c] + 1 ELSE IF c = a THEN v[c] - 1 ELSE v[c]
    BY <1>1, <1>2, <1>4
  <2>. QED
    BY <1>1, <1>2, <1>4, <2>1
<1>. QED
  BY <1>3, <1>4

\* How many bubbles there are of each after a step of the live turn
LEMMA LiveShown ==
    ASSUME ViewTypes, NEW m \in Messages, ShowLive(m)
    PROVE  /\ view' \in [Bubbles -> Nat]
           /\ live # NoTurn /\ ~live.attached => UNCHANGED view
           /\ live = NoTurn \/ live.attached =>
                 \A b \in Bubbles :
                    view'[b] = (view[b] - (IF live.attached /\ b = live.text THEN 1 ELSE 0))
                                  + (IF b = live.text \cup {m} THEN 1 ELSE 0)
<1>. DEFINE text == live.text \cup {m}
<1>1. /\ view \in [Bubbles -> Nat] /\ live.text \in Bubbles /\ text \in Bubbles
      /\ live.attached => view[live.text] > 0
  BY DEF ViewTypes, Bubbles
<1>2. CASE live = NoTurn
  <2>1. text = {m} /\ live.attached = FALSE
    BY <1>2, NoTurnTypes
  <2>. HIDE DEF text
  <2>2. view' = [view EXCEPT ![{m}] = @ + 1]
    BY <1>2 DEF ShowLive, Shows
  <2>3. /\ view' \in [Bubbles -> Nat]
        /\ \A b \in Bubbles : view'[b] = IF b = text THEN view[b] + 1 ELSE view[b]
    BY <1>1, <2>1, <2>2, OneMore
  <2>. QED
    BY <1>1, <1>2, <2>1, <2>3 DEF text
<1>3. CASE live # NoTurn /\ live.attached
  <2>1. view' = [view EXCEPT ![live.text] = @ - 1, ![text] = @ + 1]
    BY <1>3 DEF ShowLive
  <2>. HIDE DEF text
  <2>2. /\ view' \in [Bubbles -> Nat]
        /\ \A b \in Bubbles :
           view'[b] = (view[b] - (IF b = live.text THEN 1 ELSE 0)) + (IF b = text THEN 1 ELSE 0)
    BY <1>1, <1>3, <2>1, OneInstead
  <2>. QED
    BY <1>3, <2>2 DEF text
<1>4. CASE live # NoTurn /\ ~live.attached
  BY <1>1, <1>4 DEF ShowLive
<1>. QED
  BY <1>2, <1>3, <1>4

LEMMA Merged ==
    ASSUME ViewTypes, NEW m \in Messages, MergeLive(m)
    PROVE  /\ live' \in [text : Bubbles, attached : BOOLEAN]
           /\ live'.text = live.text \cup {m}
           /\ live'.attached <=> live.attached \/ live = NoTurn
           /\ live'.attached => live'.text # {} /\ view'[live'.text] > 0
<1>1. live.text \cup {m} \in Bubbles /\ view \in [Bubbles -> Nat] /\ live.attached \in BOOLEAN
  BY DEF ViewTypes, Bubbles
<1>2. live' = [text |-> live.text \cup {m}, attached |-> live.attached \/ live = NoTurn]
  BY DEF MergeLive
<1>3. live'.text = live.text \cup {m} /\ (live'.attached <=> live.attached \/ live = NoTurn)
  BY <1>2
<1>4. live.attached => view[live.text] > 0
  BY DEF ViewTypes
<1>. QED
  BY <1>1, <1>2, <1>3, <1>4, LiveShown DEF MergeLive

\* What is shown stays shown, and the message is added unless the bubble of the
\* live turn is gone.
LEMMA LiveShows ==
    ASSUME ViewTypes, NEW m \in Messages, ShowLive(m)
    PROVE  /\ Shown \subseteq Shown' /\ Shown' \subseteq Shown \cup {m}
           /\ live = NoTurn \/ live.attached => m \in Shown'
<1>. DEFINE text == live.text \cup {m}
<1>1. /\ view \in [Bubbles -> Nat] /\ view' \in [Bubbles -> Nat]
      /\ live.text \in Bubbles /\ text \in Bubbles
      /\ live.attached => view[live.text] > 0
  BY LiveShown DEF ViewTypes, Bubbles
<1>2. CASE live = NoTurn \/ live.attached
  <2>1. \A b \in Bubbles :
           view'[b] = (view[b] - (IF live.attached /\ b = live.text THEN 1 ELSE 0))
                         + (IF b = text THEN 1 ELSE 0)
    BY <1>2, LiveShown
  <2>2. live = NoTurn => text = {m} /\ ~live.attached
    BY NoTurnTypes
  <2>. HIDE DEF text
  <2>3. view'[text] > 0
    BY <1>1, <2>1
  <2>4. \A b \in Bubbles : view[b] > 0 => view'[b] > 0 \/ b = live.text
    BY <1>1, <2>1
  <2>5. \A b \in Bubbles : view'[b] > 0 => view[b] > 0 \/ b = text
    BY <1>1, <2>1
  <2>6. Shown \subseteq Shown'
    BY <1>1, <2>3, <2>4 DEF Shown, text
  <2>7. Shown' \subseteq Shown \cup {m}
    <3>. SUFFICES ASSUME NEW x \in Shown', x # m PROVE x \in Shown
      OBVIOUS
    <3>1. PICK b \in Bubbles : view'[b] > 0 /\ x \in b
      BY DEF Shown
    <3>2. CASE view[b] > 0
      BY <3>1, <3>2 DEF Shown
    <3>3. CASE b = text
      <4>1. live.attached /\ x \in live.text
        BY <1>2, <2>2, <3>1, <3>3 DEF text
      <4>. QED
        BY <1>1, <4>1 DEF Shown
    <3>. QED
      BY <2>5, <3>1, <3>2, <3>3
  <2>8. m \in Shown'
    BY <1>1, <2>3 DEF Shown, text
  <2>. QED
    BY <2>6, <2>7, <2>8
<1>3. CASE live # NoTurn /\ ~live.attached
  <2>1. UNCHANGED view
    BY <1>3, LiveShown
  <2>2. Shown' = Shown
    BY <2>1 DEF Shown
  <2>. QED
    BY <1>3, <2>2
<1>. QED
  BY <1>2, <1>3

\* One more bubble of a single message
LEMMA ReplyShows ==
    ASSUME ViewTypes, NEW m \in Messages, Shows({m})
    PROVE  /\ view' \in [Bubbles -> Nat] /\ \A b \in Bubbles : view'[b] >= view[b]
           /\ \A l \in Messages : view'[{l}] = IF l = m THEN view[{l}] + 1 ELSE view[{l}]
           /\ Shown' = Shown \cup {m}
<1>1. view \in [Bubbles -> Nat] /\ {m} \in Bubbles /\ \A l \in Messages : {l} \in Bubbles
  BY DEF ViewTypes, Bubbles
<1>2. view' = [view EXCEPT ![{m}] = @ + 1]
  BY DEF Shows
<1>3. /\ view' \in [Bubbles -> Nat]
      /\ \A b \in Bubbles : view'[b] = IF b = {m} THEN view[b] + 1 ELSE view[b]
  BY <1>1, <1>2, OneMore
<1>4. \A l \in Messages : view'[{l}] = IF l = m THEN view[{l}] + 1 ELSE view[{l}]
  BY <1>1, <1>3
<1>5. \A b \in Bubbles : view'[b] > 0 <=> view[b] > 0 \/ b = {m}
  BY <1>1, <1>3
<1>6. Shown' = Shown \cup {m}
  BY <1>1, <1>5 DEF Shown
<1>. QED
  BY <1>1, <1>3, <1>4, <1>6

LEMMA EachShown ==
    ASSUME NEW S \in SUBSET Messages
    PROVE  UNION {b \in Bubbles : Each(S)[b] > 0} = S
<1>1. \A b \in Bubbles : Each(S)[b] > 0 => b \subseteq S
  BY EachTypes
<1>2. ASSUME NEW m \in S PROVE {m} \in Bubbles /\ Each(S)[{m}] > 0
  <2>1. Each(S)[{m}] = 1
    BY EachTypes
  <2>. QED
    BY <2>1 DEF Bubbles
<1>. QED
  BY <1>1, <1>2

\* A history is rendered: what is shown is that.
LEMMA Rendered ==
    ASSUME ViewTypes, NEW s, NEW S \in SUBSET Messages, RenderHistory(s, S)
    PROVE  /\ view' \in [Bubbles -> Nat] /\ Shown' = S
           /\ \A m \in Messages : view'[{m}] = IF m \in S THEN 1 ELSE 0
           /\ live'.text = live.text /\ ~live'.attached
           /\ live' \in [text : Bubbles, attached : BOOLEAN]
           /\ keys' = S /\ early' = S \ Announced /\ expired' = {}
           /\ strays' = IF s = cur THEN {} ELSE S
           /\ wiped' = (((wiped \cup Shown) \cap Remembered) \cup live.text) \ S
<1>1. view' = Each(S)
  BY DEF RenderHistory
<1>2. Shown' = S
  BY <1>1, EachShown DEF Shown
<1>3. live' = [live EXCEPT !.attached = FALSE]
  BY DEF RenderHistory
<1>4. live' \in [text : Bubbles, attached : BOOLEAN] /\ live'.text = live.text /\ ~live'.attached
  BY <1>3 DEF ViewTypes
<1>5. /\ keys' = S /\ early' = S \ Announced /\ expired' = {}
      /\ strays' = IF s = cur THEN {} ELSE S
      /\ wiped' = (((wiped \cup Shown) \cap Remembered) \cup live.text) \ S
  BY DEF RenderHistory
<1>6. view' \in [Bubbles -> Nat] /\ \A m \in Messages : view'[{m}] = IF m \in S THEN 1 ELSE 0
  BY <1>1, EachTypes
<1>. QED
  BY <1>2, <1>4, <1>5, <1>6

\* What a poll has found is added.
Adds(S) == (S \ keys) \ (Remembered \ stale)

LEMMA Added ==
    ASSUME ViewTypes, NEW S \in SUBSET Messages, AddUnseen(S)
    PROVE  /\ view' \in [Bubbles -> Nat] /\ \A b \in Bubbles : view'[b] >= view[b]
           /\ Shown' = Shown \cup Adds(S)
           /\ \A m \in Messages : view'[{m}] =
                 IF m \in Adds(S) THEN view[{m}] + 1 ELSE view[{m}]
           /\ keys' = keys \cup S
           /\ echoes' \in [Messages -> Nat] /\ Remembered' \subseteq Remembered
           /\ \A m \in Remembered : m \in keys \/ m \notin S => m \in Remembered'
           /\ early' = early \cup (S \ Announced)
           /\ expired' = expired \cup (Adds(S) \cap stale)
           /\ wiped' = wiped \ Adds(S)
           /\ UNCHANGED <<live, strays>>
<1>. DEFINE added == Adds(S)
            new == S \ keys
            swallowed == new \cap (Remembered \ stale)
<1>1. /\ view' = [b \in Bubbles |-> view[b] + Each(added)[b]]
      /\ keys' = keys \cup S
      /\ echoes' = [m \in Messages |-> IF m \in swallowed THEN echoes[m] - 1
                                      ELSE IF m \in added THEN 0 ELSE echoes[m]]
      /\ early' = early \cup (S \ Announced) /\ expired' = expired \cup (added \cap stale)
      /\ wiped' = wiped \ added
      /\ UNCHANGED <<live, strays>>
  <2>1. Swallowed(S \ keys) = swallowed
    BY DEF Swallowed
  <2>2. (S \ keys) \ Swallowed(S \ keys) = added
    BY <2>1 DEF Adds
  <2>. HIDE DEF added, swallowed
  <2>3. view' = [b \in Bubbles |-> view[b] + Each((S \ keys) \ Swallowed(S \ keys))[b]]
    BY DEF AddUnseen
  <2>4. echoes' = [m \in Messages |-> IF m \in Swallowed(S \ keys) THEN echoes[m] - 1
                     ELSE IF m \in (S \ keys) \ Swallowed(S \ keys) THEN 0 ELSE echoes[m]]
    BY DEF AddUnseen
  <2>. QED
    BY <2>1, <2>2, <2>3, <2>4 DEF AddUnseen
<1>7. echoes \in [Messages -> Nat]
  BY DEF ViewTypes
<1>8. \A m \in swallowed : echoes[m] > 0 /\ echoes[m] - 1 \in Nat
  BY <1>7 DEF Remembered
<1>9. \A m \in Messages : /\ echoes'[m] \in Nat /\ echoes'[m] <= echoes[m]
                          /\ m \in keys \/ m \notin S => echoes'[m] = echoes[m]
  <2>. SUFFICES ASSUME NEW m \in Messages
                PROVE  /\ echoes'[m] \in Nat /\ echoes'[m] <= echoes[m]
                       /\ m \in keys \/ m \notin S => echoes'[m] = echoes[m]
    OBVIOUS
  <2>1. m \in keys \/ m \notin S => m \notin swallowed /\ m \notin added
    BY DEF Adds
  <2>2. m \in swallowed => echoes[m] > 0
    BY <1>8
  <2>3. echoes'[m] = IF m \in swallowed THEN echoes[m] - 1 ELSE IF m \in added THEN 0 ELSE echoes[m]
    BY <1>1
  <2>4. echoes[m] \in Nat
    BY <1>7
  <2>. HIDE DEF swallowed, added
  <2>. QED
    BY <2>1, <2>2, <2>3, <2>4
<1>10. /\ echoes' \in [Messages -> Nat] /\ Remembered' \subseteq Remembered
       /\ \A m \in Remembered : m \in keys \/ m \notin S => m \in Remembered'
  <2>1. \A m \in Messages : echoes'[m] > 0 => echoes[m] > 0
    BY <1>7, <1>9
  <2>2. echoes' \in [Messages -> Nat]
    <3>1. PICK g : g = [m \in Messages |-> echoes'[m]]
      OBVIOUS
    <3>2. g \in [Messages -> Nat]
      BY <1>9, <3>1
    <3>3. echoes' = g
      BY <1>1, <3>1
    <3>. QED
      BY <3>2, <3>3
  <2>. QED
    BY <1>9, <2>1, <2>2 DEF Remembered
<1>2. added \in SUBSET Messages /\ view \in [Bubbles -> Nat]
  BY DEF ViewTypes, Adds
<1>. HIDE DEF added
<1>3. /\ Each(added) \in [Bubbles -> Nat]
      /\ \A m \in Messages : Each(added)[{m}] = IF m \in added THEN 1 ELSE 0
  BY EachTypes
<1>4. /\ view' \in [Bubbles -> Nat] /\ \A b \in Bubbles : view'[b] >= view[b]
      /\ \A b \in Bubbles : view'[b] > 0 <=> view[b] > 0 \/ Each(added)[b] > 0
  BY <1>1, <1>2, <1>3
<1>5. \A m \in Messages : view'[{m}] = IF m \in added THEN view[{m}] + 1 ELSE view[{m}]
  <2>. SUFFICES ASSUME NEW m \in Messages
                PROVE  view'[{m}] = IF m \in added THEN view[{m}] + 1 ELSE view[{m}]
    OBVIOUS
  <2>1. {m} \in Bubbles
    BY DEF Bubbles
  <2>2. view'[{m}] = view[{m}] + Each(added)[{m}] /\ view[{m}] \in Nat
    BY <1>1, <1>2, <2>1
  <2>3. Each(added)[{m}] = IF m \in added THEN 1 ELSE 0
    BY <1>3
  <2>. QED
    BY <2>2, <2>3
<1>6. Shown' = Shown \cup added
  <2>1. UNION {b \in Bubbles : Each(added)[b] > 0} = added
    BY <1>2, EachShown
  <2>2. Shown' = Shown \cup UNION {b \in Bubbles : Each(added)[b] > 0}
    BY <1>4 DEF Shown
  <2>. QED
    BY <2>1, <2>2
<1>. QED
  BY <1>1, <1>4, <1>5, <1>6, <1>10 DEF added

\* Who selects a session goes on doing so.
SelectingStays == cur' = cur /\ (Selecting(cur) => Selecting(cur)')

Selects(t) == t.at \in {"key", "select", "selected"}

LEMMA SelectingGoesOn ==
    ASSUME PageTypes, cur' = cur, NEW f \in Tasks, NEW state, Become(f, state),
           Selects(task[f]) => Selects(state) /\ state.s = task[f].s
    PROVE  SelectingStays
<1>1. task'[f] = state /\ \A g \in Tasks : g # f => task'[g] = task[g]
  BY DEF PageTypes, Become
<1>. QED
  BY <1>1 DEF SelectingStays, Selecting, Selects

LEMMA StartPollSelects ==
    ASSUME PageTypes, cur' = cur, NEW f \in Tasks, StartPoll(f)
    PROVE  SelectingStays
<1>1. CASE UNCHANGED task
  BY <1>1 DEF SelectingStays, Selecting
<1>2. CASE task[f] = Free /\ Become(f, [at |-> "poll", s |-> cur])
  BY <1>2, SelectingGoesOn DEF Free, Selects
<1>. QED
  BY <1>1, <1>2 DEF StartPoll

LEMMA BeginSelectSelects ==
    ASSUME PageTypes, NEW f \in Tasks, NEW s, NEW q, BeginSelect(f, s, q)
    PROVE  /\ cur' = s /\ live' = NoTurn /\ Selecting(cur)'
           /\ early' = {} /\ expired' = {} /\ strays' = {}
<1>1. PICK state : state.s = s /\ Selects(state) /\ Become(f, state)
  BY DEF BeginSelect, Selects
<1>2. task'[f] = state
  BY <1>1 DEF PageTypes, Become
<1>. QED
  BY <1>1, <1>2 DEF BeginSelect, Selecting, Selects

DisplayStays ==
    UNCHANGED <<view, keys, live, echoes, early, expired, strays, wiped, heard, answered>>

\* A session is selected; what is on the page stays there until its history comes.
SelectsAnew ==
    /\ cur' \in Sessions /\ Selecting(cur)' /\ live' = NoTurn
    /\ UNCHANGED <<view, keys, echoes, wiped, heard, answered>>
    /\ early' = {} /\ expired' = {} /\ strays' = {}

ViewMoves ==
    \/ DeltaArrives \/ FreshPage
    \/ \E f \in Tasks : PollReturns(f) \/ HistoryLoaded(f) \/ FinalArrives(f)
    \/ \E f \in Tasks, m \in Messages : ReplyArrives(f, m)

LEMMA ViewCases ==
    ASSUME TypeInv, [Next]_vars
    PROVE  ViewMoves \/ (DisplayStays /\ SelectingStays) \/ SelectsAnew
<1>1. PageTypes
  BY DEF TypeInv
<1>2. ASSUME UNCHANGED <<cur, task>>
      PROVE  SelectingStays
  BY <1>2 DEF SelectingStays, Selecting
<1>3. CASE UNCHANGED vars
  BY <1>2, <1>3 DEF vars, pageVars, display, known, told, DisplayStays
<1>6. CASE \E m \in Messages : EchoExpires(m)
  BY <1>2, <1>6 DEF EchoExpires, pageVars, told, DisplayStays
<1>4. CASE GatewayStep
  <2>1. SelectingStays
    <3>1. CASE StreamFails
      BY <1>2, <3>1 DEF StreamFails
    <3>. QED
      BY <1>2, <1>4, <3>1 DEF GatewayStep, RunStarts, RunEnds, RunReplies, StreamOpens, pageVars
  <2>. QED
    BY <1>4, <2>1 DEF GatewayStep, RunStarts, RunEnds, RunReplies, StreamFails, StreamOpens,
                      display, known, told, DisplayStays
<1>5. ASSUME NEW f \in Tasks, TaskStep(f)
      PROVE  ViewMoves \/ (DisplayStays /\ SelectingStays) \/ SelectsAnew
  <2>1. task[f] \in Task
    BY <1>1 DEF PageTypes
  <2>2. CASE PollTimerFires(f)
    BY <1>1, <2>2, StartPollSelects DEF PollTimerFires, display, known, told, DisplayStays
  <2>3. CASE KeyStored(f) \/ HistoryRead(f) \/ HistoryFails(f)
    <3>1. DisplayStays /\ cur' = cur
      BY <2>3 DEF KeyStored, HistoryRead, HistoryFails, display, known, told, DisplayStays
    <3>2. PICK state : /\ Become(f, state) /\ state.s = task[f].s
                       /\ Selects(task[f]) => Selects(state)
      BY <2>3 DEF KeyStored, HistoryRead, HistoryFails, Got, Selects
    <3>. QED
      BY <1>1, <3>1, <3>2, SelectingGoesOn
  <2>4. CASE LoadSessions(f) \/ NoSessions(f) \/ Logout(f)
             \/ \E list \in Lists : SessionKept(f, list)
    <3>1. DisplayStays /\ cur' = cur
      BY <2>4 DEF LoadSessions, NoSessions, Logout, SessionKept, display, known, told, DisplayStays
    <3>2. ~Selects(task[f]) /\ \E state : Become(f, state)
      BY <2>4 DEF LoadSessions, NoSessions, Logout, SessionKept, Selects, Free
    <3>. QED
      BY <1>1, <3>1, <3>2, SelectingGoesOn
  <2>5. ASSUME NEW s \in Sessions, NEW q, BeginSelect(f, s, q),
               UNCHANGED <<view, keys, echoes, wiped, heard, answered>>
        PROVE  SelectsAnew
    BY <1>1, <2>5, BeginSelectSelects DEF SelectsAnew
  <2>6. CASE \E s \in Sessions : SelectSession(f, s)
    BY <2>5, <2>6 DEF SelectSession, told
  <2>7. CASE KeyCleared(f)
    <3>1. task[f].s \in Sessions
      BY <2>1, <2>7, TaskFields DEF KeyCleared
    <3>. QED
      BY <2>5, <2>7, <3>1 DEF KeyCleared, told
  <2>8. ASSUME NEW list \in Lists, SessionSwitched(f, list) \/ StoredSessionGone(f, list)
        PROVE  (DisplayStays /\ SelectingStays) \/ SelectsAnew
    <3>1. \A s \in Preferred(list) : s \in Sessions
      BY DEF Lists, Preferred
    <3>2. UNCHANGED <<view, keys, echoes, wiped, heard, answered>> /\ ~Selects(task[f])
      BY <2>8 DEF SessionSwitched, StoredSessionGone, Selects, told
    <3>3. PICK s \in Sessions : \/ BeginSelect(f, s, writing)
                                \/ /\ Become(f, [at |-> "clear", s |-> s])
                                   /\ UNCHANGED <<cur, live, early, expired, strays>>
      BY <2>8, <3>1 DEF SessionSwitched, StoredSessionGone
    <3>. QED
      BY <1>1, <2>5, <3>2, <3>3, SelectingGoesOn DEF DisplayStays
  <2>. QED
    BY <1>5, <2>2, <2>3, <2>4, <2>6, <2>7, <2>8 DEF TaskStep, ViewMoves, LoggedOut
<1>. QED
  BY <1>3, <1>4, <1>5, <1>6 DEF Next, Reload, ViewMoves

\* What a fetch has brought is a set of messages.
LEMMA GotTypes ==
    ASSUME PageTypes, NEW f \in Tasks, task[f].at \in {"selected", "polled"}
    PROVE  task[f].got \in SUBSET Messages /\ task[f].s \in Sessions
<1>1. task[f] \in Task
  BY DEF PageTypes
<1>. QED
  BY <1>1, TaskFields

\* What PollReturns and HistoryLoaded do to the page
LEMMA FetchShown ==
    ASSUME PageTypes, NEW f \in Tasks, PollReturns(f) \/ HistoryLoaded(f)
    PROVE  /\ UNCHANGED <<cur, heard, answered>>
           /\ task[f].at \in {"selected", "polled"}
           /\ \/ task[f].at = "polled" /\ DisplayStays /\ SelectingStays
              \/ RenderHistory(task[f].s, task[f].got) /\ UNCHANGED echoes
              \/ /\ task[f].at = "polled" /\ task[f].s = cur /\ SelectingStays
                 /\ AddUnseen(task[f].got)
<1>1. task[f].at = "polled" /\ Become(f, Free) /\ UNCHANGED cur => SelectingStays
  BY SelectingGoesOn DEF Selects
<1>2. CASE PollReturns(f)
  <2>1. /\ task[f].at = "polled" /\ UNCHANGED <<cur, heard, answered>> /\ SelectingStays
        /\ IF task[f].s # cur THEN UNCHANGED display
           ELSE IF LikelyReset(task[f].got)
           THEN RenderHistory(cur, task[f].got) /\ UNCHANGED echoes
           ELSE AddUnseen(task[f].got)
    BY <1>1, <1>2 DEF PollReturns, told
  <2>2. UNCHANGED display /\ UNCHANGED <<heard, answered>> => DisplayStays
    BY DEF display, known, told, DisplayStays
  <2>. QED
    BY <2>1, <2>2
<1>3. CASE HistoryLoaded(f)
  BY <1>3 DEF HistoryLoaded, told
<1>. QED
  BY <1>2, <1>3

\* An echo is remembered.
LEMMA Echoed ==
    ASSUME ViewTypes, NEW text, RememberEcho(text)
    PROVE  /\ echoes' \in [Messages -> Nat]
           /\ Remembered' = Remembered \cup {m \in Messages : text = {m}}
<1>1. echoes \in [Messages -> Nat]
  BY DEF ViewTypes
<1>2. echoes' = [m \in Messages |-> IF text = {m} THEN echoes[m] + 1 ELSE echoes[m]]
  BY DEF RememberEcho
<1>3. \A m \in Messages : /\ echoes'[m] \in Nat
                          /\ echoes'[m] > 0 <=> echoes[m] > 0 \/ text = {m}
  BY <1>1, <1>2
<1>4. echoes' \in [Messages -> Nat]
  BY <1>1, <1>2
<1>. QED
  BY <1>3, <1>4 DEF Remembered

LEMMA NextViewTypes == TypeInv /\ [Next]_vars => ViewTypes'
<1>0. SUFFICES ASSUME TypeInv, [Next]_vars PROVE ViewTypes'
  OBVIOUS
<1>. ViewTypes /\ PageTypes /\ WireTypes
  BY <1>0 DEF TypeInv
<1>1. /\ live \in [text : Bubbles, attached : BOOLEAN] /\ view \in [Bubbles -> Nat]
      /\ live.text \in Bubbles
      /\ live.attached => live.text # {} /\ view[live.text] > 0
      /\ echoes \in [Messages -> Nat]
      /\ keys \cup early \cup expired \cup strays \cup wiped \subseteq Messages
      /\ heard \cup answered \subseteq Messages
      /\ \A m \in Messages : live.text \cup {m} \in Bubbles
  BY DEF ViewTypes, Bubbles
<1>2. ASSUME view' \in [Bubbles -> Nat], \A b \in Bubbles : view'[b] >= view[b], UNCHANGED live,
             echoes' \in [Messages -> Nat],
             keys' \cup early' \cup expired' \cup strays' \cup wiped' \subseteq Messages,
             heard' \cup answered' \subseteq Messages
      PROVE  ViewTypes'
  BY <1>1, <1>2 DEF ViewTypes
<1>3. CASE DisplayStays
  BY <1>1, <1>3 DEF DisplayStays, ViewTypes
<1>4. CASE SelectsAnew
  BY <1>1, <1>4, NoTurnTypes DEF SelectsAnew, ViewTypes
<1>5. CASE FreshPage
  <2>1. /\ view' = Each({}) /\ live' = NoTurn
        /\ echoes' = NoEchoes
        /\ keys' \cup early' \cup expired' \cup strays' \cup wiped' \subseteq Messages
        /\ heard' \cup answered' \subseteq Messages
    BY <1>5 DEF FreshPage
  <2>2. echoes' \in [Messages -> Nat]
    BY <2>1 DEF NoEchoes
  <2>. QED
    BY <2>1, <2>2, EachTypes, NoTurnTypes DEF ViewTypes
<1>6. ASSUME NEW f \in Tasks, PollReturns(f) \/ HistoryLoaded(f)
      PROVE  ViewTypes'
  <2>. DEFINE S == task[f].got
  <2>1. S \in SUBSET Messages /\ UNCHANGED <<heard, answered>>
    BY <1>6, FetchShown, GotTypes
  <2>. HIDE DEF S
  <2>2. CASE RenderHistory(task[f].s, S) /\ UNCHANGED echoes
    <3>1. /\ view' \in [Bubbles -> Nat] /\ live' \in [text : Bubbles, attached : BOOLEAN]
          /\ ~live'.attached /\ keys' = S /\ early' = S \ Announced /\ expired' = {}
          /\ strays' = IF task[f].s = cur THEN {} ELSE S
          /\ wiped' = (((wiped \cup Shown) \cap Remembered) \cup live.text) \ S
      BY <2>1, <2>2, Rendered
    <3>2. live.text \subseteq Messages /\ Remembered \subseteq Messages
      BY <1>1 DEF Bubbles, Remembered
    <3>. QED
      BY <1>1, <2>1, <2>2, <3>1, <3>2 DEF ViewTypes
  <2>3. CASE AddUnseen(S)
    <3>1. /\ view' \in [Bubbles -> Nat] /\ \A b \in Bubbles : view'[b] >= view[b]
          /\ UNCHANGED <<live, strays>> /\ keys' = keys \cup S /\ echoes' \in [Messages -> Nat]
          /\ early' = early \cup (S \ Announced) /\ expired' = expired \cup (Adds(S) \cap stale)
          /\ wiped' = wiped \ Adds(S)
      BY <2>1, <2>3, Added
    <3>2. Adds(S) \subseteq Messages
      BY <2>1 DEF Adds
    <3>. QED
      BY <1>1, <1>2, <2>1, <3>1, <3>2
  <2>. QED
    BY <1>3, <1>6, <2>2, <2>3, FetchShown DEF S
<1>7. CASE DeltaArrives
  <2>1. /\ wire # <<>>
        /\ UNCHANGED <<keys, echoes, early, expired, strays, wiped, heard, answered>>
        /\ \/ UNCHANGED <<view, live>>
           \/ MergeLive(Head(wire).msg)
    BY <1>7 DEF DeltaArrives, known, told
  <2>2. Head(wire).msg \in Messages
    BY <2>1, WireHead DEF WireTypes, Event
  <2>3. CASE UNCHANGED <<view, live>>
    BY <1>1, <2>1, <2>3 DEF ViewTypes
  <2>4. CASE MergeLive(Head(wire).msg)
    BY <1>1, <2>1, <2>2, <2>4, Merged, LiveShown DEF MergeLive, ViewTypes
  <2>. QED
    BY <2>1, <2>3, <2>4
<1>8. ASSUME NEW f \in Tasks, FinalArrives(f)
      PROVE  ViewTypes'
  <2>. DEFINE m == Head(wire).msg
  <2>1. m \in Messages
    BY <1>8, WireHead DEF FinalArrives, WireTypes, Event
  <2>. HIDE DEF m
  <2>2. /\ heard' = heard \cup {m}
        /\ UNCHANGED <<keys, early, expired, strays, wiped, answered>>
        /\ \/ UNCHANGED <<view, live, echoes>>
           \/ ShowLive(m) /\ live' = NoTurn /\ RememberEcho(live.text \cup {m})
    BY <1>8 DEF FinalArrives, m
  <2>3. CASE UNCHANGED <<view, live, echoes>>
    BY <1>1, <2>1, <2>2, <2>3 DEF ViewTypes
  <2>4. CASE ShowLive(m) /\ live' = NoTurn /\ RememberEcho(live.text \cup {m})
    <3>1. view' \in [Bubbles -> Nat] /\ ~live'.attached
          /\ live' \in [text : Bubbles, attached : BOOLEAN]
      BY <2>1, <2>4, LiveShown, NoTurnTypes
    <3>2. echoes' \in [Messages -> Nat]
      BY <1>1, <2>4, Echoed
    <3>. QED
      BY <1>1, <2>1, <2>2, <3>1, <3>2 DEF ViewTypes
  <2>. QED
    BY <2>2, <2>3, <2>4
<1>9. ASSUME NEW f \in Tasks, NEW m \in Messages, ReplyArrives(f, m)
      PROVE  ViewTypes'
  <2>1. /\ answered' = answered \cup {m} /\ UNCHANGED <<keys, live, early, expired, wiped, heard>>
        /\ Shows({m}) /\ strays' \subseteq strays \cup {m} /\ RememberEcho({m})
    BY <1>9 DEF ReplyArrives
  <2>3. echoes' \in [Messages -> Nat]
    BY <2>1, Echoed
  <2>2. view' \in [Bubbles -> Nat] /\ \A b \in Bubbles : view'[b] >= view[b]
    BY <2>1, ReplyShows
  <2>. QED
    BY <1>1, <1>2, <2>1, <2>2, <2>3
<1>. QED
  BY <1>0, <1>3, <1>4, <1>5, <1>6, <1>7, <1>8, <1>9, ViewCases DEF ViewMoves

\* Only an echo of a message can become stale.
LEMMA NextStale == TypeInv /\ [Next]_vars => StaleTypes'
<1>0. SUFFICES ASSUME TypeInv, [Next]_vars PROVE StaleTypes'
  OBVIOUS
<1>1. stale \subseteq Messages
  BY <1>0 DEF TypeInv, StaleTypes
<1>2. ASSUME NEW f \in Tasks, TaskStep(f)
      PROVE  stale' \subseteq stale
  <2>1. CASE PollReturns(f)
    BY <2>1 DEF PollReturns, AddUnseen, display, known
  <2>2. CASE FinalArrives(f)
    BY <2>2 DEF FinalArrives, RememberEcho
  <2>3. CASE \E m \in Messages : ReplyArrives(f, m)
    BY <2>3 DEF ReplyArrives, RememberEcho
  <2>4. CASE LoggedOut(f)
    BY <2>4 DEF LoggedOut, FreshPage
  <2>. QED
    BY <1>2, <2>1, <2>2, <2>3, <2>4
       DEF TaskStep, PollTimerFires, SelectSession, KeyStored, HistoryRead, HistoryFails,
           HistoryLoaded, LoadSessions, NoSessions, KeyCleared, SessionKept, SessionSwitched,
           StoredSessionGone, Logout, display, known
<1>3. CASE GatewayStep \/ DeltaArrives \/ UNCHANGED vars
  BY <1>1, <1>3 DEF GatewayStep, RunStarts, RunEnds, RunReplies, StreamFails, StreamOpens,
                    DeltaArrives, vars, display, known, StaleTypes
<1>4. CASE Reload
  BY <1>4 DEF Reload, FreshPage, StaleTypes
<1>5. ASSUME NEW m \in Messages, EchoExpires(m)
      PROVE  StaleTypes'
  BY <1>1, <1>5 DEF EchoExpires, StaleTypes
<1>. QED
  BY <1>0, <1>1, <1>2, <1>3, <1>4, <1>5 DEF Next, StaleTypes

LEMMA NextTypes == TypeInv /\ [Next]_vars => TypeInv'
BY NextGatewayTypes, NextWireTypes, NextPageTypes, NextKeyTypes, NextViewTypes, NextStale DEF TypeInv

------------------------------------------------------------------------------
(* Where the messages are *)

\* Histories, and what was read from them, are of their session.
HistoryInv ==
    /\ \A s \in Sessions : \A m \in hist[s] : home[m] = s
    /\ \A f \in Tasks : task[f].at \in {"selected", "polled"} =>
          \A m \in task[f].got : home[m] = task[f].s

\* Before its last event a message is being written, on the wire or in the live
\* turn, which is of the selected session.
RouteInv ==
    /\ \A m \in running : home[m] # None /\ m \notin heard \cup answered \cup replies
    /\ \A m \in replies : home[m] # None /\ m \notin answered
    /\ \A m \in heard \cup answered : home[m] # None
    /\ \A m \in live.text : home[m] = cur /\ m \notin heard

\* After its last event nothing of a message is on the wire.
WireInv ==
    /\ \A i \in 1 .. Len(wire) : home[wire[i].msg] # None /\ wire[i].msg \notin heard
    /\ \A i \in 1 .. Len(wire) : wire[i].final => wire[i].msg \notin running
    /\ \A i, j \in 1 .. Len(wire) : i < j /\ wire[i].final => wire[i].msg # wire[j].msg

WhereInv == HistoryInv /\ RouteInv /\ WireInv

LEMMA InitWhere == Init => WhereInv
<1>. SUFFICES ASSUME Init PROVE WhereInv
  OBVIOUS
<1>1. HistoryInv
  BY DEF Init, HistoryInv, Free
<1>2. running = {} /\ replies = {} /\ heard = {} /\ answered = {} /\ live.text = {}
  BY NoTurnTypes DEF Init
<1>3. Len(wire) = 0
  BY DEF Init
<1>. QED
  BY <1>1, <1>2, <1>3 DEF WhereInv, RouteInv, WireInv

\* A message that has a session keeps it.
HomesStay == \A m \in Messages : home[m] # None => home'[m] = home[m]

LEMMA NextHomes == GatewayTypes /\ [Next]_vars => HomesStay
<1>0. SUFFICES ASSUME GatewayTypes, [Next]_vars PROVE HomesStay
  OBVIOUS
<1>1. ASSUME NEW m \in Messages, Begins(m)
      PROVE  HomesStay
  BY <1>0, <1>1 DEF Begins, GatewayTypes, HomesStay
<1>2. UNCHANGED home => HomesStay
  BY DEF HomesStay
<1>. QED
  BY <1>0, <1>1, <1>2, Elsewhere
     DEF WireMoves, GatewayStays, RunStarts, RunEnds, RunReplies, StreamFails, StreamOpens,
         DeltaArrives, FinalArrives, ReplyArrives, gatewayVars

LEMMA NextHistory == TypeInv /\ WhereInv /\ [Next]_vars => HistoryInv'
<1>0. SUFFICES ASSUME TypeInv, WhereInv, [Next]_vars PROVE HistoryInv'
  OBVIOUS
<1>. GatewayTypes /\ PageTypes /\ HistoryInv /\ RouteInv
  BY <1>0 DEF TypeInv, WhereInv
<1>1. HomesStay
  BY <1>0, NextHomes
<1>2. \A s \in Sessions : \A m \in hist'[s] : home'[m] = s
  <2>1. \A s \in Sessions : s # None /\ \A m \in hist[s] : m \in Messages /\ home'[m] = s
    BY <1>1, SessionViewAssumption DEF HistoryInv, HomesStay, GatewayTypes
  <2>2. ASSUME NEW m \in Messages, RunEnds(m)
        PROVE  \A s \in Sessions : \A l \in hist'[s] : home'[l] = s
    <3>1. home[m] # None /\ UNCHANGED home /\ hist' = [hist EXCEPT ![home[m]] = @ \cup {m}]
      BY <2>2 DEF RunEnds, RouteInv
    <3>2. \A s \in Sessions : hist'[s] = hist[s] \/ (s = home[m] /\ hist'[s] = hist[s] \cup {m})
      BY <3>1 DEF GatewayTypes
    <3>. QED
      BY <2>1, <3>1, <3>2
  <2>3. ASSUME NEW m \in Messages, RunReplies(m)
        PROVE  \A s \in Sessions : \A l \in hist'[s] : home'[l] = s
    <3>1. home'[m] = cur /\ hist' = [hist EXCEPT ![cur] = @ \cup {m}]
      BY <2>3 DEF RunReplies, Begins, GatewayTypes
    <3>2. \A s \in Sessions : hist'[s] = hist[s] \/ (s = cur /\ hist'[s] = hist[s] \cup {m})
      BY <3>1 DEF GatewayTypes
    <3>. QED
      BY <2>1, <3>1, <3>2
  <2>4. (\E m \in Messages : RunEnds(m) \/ RunReplies(m)) \/ UNCHANGED hist
    BY <1>0, Elsewhere
       DEF WireMoves, GatewayStays, RunStarts, StreamFails, StreamOpens, DeltaArrives, FinalArrives,
           ReplyArrives, gatewayVars
  <2>. QED
    BY <2>1, <2>2, <2>3, <2>4
<1>3. ASSUME NEW f \in Tasks, task'[f].at \in {"selected", "polled"}, task'[f] = task[f]
      PROVE  \A m \in task'[f].got : home'[m] = task'[f].s
  <2>1. task[f].got \subseteq Messages /\ task[f].s # None
    BY <1>3, GotTypes, SessionViewAssumption
  <2>. QED
    BY <1>1, <1>3, <2>1 DEF HistoryInv, HomesStay
<1>4. ASSUME NEW f \in Tasks, NEW state, Become(f, state), state.at \notin {"selected", "polled"}
      PROVE  HistoryInv'
  <2>1. task'[f] = state /\ \A g \in Tasks : g # f => task'[g] = task[g]
    BY <1>4 DEF PageTypes, Become
  <2>. QED
    BY <1>2, <1>3, <1>4, <2>1 DEF HistoryInv
<1>5. CASE UNCHANGED task
  BY <1>2, <1>3, <1>5 DEF HistoryInv
<1>6. CASE FreshPage
  BY <1>2, <1>6 DEF FreshPage, HistoryInv, Free
<1>7. ASSUME NEW f \in Tasks, HistoryRead(f) \/ HistoryFails(f)
      PROVE  HistoryInv'
  <2>1. task[f] \in Task /\ task[f].s \in Sessions
    BY <1>7, TaskFields DEF HistoryRead, HistoryFails, PageTypes
  <2>2. PICK messages : Got(f, messages) /\ messages \subseteq hist[task[f].s]
    BY <1>7 DEF HistoryRead, HistoryFails
  <2>3. /\ task'[f].got = messages /\ task'[f].s = task[f].s
        /\ \A g \in Tasks : g # f => task'[g] = task[g]
    BY <2>2 DEF Got, Become, PageTypes
  <2>4. \A m \in task'[f].got : home'[m] = task'[f].s
    BY <2>1, <2>2, <2>3, <1>2, <1>7 DEF HistoryRead, HistoryFails, gatewayVars
  <2>. QED
    BY <1>2, <1>3, <2>3, <2>4 DEF HistoryInv
<1>8. ASSUME NEW f \in Tasks, StartPoll(f)
      PROVE  HistoryInv'
  BY <1>4, <1>5, <1>8 DEF StartPoll
<1>9. ASSUME NEW f \in Tasks, NEW s, NEW q, BeginSelect(f, s, q)
      PROVE  HistoryInv'
  BY <1>4, <1>9 DEF BeginSelect
<1>10. ASSUME NEW f \in Tasks, TaskStep(f)
       PROVE  HistoryInv'
  <2>1. CASE PollTimerFires(f) \/ PollReturns(f) \/ FinalArrives(f)
             \/ \E m \in Messages : ReplyArrives(f, m)
    BY <1>4, <1>5, <1>8, <2>1 DEF PollTimerFires, PollReturns, FinalArrives, ReplyArrives, Free
  <2>2. CASE \E s \in Sessions : SelectSession(f, s)
    BY <1>9, <2>2 DEF SelectSession
  <2>3. CASE KeyStored(f) \/ HistoryLoaded(f) \/ LoadSessions(f) \/ NoSessions(f) \/ Logout(f)
    BY <1>4, <2>3 DEF KeyStored, HistoryLoaded, LoadSessions, NoSessions, Logout, Free
  <2>4. CASE KeyCleared(f)
    BY <1>9, <2>4 DEF KeyCleared
  <2>5. ASSUME NEW list \in Lists,
               SessionKept(f, list) \/ SessionSwitched(f, list) \/ StoredSessionGone(f, list)
        PROVE  HistoryInv'
    BY <1>4, <1>9, <2>5 DEF SessionKept, SessionSwitched, StoredSessionGone, Free
  <2>. QED
    BY <1>6, <1>7, <1>10, <2>1, <2>2, <2>3, <2>4, <2>5 DEF TaskStep, LoggedOut
<1>11. CASE GatewayStep \/ DeltaArrives \/ (\E m \in Messages : EchoExpires(m)) \/ UNCHANGED vars
  BY <1>5, <1>11 DEF GatewayStep, RunStarts, RunEnds, RunReplies, StreamFails, StreamOpens,
                     DeltaArrives, EchoExpires, vars, pageVars
<1>. QED
  BY <1>0, <1>6, <1>10, <1>11 DEF Next, Reload

\* The steps that have nothing to do with where messages are
RoutesStay ==
    /\ GatewayStays /\ WireStays /\ UNCHANGED <<heard, answered>>
    /\ (live'.text = live.text /\ cur' = cur) \/ live'.text = {}

LEMMA RouteCases ==
    ASSUME TypeInv, [Next]_vars
    PROVE  WireMoves \/ RoutesStay \/ (GatewayStays /\ FreshPage)
<1>1. CASE GatewayStays /\ WireStays
  <2>1. CASE DisplayStays /\ SelectingStays
    BY <1>1, <2>1 DEF DisplayStays, SelectingStays, RoutesStay
  <2>2. CASE SelectsAnew
    BY <1>1, <2>2, NoTurnTypes DEF SelectsAnew, RoutesStay
  <2>3. ASSUME NEW f \in Tasks, PollReturns(f) \/ HistoryLoaded(f)
        PROVE  RoutesStay
    <3>1. UNCHANGED <<cur, heard, answered>> /\ task[f].got \in SUBSET Messages
      BY <2>3, FetchShown, GotTypes DEF TypeInv
    <3>2. live'.text = live.text
      BY <2>3, <3>1, FetchShown, Rendered, Added DEF TypeInv, DisplayStays
    <3>. QED
      BY <1>1, <3>1, <3>2 DEF RoutesStay
  <2>. QED
    BY <1>1, <2>1, <2>2, <2>3, ViewCases DEF ViewMoves, WireMoves
<1>. QED
  BY <1>1, Elsewhere

\* What an event is about, and what its handler does
LEMMA DeltaEffect ==
    ASSUME TypeInv, DeltaArrives
    PROVE  /\ wire # <<>> /\ wire' = Tail(wire) /\ Head(wire).msg \in Messages /\ ~Head(wire).final
           /\ GatewayStays
           /\ UNCHANGED <<cur, replies, heard, answered, keys, echoes, early, expired, strays, wiped>>
           /\ SelectingStays
           /\ \/ UNCHANGED <<view, live>>
              \/ /\ home[Head(wire).msg] = cur /\ ShowLive(Head(wire).msg)
                 /\ live'.text = live.text \cup {Head(wire).msg}
                 /\ live'.attached <=> live.attached \/ live = NoTurn
<1>1. /\ wire # <<>> /\ wire' = Tail(wire) /\ ~Head(wire).final
      /\ GatewayStays
      /\ UNCHANGED <<cur, task, replies, heard, answered, keys, echoes, early, expired, strays, wiped>>
      /\ \/ home[Head(wire).msg] = cur /\ MergeLive(Head(wire).msg)
         \/ UNCHANGED <<view, live>>
  BY DEF DeltaArrives, gatewayVars, pageVars, known, told, GatewayStays
<1>2. Head(wire).msg \in Messages
  BY <1>1, WireHead DEF TypeInv, WireTypes, Event
<1>3. SelectingStays
  BY <1>1 DEF SelectingStays, Selecting
<1>4. CASE home[Head(wire).msg] = cur /\ MergeLive(Head(wire).msg)
  BY <1>1, <1>2, <1>3, <1>4, Merged DEF TypeInv, MergeLive
<1>. QED
  BY <1>1, <1>2, <1>3, <1>4

LEMMA FinalEffect ==
    ASSUME TypeInv, NEW f \in Tasks, FinalArrives(f)
    PROVE  /\ wire # <<>> /\ wire' = Tail(wire) /\ Head(wire).msg \in Messages /\ Head(wire).final
           /\ GatewayStays /\ UNCHANGED <<cur, replies, keys, early, expired, strays, wiped, answered>>
           /\ heard' = heard \cup {Head(wire).msg}
           /\ SelectingStays
           /\ IF home[Head(wire).msg] # cur THEN UNCHANGED <<view, live, echoes>>
              ELSE /\ ShowLive(Head(wire).msg) /\ live' = NoTurn
                   /\ RememberEcho(live.text \cup {Head(wire).msg})
<1>1. /\ wire # <<>> /\ wire' = Tail(wire) /\ Head(wire).final
      /\ GatewayStays /\ UNCHANGED <<cur, replies, keys, early, expired, strays, wiped, answered>>
      /\ heard' = heard \cup {Head(wire).msg}
      /\ IF home[Head(wire).msg] # cur THEN UNCHANGED <<view, live, echoes, task, inFlight>>
         ELSE /\ ShowLive(Head(wire).msg) /\ live' = NoTurn
              /\ RememberEcho(live.text \cup {Head(wire).msg})
              /\ StartPoll(f)
  BY DEF FinalArrives, gatewayVars, GatewayStays
<1>2. Head(wire).msg \in Messages
  BY <1>1, WireHead DEF TypeInv, WireTypes, Event
<1>3. SelectingStays
  <2>1. CASE UNCHANGED task
    BY <1>1, <2>1 DEF SelectingStays, Selecting
  <2>2. CASE StartPoll(f)
    BY <1>1, <2>2, StartPollSelects DEF TypeInv
  <2>. QED
    BY <1>1, <2>1, <2>2
<1>. QED
  BY <1>1, <1>2, <1>3

LEMMA ReplyEffect ==
    ASSUME TypeInv, NEW f \in Tasks, NEW m \in Messages, ReplyArrives(f, m)
    PROVE  /\ m \in replies /\ replies' = replies \ {m}
           /\ GatewayStays /\ UNCHANGED <<cur, wire, keys, live, early, expired, wiped, heard>>
           /\ answered' = answered \cup {m} /\ Remembered' = Remembered \cup {m}
           /\ Shows({m}) /\ SelectingStays
           /\ strays' = IF home[m] = cur THEN strays ELSE strays \cup {m}
<1>1. StartPoll(f) /\ UNCHANGED cur
  BY DEF ReplyArrives
<1>2. SelectingStays
  BY <1>1, StartPollSelects DEF TypeInv
<1>3. Remembered' = Remembered \cup {m}
  <2>1. RememberEcho({m})
    BY DEF ReplyArrives
  <2>2. Remembered' = Remembered \cup {l \in Messages : {m} = {l}}
    BY <2>1, Echoed DEF TypeInv
  <2>. QED
    BY <2>2
<1>. QED
  BY <1>2, <1>3 DEF ReplyArrives, gatewayVars, GatewayStays

LEMMA NextRoutes == TypeInv /\ WhereInv /\ [Next]_vars => RouteInv'
<1>0. SUFFICES ASSUME TypeInv, WhereInv, [Next]_vars PROVE RouteInv'
  OBVIOUS
<1>1. /\ RouteInv /\ HomesStay /\ \A m \in live.text : m \in Messages
      /\ running \cup replies \cup heard \cup answered \subseteq Messages
  BY <1>0, NextHomes DEF TypeInv, WhereInv, GatewayTypes, ViewTypes, Bubbles
<1>2. \A m \in running \cup replies \cup heard \cup answered : home'[m] # None
  BY <1>1 DEF RouteInv, HomesStay
<1>3. CASE RoutesStay
  BY <1>1, <1>3 DEF RoutesStay, GatewayStays, WireStays, RouteInv
<1>4. CASE GatewayStays /\ FreshPage
  <2>1. /\ replies' = {} /\ heard' = {} /\ answered' = {} /\ live'.text = {}
        /\ UNCHANGED <<running, home>>
    BY <1>4, NoTurnTypes DEF FreshPage, GatewayStays
  <2>. QED
    BY <1>1, <2>1 DEF RouteInv
<1>5. ASSUME NEW m \in Messages, Begins(m), UNCHANGED <<cur, live, heard, answered>>,
             \/ running' = running \cup {m} /\ UNCHANGED replies
             \/ replies' = replies \cup {m} /\ UNCHANGED running
      PROVE  RouteInv'
  <2>1. cur # None /\ home[m] = None /\ home' = [home EXCEPT ![m] = cur]
    BY <1>5 DEF Begins
  <2>2. home'[m] = cur
    BY <1>0, <2>1 DEF TypeInv, GatewayTypes
  <2>3. m \notin running \cup replies \cup heard \cup answered \cup live.text
    BY <1>1, <2>1 DEF RouteInv
  <2>4. \A l \in live.text : home'[l] = cur
    BY <1>1, <2>1 DEF RouteInv, HomesStay
  <2>. QED
    BY <1>1, <1>2, <1>5, <2>1, <2>2, <2>3, <2>4 DEF RouteInv
<1>6. CASE \E m \in Messages : RunStarts(m) \/ RunReplies(m)
  BY <1>5, <1>6 DEF RunStarts, RunReplies, pageVars, display, told
<1>7. ASSUME NEW m \in Messages, RunEnds(m)
      PROVE  RouteInv'
  <2>1. /\ UNCHANGED <<home, cur, live, heard, answered>>
        /\ m \in running /\ running' = running \ {m} /\ replies' \subseteq replies \cup {m}
    BY <1>7 DEF RunEnds, pageVars, display, told
  <2>. QED
    BY <1>1, <2>1 DEF RouteInv
<1>8. CASE StreamFails \/ StreamOpens
  BY <1>1, <1>8 DEF StreamFails, StreamOpens, pageVars, display, told, gatewayVars, RouteInv
<1>9. CASE DeltaArrives
  <2>. DEFINE m == Head(wire).msg
  <2>1. /\ wire # <<>> /\ GatewayStays /\ UNCHANGED <<cur, replies, heard, answered>>
        /\ live'.text = live.text \/ (home[m] = cur /\ live'.text = live.text \cup {m})
    BY <1>0, <1>9, DeltaEffect
  <2>2. m \notin heard
    BY <1>0, <2>1, WireHead DEF TypeInv, WireTypes, WhereInv, WireInv
  <2>. HIDE DEF m
  <2>. QED
    BY <1>1, <2>1, <2>2 DEF RouteInv, GatewayStays
<1>10. ASSUME NEW f \in Tasks, FinalArrives(f)
       PROVE  RouteInv'
  <2>. DEFINE m == Head(wire).msg
  <2>1. /\ wire # <<>> /\ GatewayStays /\ UNCHANGED <<cur, replies, answered>> /\ Head(wire).final
        /\ heard' = heard \cup {m}
        /\ (home[m] # cur /\ live'.text = live.text) \/ live'.text = {}
    BY <1>0, <1>10, FinalEffect, NoTurnTypes
  <2>2. home[m] # None /\ m \notin running
    BY <1>0, <2>1, WireHead DEF TypeInv, WireTypes, WhereInv, WireInv
  <2>. HIDE DEF m
  <2>. QED
    BY <1>1, <2>1, <2>2 DEF RouteInv, GatewayStays
<1>11. ASSUME NEW f \in Tasks, NEW m \in Messages, ReplyArrives(f, m)
       PROVE  RouteInv'
  <2>1. /\ m \in replies /\ replies' = replies \ {m} /\ answered' = answered \cup {m}
        /\ UNCHANGED <<home, hist, running>> /\ UNCHANGED <<cur, live, heard>>
    BY <1>0, <1>11, ReplyEffect DEF GatewayStays
  <2>2. m \notin running /\ home[m] # None
    BY <1>1, <2>1 DEF RouteInv
  <2>. QED
    BY <1>1, <2>1, <2>2 DEF RouteInv
<1>. QED
  BY <1>0, <1>3, <1>4, <1>6, <1>7, <1>8, <1>9, <1>10, <1>11, RouteCases DEF WireMoves

\* The wire after its first event has been taken
LEMMA WireTail ==
    ASSUME WireTypes, WireInv, wire # <<>>, wire' = Tail(wire), GatewayStays,
           heard' \subseteq heard \cup {m \in {Head(wire).msg} : Head(wire).final}
    PROVE  WireInv'
<1>1. /\ wire \in Seq(Event) /\ wire[1] = Head(wire) /\ 1 \in 1 .. Len(wire)
      /\ Len(wire') = Len(wire) - 1
      /\ \A i \in 1 .. Len(wire') : i + 1 \in 1 .. Len(wire) /\ wire'[i] = wire[i + 1]
  BY WireHead DEF WireTypes
<1>2. \A i \in 1 .. Len(wire') : 1 < i + 1 /\ (Head(wire).final => wire'[i].msg # Head(wire).msg)
  BY <1>1 DEF WireInv
<1>3. \A i, j \in 1 .. Len(wire') : i < j => i + 1 < j + 1
  BY <1>1
<1>4. UNCHANGED <<home, running>>
  BY DEF GatewayStays
<1>5. \A i \in 1 .. Len(wire') :
         home'[wire'[i].msg] # None /\ wire'[i].msg \notin heard'
  BY <1>1, <1>2, <1>4 DEF WireInv
<1>6. \A i \in 1 .. Len(wire') : wire'[i].final => wire'[i].msg \notin running'
  BY <1>1, <1>4 DEF WireInv
<1>7. \A i, j \in 1 .. Len(wire') : i < j /\ wire'[i].final => wire'[i].msg # wire'[j].msg
  BY <1>1, <1>3 DEF WireInv
<1>. QED
  BY <1>5, <1>6, <1>7 DEF WireInv

\* One more event, of a message that has not ended
LEMMA WireGrows ==
    ASSUME WireTypes, WireInv, NEW e \in Event, wire' = Append(wire, e), HomesStay,
           home'[e.msg] # None, e.msg \notin heard,
           \A i \in 1 .. Len(wire) : wire[i].final => wire[i].msg # e.msg,
           \A m \in running' : m \in running \/ \A i \in 1 .. Len(wire) : wire[i].msg # m,
           e.final => e.msg \notin running',
           \A m \in running' : m # e.msg \/ ~e.final,
           UNCHANGED heard
    PROVE  WireInv'
<1>1. /\ wire \in Seq(Event) /\ Len(wire) \in Nat /\ Len(wire') = Len(wire) + 1
      /\ wire'[Len(wire) + 1] = e /\ \A i \in 1 .. Len(wire) : wire'[i] = wire[i]
  BY DEF WireTypes
<1>2. \A i \in 1 .. Len(wire') : i \in 1 .. Len(wire) \/ i = Len(wire) + 1
  BY <1>1
<1>3. \A i \in 1 .. Len(wire) : wire[i].msg \in Messages
  BY <1>1, EventFields
<1>4. \A i \in 1 .. Len(wire') :
         home'[wire'[i].msg] # None /\ wire'[i].msg \notin heard'
  BY <1>1, <1>2, <1>3 DEF WireInv, HomesStay
<1>5. \A i \in 1 .. Len(wire') : wire'[i].final => wire'[i].msg \notin running'
  BY <1>1, <1>2 DEF WireInv
<1>6. ASSUME NEW i \in 1 .. Len(wire'), NEW j \in 1 .. Len(wire'), i < j, wire'[i].final
      PROVE  wire'[i].msg # wire'[j].msg
  <2>1. i \in 1 .. Len(wire)
    BY <1>1, <1>6
  <2>2. CASE j \in 1 .. Len(wire)
    BY <1>1, <1>6, <2>1, <2>2 DEF WireInv
  <2>3. CASE j = Len(wire) + 1
    BY <1>1, <1>6, <2>1, <2>3
  <2>. QED
    BY <1>2, <2>2, <2>3
<1>. QED
  BY <1>4, <1>5, <1>6 DEF WireInv

\* The wire is the same, of messages that do not run anew.
LEMMA WireSame ==
    ASSUME WireTypes, WireInv, wire' = wire, HomesStay,
           \A i \in 1 .. Len(wire) : wire[i].msg \notin heard',
           \A m \in running' : m \in running \/ \A i \in 1 .. Len(wire) : wire[i].msg # m
    PROVE  WireInv'
<1>1. \A i \in 1 .. Len(wire) : wire[i].msg \in Messages
  BY EventFields DEF WireTypes
<1>2. \A i \in 1 .. Len(wire') :
         home'[wire'[i].msg] # None /\ wire'[i].msg \notin heard'
  BY <1>1 DEF WireInv, HomesStay
<1>3. \A i \in 1 .. Len(wire') : wire'[i].final => wire'[i].msg \notin running'
  BY DEF WireInv
<1>4. \A i, j \in 1 .. Len(wire') : i < j /\ wire'[i].final => wire'[i].msg # wire'[j].msg
  BY DEF WireInv
<1>. QED
  BY <1>2, <1>3, <1>4 DEF WireInv

LEMMA NextWire == TypeInv /\ WhereInv /\ [Next]_vars => WireInv'
<1>0. SUFFICES ASSUME TypeInv, WhereInv, [Next]_vars PROVE WireInv'
  OBVIOUS
<1>1. WireTypes /\ WireInv /\ RouteInv /\ HomesStay
  BY <1>0, NextHomes DEF TypeInv, WhereInv
<1>2. CASE Len(wire') = 0
  BY <1>2 DEF WireInv
<1>3. CASE RoutesStay
  BY <1>1, <1>3, WireSame DEF RoutesStay, GatewayStays, WireStays, WireInv
<1>4. CASE FreshPage \/ StreamFails
  BY <1>2, <1>4 DEF FreshPage, StreamFails
<1>5. \A m \in Messages, b \in BOOLEAN :
         LET e == [msg |-> m, final |-> b] IN e \in Event /\ e.msg = m /\ e.final = b
  BY DEF Event
<1>6. ASSUME NEW m \in Messages, RunStarts(m)
      PROVE  WireInv'
  <2>1. /\ home[m] = None /\ home' = [home EXCEPT ![m] = cur] /\ cur # None
        /\ running' = running \cup {m} /\ UNCHANGED heard
        /\ wire' = wire \/ wire' = Append(wire, [msg |-> m, final |-> FALSE])
    BY <1>6 DEF RunStarts, Begins, told
  <2>2. home'[m] # None
    BY <1>0, <2>1 DEF TypeInv, GatewayTypes
  <2>3. m \notin heard
    BY <1>1, <2>1 DEF RouteInv
  <2>4. \A i \in 1 .. Len(wire) : wire[i].msg # m
    BY <1>1, <2>1 DEF WireInv
  <2>5. CASE wire' = wire
    BY <1>1, <2>1, <2>4, <2>5, WireSame DEF WireInv
  <2>6. CASE wire' = Append(wire, [msg |-> m, final |-> FALSE])
    <3>1. PICK e \in Event : e.msg = m /\ ~e.final /\ wire' = Append(wire, e)
      BY <1>5, <2>6
    <3>. QED
      BY <1>1, <2>1, <2>2, <2>3, <2>4, <3>1, WireGrows
  <2>. QED
    BY <2>1, <2>5, <2>6
<1>7. ASSUME NEW m \in Messages, RunEnds(m)
      PROVE  WireInv'
  <2>1. /\ m \in running /\ running' = running \ {m} /\ UNCHANGED <<home, heard>>
        /\ wire' = wire \/ wire' = Append(wire, [msg |-> m, final |-> TRUE])
    BY <1>7 DEF RunEnds, told
  <2>2. home'[m] # None /\ m \notin heard
    BY <1>1, <2>1 DEF RouteInv
  <2>3. \A i \in 1 .. Len(wire) : wire[i].final => wire[i].msg # m
    BY <1>1, <2>1 DEF WireInv
  <2>4. CASE wire' = wire
    BY <1>1, <2>1, <2>4, WireSame DEF WireInv
  <2>5. CASE wire' = Append(wire, [msg |-> m, final |-> TRUE])
    <3>1. PICK e \in Event : e.msg = m /\ e.final /\ wire' = Append(wire, e)
      BY <1>5, <2>5
    <3>. QED
      BY <1>1, <2>1, <2>2, <2>3, <3>1, WireGrows
  <2>. QED
    BY <2>1, <2>4, <2>5
<1>8. ASSUME NEW m \in Messages, RunReplies(m)
      PROVE  WireInv'
  <2>1. UNCHANGED <<running, heard, wire>>
    BY <1>8 DEF RunReplies, told
  <2>. QED
    BY <1>1, <2>1, WireSame DEF WireInv
<1>9. CASE StreamOpens
  BY <1>1, <1>9, WireSame DEF StreamOpens, gatewayVars, told, WireInv
<1>10. CASE DeltaArrives
  BY <1>0, <1>1, <1>10, DeltaEffect, WireTail
<1>11. ASSUME NEW f \in Tasks, FinalArrives(f)
       PROVE  WireInv'
  BY <1>0, <1>1, <1>11, FinalEffect, WireTail
<1>12. ASSUME NEW f \in Tasks, NEW m \in Messages, ReplyArrives(f, m)
       PROVE  WireInv'
  <2>1. UNCHANGED heard /\ GatewayStays /\ wire' = wire
    BY <1>0, <1>12, ReplyEffect
  <2>. QED
    BY <1>1, <2>1, WireSame DEF WireInv, GatewayStays
<1>. QED
  BY <1>0, <1>3, <1>4, <1>6, <1>7, <1>8, <1>9, <1>10, <1>11, <1>12, RouteCases DEF WireMoves

LEMMA NextWhere == TypeInv /\ WhereInv /\ [Next]_vars => WhereInv'
BY NextHistory, NextRoutes, NextWire DEF WhereInv

------------------------------------------------------------------------------
(* The selected session is shown, and each message once *)

LEMMA FreshShown ==
    ASSUME FreshPage
    PROVE  Shown' = {} /\ cur' = None /\ \A m \in Messages : view'[{m}] = 0
<1>1. view' = Each({}) /\ cur' = None
  BY DEF FreshPage
<1>2. Shown' = {}
  BY <1>1, EachShown DEF Shown
<1>. QED
  BY <1>1, <1>2, EachTypes

LEMMA ShownTypes == ViewTypes => Shown \subseteq Messages
BY DEF ViewTypes, Shown, Bubbles

LEMMA NextSelected == TypeInv /\ WhereInv /\ ShowsSelected /\ [Next]_vars => ShowsSelected'
<1>0. SUFFICES ASSUME TypeInv, WhereInv, ShowsSelected, [Next]_vars PROVE ShowsSelected'
  OBVIOUS
<1>1. ViewTypes /\ PageTypes /\ HomesStay /\ Shown \subseteq Messages
  BY <1>0, NextHomes, ShownTypes DEF TypeInv
<1>2. ASSUME SelectingStays, NEW X \in SUBSET Messages, Shown' \subseteq Shown \cup X,
             strays \subseteq strays', \A m \in X : home[m] = cur \/ m \in strays'
      PROVE  ShowsSelected'
  <2>. SUFFICES ASSUME cur' # None, ~Selecting(cur)', NEW m \in Shown'
                PROVE  home'[m] = cur' \/ m \in strays'
    BY DEF ShowsSelected
  <2>1. cur' = cur /\ ~Selecting(cur)
    BY <1>2 DEF SelectingStays
  <2>2. home[m] = cur \/ m \in strays'
    BY <1>0, <1>2, <2>1 DEF ShowsSelected
  <2>. QED
    BY <1>1, <1>2, <2>1, <2>2 DEF HomesStay
<1>10. ASSUME SelectingStays, Shown' = Shown, strays' = strays
       PROVE  ShowsSelected'
  <2>1. PICK X \in SUBSET Messages : X = {}
    OBVIOUS
  <2>2. Shown' \subseteq Shown \cup X /\ strays \subseteq strays'
    BY <1>10
  <2>3. \A m \in X : home[m] = cur \/ m \in strays'
    BY <2>1
  <2>. QED
    BY <1>2, <1>10, <2>2, <2>3
<1>3. CASE DisplayStays /\ SelectingStays
  <2>1. Shown' = Shown /\ strays' = strays
    BY <1>3 DEF DisplayStays, Shown
  <2>. QED
    BY <1>3, <1>10, <2>1
<1>4. CASE SelectsAnew
  BY <1>4 DEF SelectsAnew, ShowsSelected
<1>5. CASE FreshPage
  BY <1>5, FreshShown DEF ShowsSelected
<1>6. ASSUME NEW f \in Tasks, PollReturns(f) \/ HistoryLoaded(f)
      PROVE  ShowsSelected'
  <2>1. /\ task[f].got \in SUBSET Messages /\ task[f].s \in Sessions /\ cur' = cur
        /\ \A m \in task[f].got : home[m] = task[f].s
    BY <1>0, <1>1, <1>6, FetchShown, GotTypes DEF WhereInv, HistoryInv
  <2>2. CASE RenderHistory(task[f].s, task[f].got)
    <3>1. /\ Shown' = task[f].got
          /\ strays' = IF task[f].s = cur THEN {} ELSE task[f].got
      BY <1>1, <2>1, <2>2, Rendered
    <3>2. \A m \in task[f].got : home'[m] = task[f].s
      BY <1>1, <2>1, SessionViewAssumption DEF HomesStay
    <3>. QED
      BY <2>1, <3>1, <3>2 DEF ShowsSelected
  <2>3. CASE task[f].s = cur /\ SelectingStays /\ AddUnseen(task[f].got)
    <3>1. Shown' \subseteq Shown \cup task[f].got /\ strays' = strays
      BY <1>1, <2>1, <2>3, Added DEF Adds
    <3>. QED
      BY <1>2, <2>1, <2>3, <3>1
  <2>. QED
    BY <1>1, <1>3, <1>6, <2>2, <2>3, FetchShown
<1>7. CASE DeltaArrives
  <2>1. /\ SelectingStays /\ strays' = strays /\ Head(wire).msg \in Messages
        /\ \/ UNCHANGED view
           \/ home[Head(wire).msg] = cur /\ ShowLive(Head(wire).msg)
    BY <1>0, <1>7, DeltaEffect
  <2>2. CASE UNCHANGED view
    <3>1. Shown' = Shown
      BY <2>2 DEF Shown
    <3>. QED
      BY <1>10, <2>1, <3>1
  <2>3. CASE home[Head(wire).msg] = cur /\ ShowLive(Head(wire).msg)
    <3>1. Shown' \subseteq Shown \cup {Head(wire).msg}
      BY <1>1, <2>1, <2>3, LiveShows
    <3>. QED
      BY <1>2, <2>1, <2>3, <3>1
  <2>. QED
    BY <2>1, <2>2, <2>3
<1>8. ASSUME NEW f \in Tasks, FinalArrives(f)
      PROVE  ShowsSelected'
  <2>1. /\ SelectingStays /\ strays' = strays /\ Head(wire).msg \in Messages
        /\ \/ UNCHANGED view
           \/ home[Head(wire).msg] = cur /\ ShowLive(Head(wire).msg)
    BY <1>0, <1>8, FinalEffect
  <2>2. CASE UNCHANGED view
    <3>1. Shown' = Shown
      BY <2>2 DEF Shown
    <3>. QED
      BY <1>10, <2>1, <3>1
  <2>3. CASE home[Head(wire).msg] = cur /\ ShowLive(Head(wire).msg)
    <3>1. Shown' \subseteq Shown \cup {Head(wire).msg}
      BY <1>1, <2>1, <2>3, LiveShows
    <3>. QED
      BY <1>2, <2>1, <2>3, <3>1
  <2>. QED
    BY <2>1, <2>2, <2>3
<1>9. ASSUME NEW f \in Tasks, NEW m \in Messages, ReplyArrives(f, m)
      PROVE  ShowsSelected'
  <2>1. /\ Shows({m}) /\ SelectingStays
        /\ strays' = IF home[m] = cur THEN strays ELSE strays \cup {m}
    BY <1>0, <1>9, ReplyEffect
  <2>2. Shown' = Shown \cup {m}
    BY <1>1, <2>1, ReplyShows
  <2>. QED
    BY <1>2, <2>1, <2>2
<1>. QED
  BY <1>0, <1>3, <1>4, <1>5, <1>6, <1>7, <1>8, <1>9, ViewCases DEF ViewMoves

\* In how many ways a message came: the answer of the POST, and the events, which
\* show it in the live turn before the last one.
InTurn(m) == IF live.attached /\ live.text = {m} THEN 1 ELSE 0
Came(m) == (IF m \in answered THEN 1 ELSE 0) + (IF m \in heard THEN 1 ELSE InTurn(m))

LEMMA CameTypes == \A m : InTurn(m) \in 0 .. 1 /\ Came(m) \in Nat
BY DEF InTurn, Came

\* What OnceInv says of one message: there are no more bubbles of it than ways it
\* came, and none but that of the live turn once it came, unless polls know it or
\* an echo makes them skip it.
Once(m) ==
    /\ view[{m}] <= Came(m)
    /\ m \in Announced \ (keys \cup Remembered) => view[{m}] <= InTurn(m)

\* It holds of what no history had before it came, and no echo that had expired
\* should have made a poll skip.
OnceInv == ~Selecting(cur) => \A m \in Messages \ (early \cup expired) : Once(m)

\* Every bubble of a message is gained or lost with its place in the live turn.
LEMMA LiveCounts ==
    ASSUME ViewTypes, NEW m \in Messages, NEW l \in Messages, ShowLive(m)
    PROVE  view'[{l}] = (view[{l}] - InTurn(l))
              + (IF (live.attached \/ live = NoTurn) /\ live.text \cup {m} = {l} THEN 1 ELSE 0)
<1>1. {l} \in Bubbles /\ view \in [Bubbles -> Nat] /\ view' \in [Bubbles -> Nat]
  BY LiveShown DEF ViewTypes, Bubbles
<1>2. live = NoTurn => live.attached = FALSE
  BY NoTurnTypes
<1>3. CASE live = NoTurn \/ live.attached
  <2>1. view'[{l}] = (view[{l}] - (IF live.attached /\ {l} = live.text THEN 1 ELSE 0))
                         + (IF {l} = live.text \cup {m} THEN 1 ELSE 0)
    BY <1>1, <1>3, LiveShown
  <2>. QED
    BY <1>1, <1>3, <2>1 DEF InTurn
<1>4. CASE live # NoTurn /\ ~live.attached
  <2>1. UNCHANGED view
    BY <1>4, LiveShown
  <2>. QED
    BY <1>1, <1>4, <2>1 DEF InTurn
<1>. QED
  BY <1>3, <1>4

\* Once before a step that changes nothing it speaks of
LEMMA OnceStays ==
    ASSUME ViewTypes, NEW l \in Messages, Once(l), view'[{l}] = view[{l}],
           InTurn(l)' = InTurn(l),
           l \in answered => l \in answered', l \in heard => l \in heard',
           l \in Announced' \ (keys' \cup Remembered') =>
               l \in Announced \ (keys \cup Remembered) \/ view[{l}] <= InTurn(l)
    PROVE  Once(l)'
<1>1. view[{l}] \in Nat /\ InTurn(l) \in 0 .. 1
  BY CameTypes DEF ViewTypes, Bubbles
<1>2. PICK n : n = InTurn(l) /\ n = InTurn(l)' /\ n \in 0 .. 1
  BY <1>1
<1>3. view[{l}] <= (IF l \in answered THEN 1 ELSE 0) + (IF l \in heard THEN 1 ELSE n)
  BY <1>2 DEF Once, Came
<1>4. view'[{l}] <= (IF l \in answered' THEN 1 ELSE 0) + (IF l \in heard' THEN 1 ELSE n)
  BY <1>1, <1>2, <1>3
<1>5. l \in Announced' \ (keys' \cup Remembered') => view'[{l}] <= n
  BY <1>2 DEF Once
<1>. QED
  BY <1>2, <1>4, <1>5 DEF Once, Came

LEMMA NextOnce == TypeInv /\ WhereInv /\ OnceInv /\ [Next]_vars => OnceInv'
<1>0. SUFFICES ASSUME TypeInv, WhereInv, OnceInv, [Next]_vars, ~Selecting(cur)',
                      NEW l \in Messages, l \notin early' \cup expired'
               PROVE  Once(l)'
  BY DEF OnceInv
<1>1. ViewTypes /\ PageTypes /\ WireTypes /\ RouteInv /\ WireInv
  BY <1>0 DEF TypeInv, WhereInv
<1>2. ASSUME SelectingStays, l \notin early \cup expired
      PROVE  Once(l)
  BY <1>0, <1>2 DEF OnceInv, SelectingStays
<1>3. CASE DisplayStays /\ SelectingStays
  BY <1>0, <1>1, <1>2, <1>3, OnceStays DEF DisplayStays, InTurn, Announced, Remembered
<1>4. CASE SelectsAnew
  BY <1>0, <1>4 DEF SelectsAnew
<1>5. CASE FreshPage
  <2>1. view'[{l}] = 0 /\ heard' = {} /\ answered' = {}
    BY <1>5, FreshShown DEF FreshPage
  <2>2. live'.attached = FALSE
    BY <1>5, NoTurnTypes DEF FreshPage
  <2>. QED
    BY <2>1, <2>2 DEF Once, Came, InTurn, Announced
<1>12. view[{l}] \in Nat /\ InTurn(l) \in 0 .. 1
  BY <1>1, CameTypes DEF ViewTypes, Bubbles
<1>6. ASSUME NEW f \in Tasks, PollReturns(f) \/ HistoryLoaded(f)
      PROVE  Once(l)'
  <2>. DEFINE S == task[f].got
  <2>1. S \in SUBSET Messages /\ UNCHANGED <<heard, answered>>
    BY <1>1, <1>6, FetchShown, GotTypes
  <2>2. CASE RenderHistory(task[f].s, S)
    <3>1. /\ view'[{l}] = IF l \in S THEN 1 ELSE 0
          /\ keys' = S /\ early' = S \ Announced /\ ~live'.attached
      BY <1>0, <1>1, <2>1, <2>2, Rendered
    <3>2. l \in S => l \in heard' \/ l \in answered'
      BY <1>0, <2>1, <3>1 DEF Announced
    <3>. HIDE DEF S
    <3>. QED
      BY <3>1, <3>2 DEF Once, Came, InTurn
  <2>3. CASE SelectingStays /\ AddUnseen(S)
    <3>1. /\ view'[{l}] = IF l \in Adds(S) THEN view[{l}] + 1 ELSE view[{l}]
          /\ keys' = keys \cup S
          /\ l \in Remembered /\ (l \in keys \/ l \notin S) => l \in Remembered'
          /\ early' = early \cup (S \ Announced) /\ UNCHANGED live
          /\ expired' = expired \cup (Adds(S) \cap stale)
      BY <1>0, <1>1, <2>1, <2>3, Added
    <3>2. l \notin early /\ l \notin expired /\ (l \in S => l \in Announced)
      BY <1>0, <3>1
    <3>3. Once(l) /\ InTurn(l)' = InTurn(l) /\ Announced' = Announced
      BY <1>2, <2>1, <2>3, <3>1, <3>2 DEF InTurn, Announced
    <3>. HIDE DEF S
    <3>4. CASE l \in Adds(S)
      <4>1. l \in S /\ l \notin keys /\ l \notin Remembered
        BY <1>0, <3>1, <3>4 DEF Adds
      <4>2. view[{l}] <= InTurn(l) /\ (l \in heard \/ l \in answered)
        BY <3>2, <3>3, <4>1 DEF Once, Announced
      <4>3. l \in heard => InTurn(l) = 0
        BY <1>1 DEF RouteInv, InTurn
      <4>4. view'[{l}] = view[{l}] + 1 /\ l \in keys'
        BY <3>1, <3>4, <4>1
      <4>5. PICK n : n = InTurn(l) /\ n = InTurn(l)' /\ n \in 0 .. 1
        BY <1>12, <3>3
      <4>6. view'[{l}] <= (IF l \in answered' THEN 1 ELSE 0) + (IF l \in heard' THEN 1 ELSE n)
        BY <1>12, <2>1, <4>2, <4>3, <4>4, <4>5
      <4>. QED
        BY <4>4, <4>5, <4>6 DEF Once, Came
    <3>5. CASE l \notin Adds(S)
      BY <1>1, <2>1, <3>1, <3>3, <3>5, OnceStays
    <3>. QED
      BY <3>4, <3>5
  <2>. QED
    BY <1>1, <1>3, <1>6, <2>2, <2>3, FetchShown
<1>8. CASE DeltaArrives
  <2>. DEFINE m == Head(wire).msg
  <2>1. /\ wire # <<>> /\ m \in Messages /\ SelectingStays
        /\ UNCHANGED <<heard, answered, keys, echoes, early, expired>>
        /\ \/ UNCHANGED <<view, live>>
           \/ /\ ShowLive(m) /\ live'.text = live.text \cup {m}
              /\ live'.attached <=> live.attached \/ live = NoTurn
    BY <1>0, <1>8, DeltaEffect
  <2>2. m \notin heard
    BY <1>1, <2>1, WireHead DEF WireTypes, WireInv
  <2>. HIDE DEF m
  <2>3. Once(l) /\ Announced' = Announced /\ Remembered' = Remembered
    BY <1>0, <1>2, <2>1 DEF Announced, Remembered
  <2>4. CASE UNCHANGED <<view, live>>
    BY <1>1, <2>1, <2>3, <2>4, OnceStays DEF InTurn
  <2>5. CASE /\ ShowLive(m) /\ live'.text = live.text \cup {m}
             /\ live'.attached <=> live.attached \/ live = NoTurn
    <3>1. view'[{l}] = (view[{l}] - InTurn(l))
             + (IF (live.attached \/ live = NoTurn) /\ live.text \cup {m} = {l} THEN 1 ELSE 0)
      BY <1>0, <1>1, <2>1, <2>5, LiveCounts
    <3>2. InTurn(l)' = IF (live.attached \/ live = NoTurn) /\ live.text \cup {m} = {l} THEN 1 ELSE 0
      BY <2>5 DEF InTurn
    <3>3. PICK n, k : n = InTurn(l) /\ k = InTurn(l)' /\ n \in 0 .. 1 /\ k \in 0 .. 1
      BY <1>12, <3>2
    <3>4. view'[{l}] = (view[{l}] - n) + k
      BY <3>1, <3>2, <3>3
    <3>5. l \in heard => n = 0 /\ k = 0
      BY <1>1, <2>2, <3>2, <3>3 DEF RouteInv, InTurn
    <3>6. /\ view[{l}] <= (IF l \in answered THEN 1 ELSE 0) + (IF l \in heard THEN 1 ELSE n)
          /\ l \in Announced \ (keys \cup Remembered) => view[{l}] <= n
      BY <2>3, <3>3 DEF Once, Came
    <3>7. /\ view'[{l}] <= (IF l \in answered' THEN 1 ELSE 0) + (IF l \in heard' THEN 1 ELSE k)
          /\ l \in Announced' \ (keys' \cup Remembered') => view'[{l}] <= k
      BY <1>12, <2>1, <2>3, <3>3, <3>4, <3>5, <3>6
    <3>. QED
      BY <3>3, <3>7 DEF Once, Came
  <2>. QED
    BY <2>1, <2>4, <2>5
<1>9. ASSUME NEW f \in Tasks, FinalArrives(f)
      PROVE  Once(l)'
  <2>. DEFINE m == Head(wire).msg
  <2>1. /\ wire # <<>> /\ m \in Messages /\ UNCHANGED <<keys, early, expired, answered>>
        /\ SelectingStays /\ heard' = heard \cup {m}
        /\ IF home[m] # cur THEN UNCHANGED <<view, live, echoes>>
           ELSE ShowLive(m) /\ live' = NoTurn /\ RememberEcho(live.text \cup {m})
    BY <1>0, <1>9, FinalEffect
  <2>2. m \notin heard
    BY <1>1, <2>1, WireHead DEF WireTypes, WireInv
  <2>. HIDE DEF m
  <2>3. Once(l)
    BY <1>0, <1>2, <2>1
  <2>4. PICK n : n = InTurn(l) /\ n \in 0 .. 1
    BY <1>12
  <2>5. /\ view[{l}] <= (IF l \in answered THEN 1 ELSE 0) + (IF l \in heard THEN 1 ELSE n)
        /\ l \in Announced \ (keys \cup Remembered) => view[{l}] <= n
    BY <2>3, <2>4 DEF Once, Came
  \* What had not come was in the live turn at most.
  <2>6. l \notin keys \cup Remembered /\ l \notin heard => view[{l}] <= n
    BY <2>4, <2>5, <1>12 DEF Announced
  <2>7. CASE home[m] # cur
    <3>1. InTurn(l)' = InTurn(l) /\ Remembered' = Remembered
      BY <2>1, <2>7 DEF InTurn, Remembered
    <3>2. l \in Announced' \ (keys' \cup Remembered') => view[{l}] <= n
      BY <2>1, <2>2, <2>5, <2>6, <3>1 DEF Announced
    <3>. QED
      BY <1>1, <2>1, <2>3, <2>4, <2>7, <3>1, <3>2, OnceStays
  <2>8. CASE home[m] = cur
    <3>1. view'[{l}] = (view[{l}] - n)
             + (IF (live.attached \/ live = NoTurn) /\ live.text \cup {m} = {l} THEN 1 ELSE 0)
      BY <1>0, <1>1, <2>1, <2>4, <2>8, LiveCounts
    <3>2. Remembered' = Remembered \cup {k \in Messages : live.text \cup {m} = {k}}
      BY <1>1, <2>1, <2>8, Echoed
    <3>3. InTurn(l)' = 0
      BY <2>1, <2>8, NoTurnTypes DEF InTurn
    <3>4. live.text \cup {m} = {l} => l = m /\ l \in Remembered'
      BY <1>0, <3>2
    <3>5. CASE l = m
      <4>1. view'[{l}] <= (IF l \in answered' THEN 1 ELSE 0) + 1 /\ l \in heard'
        BY <1>12, <2>1, <2>2, <2>4, <2>5, <3>1, <3>5
      <4>2. l \in Announced' \ (keys' \cup Remembered') => view'[{l}] <= 0
        <5>. SUFFICES ASSUME l \in Announced' \ (keys' \cup Remembered') PROVE view'[{l}] <= 0
          OBVIOUS
        <5>1. view[{l}] <= n
          BY <2>1, <2>2, <2>6, <3>2, <3>5
        <5>2. view'[{l}] = view[{l}] - n
          BY <1>12, <2>4, <3>1, <3>4
        <5>. QED
          BY <1>12, <2>4, <5>1, <5>2
      <4>. QED
        BY <3>3, <4>1, <4>2 DEF Once, Came
    <3>6. CASE l # m
      <4>1. view'[{l}] = view[{l}] - n
        BY <1>12, <2>4, <3>1, <3>4, <3>6
      <4>2. l \in heard' <=> l \in heard
        BY <2>1, <3>6
      <4>3. view'[{l}] <= (IF l \in answered' THEN 1 ELSE 0) + (IF l \in heard' THEN 1 ELSE 0)
        BY <1>12, <2>1, <2>4, <2>5, <4>1, <4>2
      <4>4. l \in Announced' \ (keys' \cup Remembered') => view'[{l}] <= 0
        <5>1. l \in Announced' \ (keys' \cup Remembered') => l \in Announced \ (keys \cup Remembered)
          BY <2>1, <3>2, <4>2 DEF Announced
        <5>. QED
          BY <1>12, <2>4, <2>5, <4>1, <5>1
      <4>. QED
        BY <3>3, <4>3, <4>4 DEF Once, Came
    <3>. QED
      BY <3>5, <3>6
  <2>. QED
    BY <2>7, <2>8
<1>10. ASSUME NEW f \in Tasks, NEW m \in Messages, ReplyArrives(f, m)
       PROVE  Once(l)'
  <2>1. /\ m \in replies /\ UNCHANGED <<keys, live, early, expired, heard>> /\ SelectingStays
        /\ answered' = answered \cup {m} /\ Remembered' = Remembered \cup {m} /\ Shows({m})
    BY <1>0, <1>10, ReplyEffect
  <2>2. view'[{l}] = IF l = m THEN view[{l}] + 1 ELSE view[{l}]
    BY <1>0, <1>1, <2>1, ReplyShows
  <2>3. m \notin answered
    BY <1>1, <2>1 DEF RouteInv
  <2>4. Once(l)
    BY <1>0, <1>2, <2>1
  <2>5. InTurn(l)' = InTurn(l)
    BY <2>1 DEF InTurn
  <2>6. CASE l # m
    <3>1. l \in Announced' => l \in Announced
      BY <2>1, <2>6 DEF Announced
    <3>. QED
      BY <1>1, <2>1, <2>2, <2>4, <2>5, <2>6, <3>1, OnceStays
  <2>7. CASE l = m
    <3>1. PICK n : n = InTurn(l) /\ n = InTurn(l)' /\ n \in 0 .. 1
      BY <1>12, <2>5
    <3>2. view[{l}] <= 0 + (IF l \in heard THEN 1 ELSE n)
      BY <2>3, <2>4, <2>7, <3>1 DEF Once, Came
    <3>3. view'[{l}] <= (IF l \in answered' THEN 1 ELSE 0) + (IF l \in heard' THEN 1 ELSE n)
      BY <1>12, <2>1, <2>2, <2>7, <3>1, <3>2
    <3>4. l \in Remembered'
      BY <2>1, <2>7
    <3>. QED
      BY <3>1, <3>3, <3>4 DEF Once, Came
  <2>. QED
    BY <2>6, <2>7
<1>. QED
  BY <1>0, <1>3, <1>4, <1>5, <1>6, <1>8, <1>9, <1>10, ViewCases DEF ViewMoves

\* Also what an echo makes polls skip, and what a live turn would leave as an echo,
\* is shown, or was removed by a rendering.
KnownInv ==
    /\ keys \cup Remembered \subseteq Shown \cup wiped
    /\ \A m \in Messages : ~live.attached /\ live.text = {m} => m \in Shown \cup wiped

LEMMA NextKnown == TypeInv /\ KnownInv /\ [Next]_vars => KnownInv'
<1>0. SUFFICES ASSUME TypeInv, KnownInv, [Next]_vars PROVE KnownInv'
  OBVIOUS
<1>1. ViewTypes /\ PageTypes
  BY <1>0 DEF TypeInv
<1>2. UNCHANGED view => Shown' = Shown
  BY DEF Shown
<1>3. CASE DisplayStays \/ SelectsAnew
  BY <1>0, <1>2, <1>3, NoTurnTypes DEF DisplayStays, SelectsAnew, Remembered, KnownInv
<1>4. CASE FreshPage
  <2>1. keys' = {} /\ Remembered' = {} /\ live'.text = {}
    BY <1>4, NoTurnTypes DEF FreshPage, NoEchoes, Remembered
  <2>. QED
    BY <2>1 DEF KnownInv
<1>5. ASSUME NEW f \in Tasks, PollReturns(f) \/ HistoryLoaded(f)
      PROVE  KnownInv'
  <2>. DEFINE S == task[f].got
  <2>1. S \in SUBSET Messages
    BY <1>1, <1>5, FetchShown, GotTypes
  <2>2. CASE RenderHistory(task[f].s, S) /\ UNCHANGED echoes
    <3>1. /\ Shown' = S /\ keys' = S /\ live'.text = live.text
          /\ wiped' = (((wiped \cup Shown) \cap Remembered) \cup live.text) \ S
      BY <1>1, <2>1, <2>2, Rendered
    <3>2. Remembered' = Remembered
      BY <2>2 DEF Remembered
    <3>. QED
      BY <1>0, <3>1, <3>2 DEF KnownInv
  <2>3. CASE AddUnseen(S)
    <3>1. /\ Shown' = Shown \cup Adds(S) /\ UNCHANGED live
          /\ keys' = keys \cup S /\ Remembered' \subseteq Remembered
          /\ wiped' = wiped \ Adds(S)
      BY <1>1, <2>1, <2>3, Added
    <3>. HIDE DEF S
    <3>2. S \subseteq keys \cup Adds(S) \cup Remembered
      BY DEF Adds
    <3>. QED
      BY <1>0, <3>1, <3>2 DEF KnownInv
  <2>. QED
    BY <1>1, <1>3, <1>5, <2>2, <2>3, FetchShown
\* A live turn without text is none.
<1>6. ~live.attached /\ live.text = {} => live = NoTurn
  <2>1. live \in [text : Bubbles, attached : BOOLEAN]
    BY <1>1 DEF ViewTypes
  <2>. QED
    BY <2>1 DEF NoTurn
<1>7. CASE DeltaArrives
  <2>. DEFINE m == Head(wire).msg
  <2>1. /\ m \in Messages /\ UNCHANGED <<keys, echoes, wiped>>
        /\ \/ UNCHANGED <<view, live>>
           \/ /\ ShowLive(m) /\ live'.text = live.text \cup {m}
              /\ live'.attached <=> live.attached \/ live = NoTurn
    BY <1>0, <1>7, DeltaEffect
  <2>. HIDE DEF m
  <2>2. CASE UNCHANGED <<view, live>>
    BY <1>0, <1>2, <2>1, <2>2 DEF Remembered, KnownInv
  <2>3. CASE /\ ShowLive(m) /\ live'.text = live.text \cup {m}
             /\ live'.attached <=> live.attached \/ live = NoTurn
    <3>1. Shown \subseteq Shown'
      BY <1>1, <2>1, <2>3, LiveShows
    <3>2. ASSUME NEW l \in Messages, ~live'.attached, live'.text = {l}
          PROVE  l \in Shown' \cup wiped'
      <4>1. ~live.attached /\ live.text # {}
        BY <1>6, <2>3, <3>2
      <4>2. live.text = {l}
        BY <2>3, <3>2, <4>1
      <4>. QED
        BY <1>0, <2>1, <3>1, <4>1, <4>2 DEF KnownInv
    <3>. QED
      BY <1>0, <2>1, <3>1, <3>2 DEF Remembered, KnownInv
  <2>. QED
    BY <2>1, <2>2, <2>3
<1>8. ASSUME NEW f \in Tasks, FinalArrives(f)
      PROVE  KnownInv'
  <2>. DEFINE m == Head(wire).msg
  <2>1. /\ m \in Messages /\ UNCHANGED <<keys, wiped>>
        /\ \/ UNCHANGED <<view, live, echoes>>
           \/ ShowLive(m) /\ live' = NoTurn /\ RememberEcho(live.text \cup {m})
    BY <1>0, <1>8, FinalEffect
  <2>. HIDE DEF m
  <2>2. CASE UNCHANGED <<view, live, echoes>>
    BY <1>0, <1>2, <2>1, <2>2 DEF Remembered, KnownInv
  <2>3. CASE ShowLive(m) /\ live' = NoTurn /\ RememberEcho(live.text \cup {m})
    <3>1. /\ Shown \subseteq Shown'
          /\ live = NoTurn \/ live.attached => m \in Shown'
      BY <1>1, <2>1, <2>3, LiveShows
    <3>2. \/ Remembered' = Remembered
          \/ live.text \cup {m} = {m} /\ Remembered' = Remembered \cup {m}
      <4>1. Remembered' = Remembered \cup {l \in Messages : live.text \cup {m} = {l}}
        BY <1>1, <2>3, Echoed
      <4>. QED
        BY <2>1, <4>1
    <3>3. live.text \cup {m} = {m} => m \in Shown' \cup wiped'
      <4>1. live.text \cup {m} = {m} => live.text = {} \/ live.text = {m}
        OBVIOUS
      <4>. QED
        BY <1>0, <1>6, <2>1, <3>1, <4>1 DEF KnownInv
    <3>4. live'.text = {}
      BY <2>3, NoTurnTypes
    <3>. QED
      BY <1>0, <2>1, <3>1, <3>2, <3>3, <3>4 DEF KnownInv
  <2>. QED
    BY <2>1, <2>2, <2>3
<1>9. ASSUME NEW f \in Tasks, NEW m \in Messages, ReplyArrives(f, m)
      PROVE  KnownInv'
  <2>1. UNCHANGED <<keys, live, wiped>> /\ Remembered' = Remembered \cup {m} /\ Shows({m})
    BY <1>0, <1>9, ReplyEffect
  <2>2. Shown' = Shown \cup {m}
    BY <1>1, <2>1, ReplyShows
  <2>. QED
    BY <1>0, <2>1, <2>2 DEF KnownInv
<1>. QED
  BY <1>0, <1>3, <1>4, <1>5, <1>7, <1>8, <1>9, ViewCases DEF ViewMoves

\* The invariant of the page
PageInv == TypeInv /\ WhereInv /\ ShowsSelected /\ OnceInv /\ KnownInv

LEMMA InitPage == Init => PageInv
<1>. SUFFICES ASSUME Init PROVE PageInv
  OBVIOUS
<1>1. view = Each({}) /\ cur = None /\ keys = {} /\ Remembered = {} /\ live.text = {}
  BY NoTurnTypes DEF Init, NoEchoes, Remembered
<1>2. \A m \in Messages : view[{m}] = 0
  BY <1>1, EachTypes
<1>3. \A m \in Messages : Came(m) >= 0 /\ InTurn(m) >= 0
  BY CameTypes
<1>. QED
  BY <1>1, <1>2, <1>3, InitTypes, InitWhere DEF PageInv, ShowsSelected, OnceInv, Once, KnownInv

LEMMA NextPage == PageInv /\ [Next]_vars => PageInv'
BY NextTypes, NextWhere, NextSelected, NextOnce, NextKnown DEF PageInv

LEMMA PageInvHolds == Spec => []PageInv
BY InitPage, NextPage, PTL DEF Spec

\* The variables always have their types: what is counted off the page was on it.
THEOREM ViewTypesHold == Spec => []TypeOK
<1>1. PageInv => TypeOK
  BY DEF PageInv, TypeInv, GatewayTypes, WireTypes, PageTypes, KeyTypes, ViewTypes, StaleTypes,
         TypeOK
<1>. QED
  BY <1>1, PageInvHolds, PTL

\* What the page shows belongs to the selected session, unless that session is
\* still being loaded, or an overtaken selection or an answer to a POST brought it
\* (index.html:3278-3332, 3722-3761).
THEOREM PageShowsSelected == Spec => []ShowsSelected
<1>1. PageInv => ShowsSelected
  BY DEF PageInv
<1>. QED
  BY <1>1, PageInvHolds, PTL

\* Polls add no second bubble of a message: it has one of its own for the event
\* and one for the answer of the POST, if both bring it, and otherwise one,
\* whichever of them comes when.  Excepted is what a history had before the page
\* got it in another way, and what came in a history after its echo had expired
\* (index.html:3216-3246, 3301-3311, 3755-3759, 4131-4137).
THEOREM MessagesAreShownOnce == Spec => []ShownOnce
<1>1. PageInv => ShownOnce
  <2>. SUFFICES ASSUME PageInv, ~Selecting(cur), NEW m \in Messages \ (early \cup expired)
                PROVE  view[{m}] <= IF m \in answered /\ m \in heard \cup live.text THEN 2 ELSE 1
    BY DEF ShownOnce
  <2>1. view[{m}] <= Came(m) /\ view[{m}] \in Nat
    BY DEF PageInv, OnceInv, Once, TypeInv, ViewTypes, Bubbles
  <2>2. Came(m) <= IF m \in answered /\ m \in heard \cup live.text THEN 2 ELSE 1
    BY DEF Came, InTurn
  <2>3. Came(m) \in Nat
    BY CameTypes
  <2>. QED
    BY <2>1, <2>2, <2>3
<1>. QED
  BY <1>1, PageInvHolds, PTL

\* A message that polls will not add any more is shown, unless rendering the
\* history removed the bubble it was shown in (index.html:3301-3311, 3793-3823).
THEOREM KnownMessagesAreShown == Spec => []KnownIsShown
<1>1. PageInv => KnownIsShown
  BY DEF PageInv, KnownInv, KnownIsShown
<1>. QED
  BY <1>1, PageInvHolds, PTL

------------------------------------------------------------------------------
(* Polling *)

\* A step that sets no flag and takes no poll away
LEMMA PollsKept ==
    ASSUME PollInv, NEW f \in Tasks, NEW state, Become(f, state), inFlight' => inFlight,
           task[f].at \notin {"poll", "polled"} \/ state.at \in {"poll", "polled"} \/ ~inFlight'
    PROVE  PollInv'
<1>1. TaskFunction' /\ task'[f] = state /\ \A g \in Tasks : g # f => task'[g] = task[g]
  BY Becomes DEF PollInv
<1>. QED
  BY <1>1 DEF PollInv, PollsGoOn

LEMMA PollStarts ==
    ASSUME PollInv, NEW f \in Tasks, StartPoll(f)
    PROVE  PollInv'
<1>1. CASE cur = None \/ inFlight
  BY <1>1 DEF StartPoll, PollInv, PollsGoOn, TaskFunction
<1>2. CASE ~(cur = None \/ inFlight)
  <2>1. Become(f, [at |-> "poll", s |-> cur])
    BY <1>2 DEF StartPoll
  <2>2. TaskFunction' /\ task'[f] = [at |-> "poll", s |-> cur]
    BY <2>1, Becomes DEF PollInv
  <2>. QED
    BY <2>2 DEF PollInv, PollsGoOn
<1>. QED
  BY <1>1, <1>2

LEMMA PollsUntouched ==
    ASSUME PollInv, task' = task, inFlight' => inFlight
    PROVE  PollInv'
BY DEF PollInv, PollsGoOn, TaskFunction

LEMMA PollsOfFreshPage == FreshPage => PollInv'
BY DEF FreshPage, PollInv, PollsGoOn, TaskFunction

LEMMA PollStep ==
    ASSUME PollInv, NEW f \in Tasks, TaskStep(f)
    PROVE  PollInv'
<1>1. Free.at = "free"
  BY DEF Free
<1>2. CASE PollTimerFires(f)
  BY <1>2, PollStarts DEF PollTimerFires
<1>3. CASE PollReturns(f)
  BY <1>3, PollsKept DEF PollReturns
<1>4. CASE FinalArrives(f)
  BY <1>4, PollStarts, PollsUntouched DEF FinalArrives
<1>5. CASE \E m \in Messages : ReplyArrives(f, m)
  BY <1>5, PollStarts DEF ReplyArrives
<1>6. ASSUME NEW s, NEW waiting, BeginSelect(f, s, waiting), UNCHANGED inFlight,
             task[f].at \notin {"poll", "polled"}
      PROVE  PollInv'
  BY <1>6, PollsKept DEF BeginSelect
<1>7. CASE \E s \in Sessions : SelectSession(f, s)
  BY <1>1, <1>6, <1>7 DEF SelectSession
<1>8. CASE KeyStored(f)
  BY <1>8, PollsKept DEF KeyStored
<1>9. CASE HistoryRead(f) \/ HistoryFails(f)
  <2>1. PICK messages : Got(f, messages) /\ UNCHANGED inFlight
    BY <1>9 DEF HistoryRead, HistoryFails
  <2>2. DEFINE state == [at |-> IF task[f].at = "select" THEN "selected" ELSE "polled",
                         s |-> task[f].s, got |-> messages]
  <2>3. Become(f, state) /\ (task[f].at = "select" \/ state.at = "polled")
    BY <2>1 DEF Got
  <2>. HIDE DEF state
  <2>. QED
    BY <2>1, <2>3, PollsKept
<1>10. CASE HistoryLoaded(f)
  BY <1>10, PollsKept DEF HistoryLoaded
<1>11. CASE LoadSessions(f)
  BY <1>1, <1>11, PollsKept DEF LoadSessions
<1>12. CASE NoSessions(f)
  BY <1>12, PollsKept DEF NoSessions
<1>13. CASE KeyCleared(f)
  BY <1>6, <1>13 DEF KeyCleared
<1>14. ASSUME NEW list, SessionKept(f, list) \/ SessionSwitched(f, list)
       PROVE  PollInv'
  BY <1>6, <1>14, PollsKept DEF SessionKept, SessionSwitched
<1>15. ASSUME NEW list, StoredSessionGone(f, list)
       PROVE  PollInv'
  <2>1. task[f].at = "load" /\ UNCHANGED inFlight
    BY <1>15 DEF StoredSessionGone
  <2>2. PICK s : Become(f, [at |-> "clear", s |-> s]) \/ BeginSelect(f, s, writing)
    BY <1>15 DEF StoredSessionGone
  <2>. QED
    BY <1>6, <2>1, <2>2, PollsKept
<1>16. CASE Logout(f)
  BY <1>1, <1>16, PollsKept DEF Logout
<1>17. CASE LoggedOut(f)
  BY <1>17, PollsOfFreshPage DEF LoggedOut
<1>. QED
  BY <1>2, <1>3, <1>4, <1>5, <1>7, <1>8, <1>9, <1>10, <1>11, <1>12, <1>13, <1>14, <1>15,
     <1>16, <1>17 DEF TaskStep

LEMMA PollInduction == PollInv /\ [Next]_vars => PollInv'
<1>. SUFFICES ASSUME PollInv, [Next]_vars PROVE PollInv'
  OBVIOUS
<1>1. CASE GatewayStep
  <2>1. task' = task /\ (inFlight' = FALSE \/ inFlight' = inFlight)
    BY <1>1 DEF GatewayStep, RunStarts, RunEnds, RunReplies, StreamFails, StreamOpens, pageVars
  <2>. QED
    BY <2>1, PollsUntouched
<1>2. CASE DeltaArrives \/ \E m \in Messages : EchoExpires(m)
  BY <1>2, PollsUntouched DEF DeltaArrives, EchoExpires, pageVars
<1>3. CASE Reload
  BY <1>3, PollsOfFreshPage DEF Reload
<1>4. CASE UNCHANGED vars
  BY <1>4, PollsUntouched DEF vars, pageVars
<1>. QED
  BY <1>1, <1>2, <1>3, <1>4, PollStep DEF Next

\* The flag that keeps polls apart is set only while a poll is under way: no poll
\* that fails, or is overtaken, keeps the timer from starting the next
\* (index.html:3263-3283, 3329-3331).
THEOREM PollFlagIsOfAPoll == Spec => []PollsGoOn
<1>1. Init => PollInv
  BY InitIInv DEF IInv
<1>2. PollInv => PollsGoOn
  BY DEF PollInv
<1>. QED
  BY <1>1, <1>2, PollInduction, PTL DEF Spec

------------------------------------------------------------------------------
(* The stored key *)

\* A step that leaves the storage alone and takes no task out of its queue
LEMMA StorageKept ==
    ASSUME IInv, UNCHANGED storage,
           \/ UNCHANGED task
           \/ \E f \in Tasks : \E state : Become(f, state) /\ task[f].at \notin Queueing
    PROVE  StorageInv'
<1>1. UNCHANGED <<native, storedKey, secure, local, writing, torn>>
  BY DEF storage
<1>2. QueueIsOfTasks /\ LastIsStored /\ BrowserHasKey /\ RestoresStored /\ TaskFunction
  BY DEF IInv, StorageInv, PollInv
<1>3. \A i \in 1 .. Len(writing) :
         writing[i] \in Tasks /\ task'[writing[i]] = task[writing[i]]
  <2>. SUFFICES ASSUME NEW i \in 1 .. Len(writing)
                PROVE  writing[i] \in Tasks /\ task'[writing[i]] = task[writing[i]]
    OBVIOUS
  <2>1. writing[i] \in Tasks /\ task[writing[i]].at \in Queueing
    BY <1>2 DEF QueueIsOfTasks
  <2>2. ASSUME NEW f \in Tasks, NEW state, Become(f, state), task[f].at \notin Queueing
        PROVE  task'[writing[i]] = task[writing[i]]
    <3>1. writing[i] # f
      BY <2>1, <2>2
    <3>. QED
      BY <1>2, <2>1, <2>2, <3>1, Becomes
  <2>. QED
    BY <2>1, <2>2
<1>4. writing # <<>> => Len(writing) \in 1 .. Len(writing)
  BY <1>2 DEF QueueIsOfTasks
<1>5. QueueIsOfTasks'
  BY <1>1, <1>2, <1>3 DEF QueueIsOfTasks
<1>6. LastIsStored'
  BY <1>1, <1>2, <1>3, <1>4 DEF LastIsStored, Written
<1>7. BrowserHasKey' /\ RestoresStored'
  BY <1>1, <1>2 DEF BrowserHasKey, RestoresStored, Hydrated
<1>. QED
  BY <1>5, <1>6, <1>7 DEF StorageInv

\* A task writes a key in the browser, whose storage answers at once.
LEMMA BrowserWrites ==
    ASSUME IInv, ~native, UNCHANGED <<native, secure, writing>>, local' = storedKey'
    PROVE  StorageInv'
<1>1. writing = <<>>
  BY DEF IInv, StorageInv, LastIsStored
<1>. QED
  BY <1>1 DEF IInv, StorageInv, QueueIsOfTasks, LastIsStored, BrowserHasKey, RestoresStored,
              Hydrated

\* A task of the app goes to the end of a queue it is not in, with the key
\* the page has now.
LEMMA Queues ==
    ASSUME native, native', NEW q \in Seq(Tasks),
           NEW f \in Tasks, NEW state, TaskFunction, Become(f, state), state.at \in Queueing,
           \A i \in 1 .. Len(q) : task[q[i]].at \in Queueing /\ q[i] # f,
           \A i, j \in 1 .. Len(q) : q[i] = q[j] => i = j,
           storedKey' = IF state.at = "key" THEN state.s ELSE None,
           writing' = Append(q, f)
    PROVE  StorageInv'
<1>1. task'[f] = state /\ \A g \in Tasks : g # f => task'[g] = task[g]
  BY Becomes
<1>2. /\ writing' \in Seq(Tasks) /\ Len(writing') = Len(q) + 1 /\ writing' # <<>>
      /\ writing'[Len(q) + 1] = f
      /\ \A i \in 1 .. Len(q) : writing'[i] = q[i] /\ q[i] \in Tasks
      /\ Len(q) \in Nat
  OBVIOUS
<1>3. \A i \in 1 .. Len(writing') : i = Len(q) + 1 \/ i \in 1 .. Len(q)
  BY <1>2
<1>4. \A i \in 1 .. Len(writing') : task'[writing'[i]].at \in Queueing
  BY <1>1, <1>2, <1>3
<1>5. \A i, j \in 1 .. Len(writing') : writing'[i] = writing'[j] => i = j
  BY <1>2, <1>3
<1>6. QueueIsOfTasks'
  BY <1>2, <1>4, <1>5 DEF QueueIsOfTasks
<1>7. LastIsStored'
  BY <1>1, <1>2 DEF LastIsStored, Written
<1>. QED
  BY <1>2, <1>6, <1>7 DEF StorageInv, BrowserHasKey, RestoresStored

\* A task that is not in the queue goes to its end.
LEMMA QueuesNew ==
    ASSUME IInv, native, native', NEW f \in Tasks, NEW state, Become(f, state),
           task[f].at \notin Queueing, state.at \in Queueing,
           storedKey' = IF state.at = "key" THEN state.s ELSE None,
           writing' = Append(writing, f)
    PROVE  StorageInv'
<1>1. /\ TaskFunction /\ writing \in Seq(Tasks)
      /\ \A i \in 1 .. Len(writing) : task[writing[i]].at \in Queueing /\ writing[i] # f
      /\ \A i, j \in 1 .. Len(writing) : writing[i] = writing[j] => i = j
  BY DEF IInv, PollInv, StorageInv, QueueIsOfTasks
<1>. QED
  BY <1>1, Queues

\* Behind the first of the queue the others stand as before, once each.
LEMMA RestOfQueue ==
    ASSUME IInv, writing # <<>>
    PROVE  /\ Tail(writing) \in Seq(Tasks) /\ Len(Tail(writing)) = Len(writing) - 1
           /\ \A i \in 1 .. Len(Tail(writing)) :
                 /\ Tail(writing)[i] = writing[i + 1]
                 /\ Tail(writing)[i] \in Tasks
                 /\ task[Tail(writing)[i]].at \in Queueing
                 /\ Tail(writing)[i] # Head(writing)
           /\ \A i, j \in 1 .. Len(Tail(writing)) : Tail(writing)[i] = Tail(writing)[j] => i = j
<1>1. QueueIsOfTasks
  BY DEF IInv, StorageInv
<1>2. /\ writing \in Seq(Tasks) /\ Len(writing) \in Nat /\ Len(writing) >= 1
      /\ Head(writing) = writing[1]
  BY <1>1 DEF QueueIsOfTasks
<1>3. /\ Tail(writing) \in Seq(Tasks) /\ Len(Tail(writing)) = Len(writing) - 1
      /\ \A i \in 1 .. Len(Tail(writing)) : Tail(writing)[i] = writing[i + 1]
  BY <1>2
<1>4. \A i \in 1 .. Len(Tail(writing)) :
         /\ i + 1 \in 1 .. Len(writing) /\ 1 \in 1 .. Len(writing) /\ i + 1 # 1
         /\ Tail(writing)[i] = writing[i + 1]
  BY <1>2, <1>3
<1>. QED
  BY <1>1, <1>2, <1>3, <1>4 DEF QueueIsOfTasks

\* The storage has answered the first of the queue.
LEMMA KeyStoredKeeps ==
    ASSUME IInv, NEW f \in Tasks, KeyStored(f)
    PROVE  StorageInv'
<1>1. /\ writing # <<>> /\ Head(writing) = f /\ task[f].at = "key"
      /\ writing' = Tail(writing) /\ UNCHANGED <<native, storedKey>>
      /\ Become(f, [at |-> "select", s |-> task[f].s])
  BY DEF KeyStored
<1>2. native /\ Written(writing[Len(writing)]) = storedKey /\ TaskFunction /\ QueueIsOfTasks
  BY <1>1 DEF IInv, PollInv, StorageInv, LastIsStored
<1>3. \A g \in Tasks : g # f => task'[g] = task[g]
  BY <1>1, <1>2, Becomes
<1>4. /\ writing' \in Seq(Tasks) /\ Len(writing') = Len(writing) - 1
      /\ \A i \in 1 .. Len(writing') :
            /\ writing'[i] = writing[i + 1] /\ writing'[i] \in Tasks
            /\ task'[writing'[i]] = task[writing'[i]]
            /\ task[writing'[i]].at \in Queueing
      /\ \A i, j \in 1 .. Len(writing') : writing'[i] = writing'[j] => i = j
  BY <1>1, <1>3, RestOfQueue
<1>5. QueueIsOfTasks'
  BY <1>4 DEF QueueIsOfTasks
<1>6. LastIsStored'
  <2>. SUFFICES ASSUME writing' # <<>>
                PROVE  native' /\ Written(writing[Len(writing)])' = storedKey'
    BY DEF LastIsStored
  <2>1. Len(writing) \in Nat /\ Len(writing') \in 1 .. Len(writing')
    BY <1>2, <1>4 DEF QueueIsOfTasks
  <2>2. writing'[Len(writing')] = writing[Len(writing)]
    BY <1>4, <2>1
  <2>3. task'[writing'[Len(writing')]] = task[writing[Len(writing)]]
    BY <1>4, <2>1, <2>2
  <2>. QED
    BY <1>1, <1>2, <2>3 DEF Written
<1>7. RestoresStored'
  <2>. SUFFICES ASSUME writing' = <<>>, ~torn'
                PROVE  Hydrated' = storedKey'
    BY DEF RestoresStored
  <2>1. Len(writing) \in Nat /\ Len(writing') = 0
    BY <1>2 DEF QueueIsOfTasks
  <2>2. writing[Len(writing)] = f
    <3>1. Len(writing) = 1
      BY <1>4, <2>1
    <3>2. Head(writing) = writing[1]
      BY <1>1, <1>2 DEF QueueIsOfTasks
    <3>. QED
      BY <1>1, <3>1, <3>2
  <2>3. storedKey' = task[f].s
    BY <1>1, <1>2, <2>2 DEF Written
  <2>4. KeySecured(task[f].s) \/ KeyNotSecured(task[f].s)
    BY DEF KeyStored
  <2>. QED
    BY <1>1, <1>2, <2>3, <2>4 DEF KeySecured, KeyNotSecured, Hydrated
<1>8. BrowserHasKey'
  BY <1>1, <1>2 DEF BrowserHasKey
<1>. QED
  BY <1>5, <1>6, <1>7, <1>8 DEF StorageInv

LEMMA KeyClearedKeeps ==
    ASSUME IInv, NEW f \in Tasks, KeyCleared(f)
    PROVE  StorageInv'
<1>1. /\ writing # <<>> /\ Head(writing) = f
      /\ UNCHANGED native /\ BeginSelect(f, task[f].s, Tail(writing))
  BY DEF KeyCleared
<1>2. native /\ TaskFunction
  BY <1>1 DEF IInv, PollInv, StorageInv, LastIsStored
<1>3. PICK state : /\ state = [at |-> "key", s |-> task[f].s]
                   /\ Become(f, state) /\ writing' = Append(Tail(writing), f)
                   /\ storedKey' = task[f].s
  BY <1>1, <1>2 DEF BeginSelect
<1>4. state.at = "key" /\ state.s = task[f].s
  BY <1>3
<1>5. /\ Tail(writing) \in Seq(Tasks)
      /\ \A i \in 1 .. Len(Tail(writing)) :
            task[Tail(writing)[i]].at \in Queueing /\ Tail(writing)[i] # f
      /\ \A i, j \in 1 .. Len(Tail(writing)) : Tail(writing)[i] = Tail(writing)[j] => i = j
  BY <1>1, RestOfQueue
<1>. QED
  BY <1>1, <1>2, <1>3, <1>4, <1>5, Queues DEF Queueing

\* A selection that does not come from the queue
LEMMA SelectKeeps ==
    ASSUME IInv, NEW f \in Tasks, NEW s, BeginSelect(f, s, writing), KeyKept(s),
           task[f].at \notin Queueing, UNCHANGED <<native, secure>>
    PROVE  StorageInv'
<1>1. storedKey' = s
  BY DEF BeginSelect
<1>2. CASE ~native
  BY <1>1, <1>2, BrowserWrites DEF BeginSelect, KeyKept
<1>3. CASE native
  <2>1. PICK state : /\ state = [at |-> "key", s |-> s]
                     /\ Become(f, state) /\ writing' = Append(writing, f)
    BY <1>3 DEF BeginSelect
  <2>2. state.at = "key" /\ state.s = s
    BY <2>1
  <2>. QED
    BY <1>1, <1>3, <2>1, <2>2, QueuesNew DEF Queueing
<1>. QED
  BY <1>2, <1>3

\* The page is left: of the new one nothing waits for the storage.
LEMMA StorageOfFreshPage ==
    ASSUME FreshPage, RestoresStored', BrowserHasKey'
    PROVE  StorageInv'
BY DEF FreshPage, StorageInv, QueueIsOfTasks, LastIsStored

LEMMA ReloadKeeps ==
    ASSUME IInv, Reload
    PROVE  StorageInv'
<1>1. PICK sec : /\ sec \in {secure} \cup (IF writing = <<>> THEN {} ELSE {Written(Head(writing))})
                 /\ Hydrate(sec, local)
  BY DEF Reload
<1>2. FreshPage /\ UNCHANGED native
  BY DEF Reload
<1>3. RestoresStored'
  BY <1>1, <1>2 DEF RestoresStored, Hydrated, Hydrate
<1>4. BrowserHasKey'
  <2>. SUFFICES ASSUME ~native PROVE secure' = None /\ local' = storedKey'
    BY <1>2 DEF BrowserHasKey
  <2>1. sec = None
    BY <1>1 DEF IInv, StorageInv, LastIsStored, BrowserHasKey
  <2>. QED
    BY <1>1, <2>1 DEF Hydrate
<1>. QED
  BY <1>2, <1>3, <1>4, StorageOfFreshPage

LEMMA LoggedOutKeeps ==
    ASSUME IInv, NEW f \in Tasks, LoggedOut(f)
    PROVE  StorageInv'
<1>1. /\ FreshPage /\ UNCHANGED native /\ secure' \in {None, secure}
      /\ storedKey' = secure' /\ local' = None
  BY DEF LoggedOut
<1>2. ~native => secure = None
  BY DEF IInv, StorageInv, BrowserHasKey
<1>. QED
  BY <1>1, <1>2, StorageOfFreshPage DEF RestoresStored, Hydrated, BrowserHasKey

LEMMA LogoutKeeps ==
    ASSUME IInv, NEW f \in Tasks, Logout(f)
    PROVE  StorageInv'
<1>1. task[f].at \notin Queueing
  BY DEF Logout, Free, Queueing
<1>2. storedKey' = None /\ UNCHANGED <<native, secure>>
  BY DEF Logout
<1>3. CASE ~native
  BY <1>2, <1>3, BrowserWrites DEF Logout
<1>4. CASE native
  <2>1. PICK state : /\ state = [at |-> "bye"] /\ Become(f, state) /\ writing' = Append(writing, f)
    BY <1>4 DEF Logout
  <2>2. state.at = "bye"
    BY <2>1
  <2>. QED
    BY <1>1, <1>2, <1>4, <2>1, <2>2, QueuesNew DEF Queueing
<1>. QED
  BY <1>3, <1>4

LEMMA StoredSessionGoneKeeps ==
    ASSUME IInv, NEW f \in Tasks, NEW list, StoredSessionGone(f, list)
    PROVE  StorageInv'
<1>1. task[f].at \notin Queueing /\ UNCHANGED <<native, secure>>
  BY DEF StoredSessionGone, Queueing
<1>2. CASE ~native
  <2>1. PICK s : BeginSelect(f, s, writing) /\ KeyKept(s)
    BY <1>2 DEF StoredSessionGone
  <2>. QED
    BY <1>1, <2>1, SelectKeeps
<1>3. CASE native
  <2>1. PICK s : /\ Become(f, [at |-> "clear", s |-> s])
                 /\ storedKey' = None /\ writing' = Append(writing, f)
    BY <1>3 DEF StoredSessionGone
  <2>2. PICK state : state = [at |-> "clear", s |-> s]
    OBVIOUS
  <2>3. Become(f, state) /\ state.at = "clear"
    BY <2>1, <2>2
  <2>. QED
    BY <1>1, <1>3, <2>1, <2>3, QueuesNew DEF Queueing
<1>. QED
  BY <1>2, <1>3

\* The steps that have nothing to do with the key
LEMMA OtherTaskStep ==
    ASSUME IInv, NEW f \in Tasks,
           \/ PollTimerFires(f) \/ PollReturns(f)
           \/ FinalArrives(f) \/ \E m \in Messages : ReplyArrives(f, m)
           \/ HistoryRead(f) \/ HistoryFails(f) \/ HistoryLoaded(f)
           \/ LoadSessions(f) \/ NoSessions(f) \/ \E list \in Lists : SessionKept(f, list)
    PROVE  StorageInv'
<1>1. UNCHANGED storage
  BY DEF PollTimerFires, PollReturns, FinalArrives, ReplyArrives, HistoryRead, HistoryFails,
         HistoryLoaded, LoadSessions, NoSessions, SessionKept
<1>2. Free.at = "free"
  BY DEF Free
<1>3. StartPoll(f) => UNCHANGED task \/ \E state : Become(f, state) /\ task[f].at \notin Queueing
  BY <1>2 DEF StartPoll, Queueing
<1>4. UNCHANGED task \/ \E state : Become(f, state) /\ task[f].at \notin Queueing
  BY <1>2, <1>3 DEF PollTimerFires, PollReturns, FinalArrives, ReplyArrives, HistoryRead,
         HistoryFails, HistoryLoaded, LoadSessions, NoSessions, SessionKept, Got, Queueing
<1>. QED
  BY <1>1, <1>4, StorageKept

LEMMA StorageStep ==
    ASSUME IInv, NEW f \in Tasks, TaskStep(f)
    PROVE  StorageInv'
<1>1. CASE \E s \in Sessions : SelectSession(f, s)
  BY <1>1, SelectKeeps DEF SelectSession, Free, Queueing
<1>2. ASSUME NEW list \in Lists, SessionSwitched(f, list)
      PROVE  StorageInv'
  BY <1>2, SelectKeeps DEF SessionSwitched, Queueing
<1>. QED
  BY <1>1, <1>2, OtherTaskStep, KeyStoredKeeps, KeyClearedKeeps, StoredSessionGoneKeeps,
     LogoutKeeps, LoggedOutKeeps DEF TaskStep

LEMMA StorageInduction == IInv /\ [Next]_vars => StorageInv'
<1>. SUFFICES ASSUME IInv, [Next]_vars PROVE StorageInv'
  OBVIOUS
<1>1. CASE GatewayStep
  <2>1. UNCHANGED task /\ UNCHANGED storage
    BY <1>1 DEF GatewayStep, RunStarts, RunEnds, RunReplies, StreamFails, StreamOpens, pageVars
  <2>. QED
    BY <2>1, StorageKept
<1>2. CASE DeltaArrives \/ \E m \in Messages : EchoExpires(m)
  BY <1>2, StorageKept DEF DeltaArrives, EchoExpires, pageVars
<1>3. CASE UNCHANGED vars
  BY <1>3, StorageKept DEF vars, pageVars
<1>. QED
  BY <1>1, <1>2, <1>3, StorageStep, ReloadKeeps DEF Next

\* Once nothing waits for the secure storage, a page loaded again would find the
\* key this one has, unless a failed call left an older key behind
\* (session-key-hydration.js:42-104, secure-storage.js:40-71).
THEOREM ReloadFindsTheKey == Spec => []RestoresStored
<1>1. IInv /\ [Next]_vars => IInv'
  BY PollInduction, StorageInduction DEF IInv
<1>2. IInv => RestoresStored
  BY DEF IInv, StorageInv
<1>. QED
  BY <1>1, <1>2, InitIInv, PTL DEF Spec
===============================================================================
