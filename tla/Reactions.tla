------------------------------ MODULE Reactions ------------------------------
(***************************************************************************)
(* The reaction store: the migrations each server process runs when it     *)
(* starts (lib/migrate.js), the toggle under the write lock and the        *)
(* listings (lib/db.js), and their routes (lib/routes/reactions.js), which *)
(* a reader may ask of any process.  Several processes open one            *)
(* SQLite database in WAL mode; SQLite is external: one writer at a time,  *)
(* a transaction that began by reading cannot write once somebody else     *)
(* has, and a transaction that is not committed leaves no trace.           *)
(***************************************************************************)
EXTENDS Integers, FiniteSets

CONSTANTS
    Processes,
    Messages, Sessions, Emojis, Users,
    None,
    MaxAttempts,    \* MAX_ATTEMPTS of withImmediateTransaction
    MaxCrashes      \* bound on the crashes

ASSUME ReactionsAssumption ==
    /\ IsFiniteSet(Processes)
    /\ None \notin Processes \cup Sessions
    /\ MaxAttempts \in Nat \ {0} /\ MaxCrashes \in Nat

Migrations == 1..2      \* the files of migrations/, in order

\* What identifies a reaction, and the columns of its row
Keys == [message : Messages, session : Sessions, emoji : Emojis, user : Users]

VARIABLES
    applied,        \* schema_migrations
    rows,           \* the reactions table
    lock,           \* the holder of the write lock
    proc,           \* what each process is doing
    stale,          \* processes whose snapshot somebody else has written past
    balance,        \* by key: answers "added" less answers "removed"
    lost,           \* by key: the same of the answers that died with a process
    crashes

answers == <<balance, lost>>
vars == <<applied, rows, lock, proc, stale, answers, crashes>>

Start == [at |-> "start"]
Serving == [at |-> "serving"]
Process ==
    {Start, Serving}
    \cup [at : {"migrating", "reading", "writing"}, pending : SUBSET Migrations]
    \cup [at : {"begin"}, key : Keys, attempt : 1..MaxAttempts]
    \cup [at : {"selected"}, key : Keys, attempt : 1..MaxAttempts, existing : BOOLEAN]
    \cup [at : {"committed"}, key : Keys, existing : BOOLEAN]

Goto(p, s) == proc' = [proc EXCEPT ![p] = s]
First(pending) == CHOOSE m \in pending : \A n \in pending : m <= n

\* Process p commits a change: the snapshots of the others are stale.
Committed(p) ==
    /\ lock' = None
    /\ stale' = (stale \cup {q \in Processes : proc[q].at = "reading"}) \ {p}

-----------------------------------------------------------------------------
(* runMigrations, when a process starts *)

\* The applied migrations are read once, outside any transaction.
ReadApplied(p) ==
    /\ proc[p] = Start
    /\ Goto(p, [at |-> "migrating", pending |-> Migrations \ applied])
    /\ UNCHANGED <<applied, rows, lock, stale, answers, crashes>>

\* BEGIN TRANSACTION, and a first statement that reads the schema.
BeginMigration(p) ==
    /\ proc[p].at = "migrating" /\ proc[p].pending # {}
    /\ Goto(p, [proc[p] EXCEPT !.at = "reading"])
    /\ stale' = stale \ {p}
    /\ UNCHANGED <<applied, rows, lock, answers, crashes>>

\* The first statement that writes takes the lock, if the snapshot still holds.
TakeLock(p) ==
    /\ proc[p].at = "reading"
    /\ p \notin stale /\ lock = None
    /\ Goto(p, [proc[p] EXCEPT !.at = "writing"])
    /\ lock' = p
    /\ UNCHANGED <<applied, rows, stale, answers, crashes>>

\* Mutant of RowsAfter: the table is rebuilt without copying its rows.
RowsAfterRebuild(m) == IF m = 2 THEN {} ELSE rows

\* 001 creates the table unless it is there; 002 rebuilds it with its rows,
\* whether it has been applied before or not.
RowsAfter(m) == rows

\* The migration is applied, recorded (INSERT OR IGNORE) and committed.
CommitMigration(p) ==
    LET m == First(proc[p].pending)
    IN  /\ proc[p].at = "writing"
        /\ applied' = applied \cup {m}
        /\ rows' = RowsAfter(m)
        /\ Goto(p, [at |-> "migrating", pending |-> proc[p].pending \ {m}])
        /\ Committed(p)
        /\ UNCHANGED <<answers, crashes>>

\* Mutant of MigrationFails: the process goes on with the next migration.
MigrationSkipped(p) ==
    /\ proc[p].at = "reading"
    /\ p \in stale \/ lock \notin {p, None}
    /\ Goto(p, [at |-> "migrating", pending |-> proc[p].pending \ {First(proc[p].pending)}])
    /\ UNCHANGED <<applied, rows, lock, stale, answers, crashes>>

\* Mutant of MigrationFails: the statement is tried again in the same transaction.
MigrationRetried(p) ==
    /\ proc[p].at = "reading"
    /\ p \in stale \/ lock \notin {p, None}
    /\ UNCHANGED vars

\* The snapshot is stale, or the lock was not free for busy_timeout: rolled
\* back and thrown, so the process ends and is started again.
MigrationFails(p) ==
    /\ proc[p].at = "reading"
    /\ p \in stale \/ lock \notin {p, None}
    /\ Goto(p, Start)
    /\ UNCHANGED <<applied, rows, lock, stale, answers, crashes>>

\* Nothing is pending any more: the process serves.
Migrated(p) ==
    /\ proc[p].at = "migrating" /\ proc[p].pending = {}
    /\ Goto(p, Serving)
    /\ UNCHANGED <<applied, rows, lock, stale, answers, crashes>>

-----------------------------------------------------------------------------
(* POST /api/messages/:messageId/reactions: reactions.toggle *)

Toggle(p, k) ==
    /\ proc[p] = Serving
    /\ Goto(p, [at |-> "begin", key |-> k, attempt |-> 1])
    /\ UNCHANGED <<applied, rows, lock, stale, answers, crashes>>

Select(p) ==
    Goto(p, [at |-> "selected", key |-> proc[p].key, attempt |-> proc[p].attempt,
             existing |-> proc[p].key \in rows])

\* Mutant of BeginImmediate: BEGIN, which takes no lock.
BeginDeferred(p) ==
    /\ proc[p].at = "begin"
    /\ Select(p)
    /\ UNCHANGED <<applied, rows, lock, stale, answers, crashes>>

\* BEGIN IMMEDIATE gets the lock, and the row is looked for.
BeginImmediate(p) ==
    /\ proc[p].at = "begin" /\ lock = None
    /\ lock' = p
    /\ Select(p)
    /\ UNCHANGED <<applied, rows, stale, answers, crashes>>

\* BEGIN IMMEDIATE gives up after busy_timeout, outside the try: no retry.
BeginFails(p) ==
    /\ proc[p].at = "begin" /\ lock # None
    /\ Goto(p, Serving)
    /\ UNCHANGED <<applied, rows, lock, stale, answers, crashes>>

\* The row is deleted or inserted, and committed.
CommitToggle(p) ==
    LET k == proc[p].key
    IN  /\ proc[p].at = "selected"
        /\ rows' = IF proc[p].existing THEN rows \ {k} ELSE rows \cup {k}
        /\ Goto(p, [at |-> "committed", key |-> k, existing |-> proc[p].existing])
        /\ Committed(p)
        /\ UNCHANGED <<applied, answers, crashes>>

\* What the answer to the toggle of process p says: one reaction more, or less.
Said(p) == IF proc[p].existing THEN -1 ELSE 1

\* The answer says which it was.
AnswerToggle(p) ==
    /\ proc[p].at = "committed"
    /\ balance' = [balance EXCEPT ![proc[p].key] = @ + Said(p)]
    /\ Goto(p, Serving)
    /\ UNCHANGED <<applied, rows, lock, stale, lost, crashes>>

\* A statement fails: rolled back; tried again if it was busy, else answered 500.
ToggleFails(p) ==
    /\ proc[p].at = "selected"
    /\ \/ /\ proc[p].attempt < MaxAttempts
          /\ Goto(p, [at |-> "begin", key |-> proc[p].key, attempt |-> proc[p].attempt + 1])
       \/ Goto(p, Serving)
    /\ lock' = None
    /\ UNCHANGED <<applied, rows, stale, answers, crashes>>

-----------------------------------------------------------------------------
(* GET /api/messages/:messageId/reactions and GET /api/reactions/:sessionKey: *)
(* each reads the committed rows in one statement and changes nothing.      *)

\* getForMessage, in session s or, without one (None), in all sessions
RowsOf(m, s) == {r \in rows : r.message = m /\ s \in {None, r.session}}

Group(m, s, e) == {r \in RowsOf(m, s) : r.emoji = e}
UsersOf(group) == {r.user : r \in group}

\* The rows by emoji.  The count is that of the rows: without a session, someone
\* who reacted in two sessions counts twice.
GetForMessage(m, s) ==
    {[emoji |-> e, count |-> Cardinality(Group(m, s, e)), users |-> UsersOf(Group(m, s, e))] :
        e \in {r.emoji : r \in RowsOf(m, s)}}

RowsIn(s) == {r \in rows : r.session = s}

\* getForSession: the users by message and emoji
GetForSession(s) ==
    [m \in {r.message : r \in RowsIn(s)} |->
        [e \in {r.emoji : r \in RowsOf(m, s)} |-> UsersOf(Group(m, s, e))]]

-----------------------------------------------------------------------------
\* A process dies; SQLite rolls its transaction back.  What it has committed
\* stays, and nobody is told.
Crash(p) ==
    /\ crashes < MaxCrashes
    /\ crashes' = crashes + 1
    /\ Goto(p, Start)
    /\ lock' = IF lock = p THEN None ELSE lock
    /\ lost' = IF proc[p].at = "committed" THEN [lost EXCEPT ![proc[p].key] = @ + Said(p)]
               ELSE lost
    /\ UNCHANGED <<applied, rows, stale, balance>>

Init ==
    /\ applied = {}
    /\ rows = {}
    /\ lock = None
    /\ proc = [p \in Processes |-> Start]
    /\ stale = {}
    /\ balance = [k \in Keys |-> 0]
    /\ lost = [k \in Keys |-> 0]
    /\ crashes = 0

StartUp(p) ==
    \/ ReadApplied(p) \/ BeginMigration(p) \/ TakeLock(p) \/ CommitMigration(p)
    \/ MigrationFails(p) \/ Migrated(p)

Request(p) ==
    \/ BeginImmediate(p) \/ BeginFails(p) \/ CommitToggle(p) \/ AnswerToggle(p) \/ ToggleFails(p)

Next == \E p \in Processes :
    StartUp(p) \/ Request(p) \/ Crash(p) \/ \E k \in Keys : Toggle(p, k)

Spec == Init /\ [][Next]_vars

\* The code of a process runs on, and a supervisor starts it again.
FairSpec == Spec /\ \A p \in Processes : WF_vars(StartUp(p) \/ Request(p))

-----------------------------------------------------------------------------
(* Properties *)

\* Every variable keeps its type.
TypeOK ==
    /\ applied \subseteq Migrations
    /\ rows \subseteq Keys
    /\ lock \in Processes \cup {None}
    /\ proc \in [Processes -> Process]
    /\ stale \subseteq Processes
    /\ balance \in [Keys -> Int] /\ lost \in [Keys -> Int]
    /\ crashes \in 0..MaxCrashes

\* The processes that have committed a toggle of k and not answered yet
Answering(k, existing) ==
    {p \in Processes : proc[p].at = "committed" /\ proc[p].key = k /\ proc[p].existing = existing}

\* Additions less removals of k in all answers: given, still to come, and lost
Answers(k) ==
    balance[k] + lost[k] + Cardinality(Answering(k, FALSE)) - Cardinality(Answering(k, TRUE))

\* The reactions whose last answer is "added"
Added == {k \in Keys : Answers(k) = 1}

InMessage(k) ==
    \E g \in GetForMessage(k.message, k.session) : g.emoji = k.emoji /\ k.user \in g.users
InSession(k) ==
    LET listed == GetForSession(k.session)
    IN  /\ k.message \in DOMAIN listed /\ k.emoji \in DOMAIN listed[k.message]
        /\ k.user \in listed[k.message][k.emoji]
Counted(m, s, g) ==
    g.count = Cardinality({k \in Added : /\ k.message = m /\ k.emoji = g.emoji
                                         /\ s \in {None, k.session}})

\* Toggles are atomic over all processes.  The answers to the committed toggles
\* of a reaction alternate between "added" and "removed": those given, those a
\* process has yet to give and those that died with one between its COMMIT and
\* its answer.  Both listings of every process show and count exactly the
\* reactions whose last answer is "added": where none is outstanding or lost,
\* what the users were told.  It holds through retries, crashes, and migrations
\* that a process starting late applies again (lib/db.js:32-124,
\* lib/routes/reactions.js:26-89).
AnswersAddUp ==
    /\ \A k \in Keys : /\ Answers(k) \in {0, 1}
                       /\ k \in Added <=> InMessage(k)
                       /\ k \in Added <=> InSession(k)
    /\ \A m \in Messages, s \in Sessions \cup {None} :
          \A g \in GetForMessage(m, s) : Counted(m, s, g)

\* A process serves only with the whole schema in place.
ServesMigrated ==
    \A p \in Processes :
        proc[p].at \in {"serving", "begin", "selected", "committed"} => applied = Migrations

\* Processes that start together and get in each other's way all come up.
EventuallyServes ==
    \A p \in Processes : proc[p] = Start ~> proc[p] = Serving
==============================================================================
