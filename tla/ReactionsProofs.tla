--------------------------- MODULE ReactionsProofs ---------------------------
(***************************************************************************)
(* Toggles are atomic and only a migrated process serves, for any number   *)
(* of processes, reactions, attempts and crashes.  The argument: whoever   *)
(* has selected a row, or applies a migration, holds the write lock, so    *)
(* what it read is what it changes; and what a process has no longer to    *)
(* apply has been committed, by it or by another.                          *)
(***************************************************************************)
EXTENDS Reactions, FiniteSetTheorems, TLAPS

\* The write lock is held by whoever changes the database.
LockIsHeld ==
    \A p \in Processes : proc[p].at \in {"writing", "selected"} <=> lock = p

\* What a process selected is still so.
SelectedIsTrue ==
    \A p \in Processes : proc[p].at = "selected" => (proc[p].existing <=> proc[p].key \in rows)

\* A process knows at most the migrations that are committed as applied.
DoneIsApplied ==
    \A p \in Processes :
        /\ proc[p].at \in {"migrating", "reading", "writing"} =>
               Migrations \ proc[p].pending \subseteq applied
        /\ proc[p].at \in {"reading", "writing"} => proc[p].pending # {}

\* The answers to the committed toggles of a reaction and its row agree.
AnswersAreTable ==
    \A k \in Keys : Answers(k) = IF k \in rows THEN 1 ELSE 0

\* What a process in state s has still to answer about k.
Share(s, k) ==
    IF s.at = "committed" /\ s.key = k THEN (IF s.existing THEN -1 ELSE 1) ELSE 0

\* What all processes have still to answer about k.
Outstanding(k) == Cardinality(Answering(k, FALSE)) - Cardinality(Answering(k, TRUE))

\* What does not depend on the answers.
StoreInv == TypeOK /\ LockIsHeld /\ SelectedIsTrue /\ DoneIsApplied /\ ServesMigrated

IInv == StoreInv /\ AnswersAreTable

\* What a process is doing determines the fields it has.
LEMMA ProcessFields ==
    ASSUME NEW s \in Process
    PROVE  /\ s.at \in {"start", "serving", "migrating", "reading", "writing", "begin", "selected", "committed"}
           /\ s.at = "start" => s = Start
           /\ s.at = "serving" => s = Serving
           /\ s.at \in {"migrating", "reading", "writing"} =>
                 s \in [at : {"migrating", "reading", "writing"}, pending : SUBSET Migrations]
           /\ s.at = "begin" => s \in [at : {"begin"}, key : Keys, attempt : 1..MaxAttempts]
           /\ s.at = "selected" =>
                 s \in [at : {"selected"}, key : Keys, attempt : 1..MaxAttempts, existing : BOOLEAN]
           /\ s.at = "committed" => s \in [at : {"committed"}, key : Keys, existing : BOOLEAN]
BY DEF Process, Start, Serving

\* The first of the pending migrations is one of them.
LEMMA FirstIsPending ==
    ASSUME NEW pending \in SUBSET Migrations, pending # {}
    PROVE  First(pending) \in pending
<1>1. \A m \in pending : m = 1 \/ m = 2
  BY DEF Migrations
<1>2. \E m \in pending : \A n \in pending : m <= n
  <2>1. CASE 1 \in pending
    BY <1>1, <2>1
  <2>2. CASE 1 \notin pending
    BY <1>1, <2>2
  <2>. QED
    BY <2>1, <2>2
<1>. QED
  BY <1>2 DEF First

\* A set of processes that gains or loses p.
LEMMA OneMore ==
    ASSUME NEW S \in SUBSET Processes, NEW p \in Processes
    PROVE  /\ Cardinality(S) \in Int
           /\ p \notin S => Cardinality(S \cup {p}) = Cardinality(S) + 1
           /\ p \in S => Cardinality(S \ {p}) = Cardinality(S) - 1
<1>1. IsFiniteSet(S)
  BY FS_Subset, ReactionsAssumption
<1>. QED
  BY <1>1, FS_CardinalityType, FS_AddElement, FS_RemoveElement

\* A step of one process changes what is outstanding by its own share.
LEMMA OutstandingAfter ==
    ASSUME TypeOK, NEW p \in Processes, NEW s \in Process,
           proc' = [proc EXCEPT ![p] = s], NEW k \in Keys
    PROVE  /\ Outstanding(k) \in Int
           /\ Outstanding(k)' = Outstanding(k) - Share(proc[p], k) + Share(s, k)
<1>. DEFINE Waits(t, e) == t.at = "committed" /\ t.key = k /\ t.existing = e
            Size(e) == Cardinality(Answering(k, e))
            One(t, e) == IF Waits(t, e) THEN 1 ELSE 0
<1>1. ASSUME NEW e \in BOOLEAN
      PROVE  /\ Size(e) \in Int
             /\ Size(e)' = Size(e) - (IF Waits(proc[p], e) THEN 1 ELSE 0)
                                   + (IF Waits(s, e) THEN 1 ELSE 0)
  <2>. DEFINE A == Answering(k, e)
  <2>1. A \in SUBSET Processes /\ (p \in A <=> Waits(proc[p], e))
    BY DEF Answering
  <2>2. A' = IF Waits(s, e) THEN A \cup {p} ELSE A \ {p}
    BY DEF Answering, TypeOK
  <2>. HIDE DEF A, Waits
  <2>3. (p \in A => A \cup {p} = A) /\ (p \notin A => A \ {p} = A)
    OBVIOUS
  <2>4. /\ Cardinality(A) \in Int
        /\ p \notin A => Cardinality(A \cup {p}) = Cardinality(A) + 1
        /\ p \in A => Cardinality(A \ {p}) = Cardinality(A) - 1
    BY <2>1, OneMore
  <2>5. /\ Cardinality(A) \in Int
        /\ Cardinality(A') = Cardinality(A) - (IF Waits(proc[p], e) THEN 1 ELSE 0)
                                             + (IF Waits(s, e) THEN 1 ELSE 0)
    <3>1. CASE Waits(s, e) /\ p \in A
      <4>1. A' = A /\ Waits(proc[p], e)
        BY <2>1, <2>2, <2>3, <3>1
      <4>. QED
        BY <2>4, <3>1, <4>1
    <3>2. CASE Waits(s, e) /\ p \notin A
      BY <2>1, <2>2, <2>3, <2>4, <3>2
    <3>3. CASE ~Waits(s, e) /\ p \in A
      BY <2>1, <2>2, <2>3, <2>4, <3>3
    <3>4. CASE ~Waits(s, e) /\ p \notin A
      <4>1. A' = A /\ ~Waits(proc[p], e)
        BY <2>1, <2>2, <2>3, <3>4
      <4>. QED
        BY <2>4, <3>4, <4>1
    <3>. QED
      BY <3>1, <3>2, <3>3, <3>4
  <2>. QED
    BY <2>5 DEF A
<1>2. \A t \in Process : t.at = "committed" => t.existing \in BOOLEAN
  BY ProcessFields
<1>3. proc[p] \in Process
  BY DEF TypeOK
<1>4. /\ Share(s, k) = One(s, FALSE) - One(s, TRUE)
      /\ Share(proc[p], k) = One(proc[p], FALSE) - One(proc[p], TRUE)
  BY <1>2, <1>3 DEF Share
<1>5. /\ Size(FALSE) \in Int /\ Size(TRUE) \in Int
      /\ Size(FALSE)' = Size(FALSE) - One(proc[p], FALSE) + One(s, FALSE)
      /\ Size(TRUE)' = Size(TRUE) - One(proc[p], TRUE) + One(s, TRUE)
  BY <1>1
<1>6. Outstanding(k) = Size(FALSE) - Size(TRUE) /\ Outstanding(k)' = Size(FALSE)' - Size(TRUE)'
  BY DEF Outstanding
<1>7. \A e : One(s, e) \in Int /\ One(proc[p], e) \in Int
  OBVIOUS
<1>9. PICK a \in Int, b \in Int : a = Size(FALSE) /\ b = Size(TRUE)
  BY <1>5
<1>10. PICK p0 \in Int, p1 \in Int, s0 \in Int, s1 \in Int :
          /\ p0 = One(proc[p], FALSE) /\ p1 = One(proc[p], TRUE)
          /\ s0 = One(s, FALSE) /\ s1 = One(s, TRUE)
  BY <1>7
<1>11. /\ Outstanding(k) = a - b
       /\ Outstanding(k)' = (a - p0 + s0) - (b - p1 + s1)
       /\ Share(proc[p], k) = p0 - p1 /\ Share(s, k) = s0 - s1
  <2>. HIDE DEF One, Size
  <2>. QED
    BY <1>4, <1>5, <1>6, <1>9, <1>10
<1>. QED
  BY <1>11

\* The answers are those given and lost, and what is outstanding.
LEMMA AnswersSum ==
    ASSUME NEW k \in Keys
    PROVE  /\ TypeOK => Answers(k) = balance[k] + lost[k] + Outstanding(k)
           /\ TypeOK' => Answers(k)' = balance'[k] + lost'[k] + Outstanding(k)'
<1>1. \A S \in SUBSET Processes : Cardinality(S) \in Int
  BY FS_Subset, FS_CardinalityType, ReactionsAssumption
<1>2. \A e : Answering(k, e) \in SUBSET Processes /\ Answering(k, e)' \in SUBSET Processes
  BY DEF Answering
<1>3. /\ Cardinality(Answering(k, FALSE)) \in Int /\ Cardinality(Answering(k, TRUE)) \in Int
      /\ Cardinality(Answering(k, FALSE)') \in Int /\ Cardinality(Answering(k, TRUE)') \in Int
  BY <1>1, <1>2
<1>. QED
  BY <1>3 DEF Answers, Outstanding, TypeOK

\* A step that changes no row, and after which its process has the same to
\* answer as before, or has answered, or died with the answer.
LEMMA AnswersKept ==
    ASSUME TypeOK, TypeOK', AnswersAreTable, rows' = rows,
           NEW p \in Processes, NEW s \in Process, proc' = [proc EXCEPT ![p] = s],
           \A k \in Keys : balance'[k] + lost'[k] + Share(s, k)
                               = balance[k] + lost[k] + Share(proc[p], k)
    PROVE  AnswersAreTable'
<1>. SUFFICES ASSUME NEW k \in Keys PROVE Answers(k)' = Answers(k)
  BY DEF AnswersAreTable
<1>1. /\ Answers(k) = balance[k] + lost[k] + Outstanding(k)
      /\ Answers(k)' = balance'[k] + lost'[k] + Outstanding(k)'
  BY AnswersSum
<1>2. /\ Outstanding(k) \in Int
      /\ Outstanding(k)' = Outstanding(k) - Share(proc[p], k) + Share(s, k)
  BY OutstandingAfter
<1>3. /\ balance[k] \in Int /\ lost[k] \in Int /\ balance'[k] \in Int /\ lost'[k] \in Int
      /\ Share(s, k) \in Int /\ Share(proc[p], k) \in Int
  BY DEF TypeOK, Share
<1>. QED
  BY <1>1, <1>2, <1>3

\* A step of a process that has committed nothing it has still to answer.
LEMMA NothingAnswered ==
    ASSUME TypeOK, TypeOK', AnswersAreTable, UNCHANGED <<rows, answers>>,
           NEW p \in Processes, NEW s \in Process, proc' = [proc EXCEPT ![p] = s],
           proc[p].at # "committed", s.at # "committed"
    PROVE  AnswersAreTable'
BY AnswersKept DEF Share, answers

LEMMA InitIInv == Init => IInv
<1>. SUFFICES ASSUME Init PROVE IInv
  OBVIOUS
<1>1. StoreInv
  BY ReactionsAssumption DEF Init, StoreInv, TypeOK, LockIsHeld, SelectedIsTrue, DoneIsApplied,
     ServesMigrated, Start, Process
<1>2. \A k, e : Answering(k, e) = {}
  BY DEF Init, Answering, Start
<1>3. \A k \in Keys : balance[k] = 0 /\ lost[k] = 0 /\ k \notin rows
  BY DEF Init
<1>4. ASSUME NEW k \in Keys PROVE Answers(k) = 0
  <2>1. Cardinality(Answering(k, FALSE)) = 0 /\ Cardinality(Answering(k, TRUE)) = 0
    BY <1>2, FS_EmptySet
  <2>2. balance[k] = 0 /\ lost[k] = 0
    BY <1>3
  <2>3. Answers(k) = 0 + 0 + 0 - 0
    BY <2>1, <2>2, Zenon DEF Answers
  <2>. QED
    BY <2>3
<1>. QED
  BY <1>1, <1>3, <1>4 DEF IInv, AnswersAreTable

\* One step for each action.
LEMMA NextStoreInv == StoreInv /\ [Next]_vars => StoreInv'
<1>. SUFFICES ASSUME StoreInv, [Next]_vars PROVE StoreInv'
  OBVIOUS
<1>. USE DEF StoreInv
<1>1. CASE UNCHANGED vars
  BY <1>1 DEF vars, TypeOK, LockIsHeld, SelectedIsTrue, DoneIsApplied, ServesMigrated, answers
<1>2. ASSUME NEW p \in Processes, ReadApplied(p) PROVE StoreInv'
  <2>1. [at |-> "migrating", pending |-> Migrations \ applied] \in Process
    BY DEF Process
  <2>. QED
    BY <1>2, <2>1, ReactionsAssumption, ProcessFields DEF ReadApplied, Goto, Start, TypeOK, LockIsHeld, SelectedIsTrue, DoneIsApplied, ServesMigrated, answers
<1>3. ASSUME NEW p \in Processes, BeginMigration(p) PROVE StoreInv'
  <2>1. proc[p] \in [at : {"migrating", "reading", "writing"}, pending : SUBSET Migrations]
    BY <1>3, ProcessFields DEF BeginMigration, TypeOK
  <2>2. [proc[p] EXCEPT !.at = "reading"] \in Process
    BY <2>1 DEF Process
  <2>. QED
    BY <1>3, <2>1, <2>2, ReactionsAssumption DEF BeginMigration, Goto, TypeOK, LockIsHeld, SelectedIsTrue, DoneIsApplied, ServesMigrated, answers
<1>4. ASSUME NEW p \in Processes, TakeLock(p) PROVE StoreInv'
  <2>1. proc[p] \in [at : {"migrating", "reading", "writing"}, pending : SUBSET Migrations]
    BY <1>4, ProcessFields DEF TakeLock, TypeOK
  <2>2. [proc[p] EXCEPT !.at = "writing"] \in Process
    BY <2>1 DEF Process
  <2>. QED
    BY <1>4, <2>1, <2>2, ReactionsAssumption DEF TakeLock, Goto, TypeOK, LockIsHeld, SelectedIsTrue, DoneIsApplied, ServesMigrated, answers
<1>5. ASSUME NEW p \in Processes, CommitMigration(p) PROVE StoreInv'
  <2>1. proc[p] \in [at : {"migrating", "reading", "writing"}, pending : SUBSET Migrations]
    BY <1>5, ProcessFields DEF CommitMigration, TypeOK
  <2>2. First(proc[p].pending) \in proc[p].pending
    BY <1>5, <2>1, FirstIsPending DEF CommitMigration, DoneIsApplied
  <2>. DEFINE m == First(proc[p].pending)
  <2>3. [at |-> "migrating", pending |-> proc[p].pending \ {m}] \in Process
    BY <2>1 DEF Process
  <2>4. /\ applied' = applied \cup {m} /\ rows' = rows /\ lock' = None
        /\ proc' = [proc EXCEPT ![p] = [at |-> "migrating", pending |-> proc[p].pending \ {m}]]
        /\ proc[p].at = "writing" /\ UNCHANGED <<balance, lost, crashes>>
        /\ stale' \subseteq Processes
    BY <1>5 DEF CommitMigration, RowsAfter, Goto, Committed, TypeOK, answers
  <2>5. m \in Migrations
    BY <2>1, <2>2
  <2>. HIDE DEF m
  <2>. QED
    BY <2>1, <2>3, <2>4, <2>5, ReactionsAssumption DEF TypeOK, LockIsHeld, SelectedIsTrue, DoneIsApplied, ServesMigrated, answers
<1>6. ASSUME NEW p \in Processes, MigrationFails(p) PROVE StoreInv'
  BY <1>6, ReactionsAssumption DEF MigrationFails, Goto, Start, Process, TypeOK, LockIsHeld, SelectedIsTrue, DoneIsApplied, ServesMigrated, answers
<1>7. ASSUME NEW p \in Processes, Migrated(p) PROVE StoreInv'
  <2>1. applied = Migrations
    BY <1>7 DEF Migrated, DoneIsApplied, TypeOK
  <2>2. Serving \in Process /\ Serving.at = "serving"
    BY DEF Process, Serving
  <2>. QED
    BY <1>7, <2>1, <2>2, ReactionsAssumption DEF Migrated, Goto, TypeOK, LockIsHeld, SelectedIsTrue, DoneIsApplied, ServesMigrated, answers
<1>8. ASSUME NEW p \in Processes, NEW k \in Keys, Toggle(p, k) PROVE StoreInv'
  <2>1. [at |-> "begin", key |-> k, attempt |-> 1] \in Process
    BY ReactionsAssumption DEF Process
  <2>. QED
    BY <1>8, <2>1, ReactionsAssumption DEF Toggle, Goto, Serving, TypeOK, LockIsHeld, SelectedIsTrue, DoneIsApplied, ServesMigrated, answers
<1>9. ASSUME NEW p \in Processes, BeginImmediate(p) PROVE StoreInv'
  <2>1. proc[p] \in [at : {"begin"}, key : Keys, attempt : 1..MaxAttempts]
    BY <1>9, ProcessFields DEF BeginImmediate, TypeOK
  <2>. DEFINE found == proc[p].key \in rows
              s == [at |-> "selected", key |-> proc[p].key, attempt |-> proc[p].attempt,
                    existing |-> found]
  <2>2. s \in Process /\ s.at = "selected" /\ s.key = proc[p].key
    <3>1. found \in BOOLEAN
      OBVIOUS
    <3>. HIDE DEF found
    <3>. QED
      BY <2>1, <3>1 DEF Process
  <2>4. s.existing <=> proc[p].key \in rows
    <3>1. s.existing = found
      <4>. HIDE DEF found
      <4>. QED OBVIOUS
    <3>. QED
      BY <3>1
  <2>3. proc' = [proc EXCEPT ![p] = s]
    BY <1>9 DEF BeginImmediate, Select, Goto
  <2>. HIDE DEF s
  <2>. QED
    BY <1>9, <2>1, <2>2, <2>3, <2>4, ReactionsAssumption DEF BeginImmediate, TypeOK, LockIsHeld, SelectedIsTrue, DoneIsApplied, ServesMigrated, answers
<1>10. ASSUME NEW p \in Processes, BeginFails(p) PROVE StoreInv'
  BY <1>10, ReactionsAssumption DEF BeginFails, Goto, Serving, Process, TypeOK, LockIsHeld, SelectedIsTrue, DoneIsApplied, ServesMigrated, answers
<1>11. ASSUME NEW p \in Processes, CommitToggle(p) PROVE StoreInv'
  <2>. DEFINE k == proc[p].key
              s == [at |-> "committed", key |-> k, existing |-> proc[p].existing]
  <2>1. proc[p] \in [at : {"selected"}, key : Keys, attempt : 1..MaxAttempts, existing : BOOLEAN]
    BY <1>11, ProcessFields DEF CommitToggle, TypeOK
  <2>2. s \in Process /\ s.at = "committed"
    BY <2>1 DEF Process
  <2>3. rows' = (IF proc[p].existing THEN rows \ {k} ELSE rows \cup {k}) /\ rows' \subseteq Keys
    BY <1>11, <2>1 DEF CommitToggle, TypeOK
  <2>4. /\ lock' = None /\ stale' \subseteq Processes /\ UNCHANGED <<applied, balance, lost, crashes>>
        /\ proc' = [proc EXCEPT ![p] = s]
        /\ lock = p /\ \A q \in Processes \ {p} : proc[q].at \notin {"writing", "selected"}
    BY <1>11 DEF CommitToggle, Committed, Goto, TypeOK, LockIsHeld, answers
  <2>. HIDE DEF s
  <2>. QED
    BY <1>11, <2>2, <2>3, <2>4, ReactionsAssumption DEF CommitToggle, TypeOK, LockIsHeld,
       SelectedIsTrue, DoneIsApplied, ServesMigrated
<1>14. ASSUME NEW p \in Processes, AnswerToggle(p) PROVE StoreInv'
  <2>1. proc[p] \in [at : {"committed"}, key : Keys, existing : BOOLEAN]
    BY <1>14, ProcessFields DEF AnswerToggle, TypeOK
  <2>2. Serving \in Process /\ Serving.at = "serving"
    BY DEF Process, Serving
  <2>3. balance' \in [Keys -> Int]
    BY <1>14, <2>1 DEF AnswerToggle, Said, TypeOK
  <2>. QED
    BY <1>14, <2>1, <2>2, <2>3, ReactionsAssumption DEF AnswerToggle, Goto, TypeOK, LockIsHeld,
       SelectedIsTrue, DoneIsApplied, ServesMigrated
<1>12. ASSUME NEW p \in Processes, ToggleFails(p) PROVE StoreInv'
  <2>1. proc[p] \in [at : {"selected"}, key : Keys, attempt : 1..MaxAttempts, existing : BOOLEAN]
    BY <1>12, ProcessFields DEF ToggleFails, TypeOK
  <2>2. PICK s \in Process : s.at \in {"begin", "serving"} /\ proc' = [proc EXCEPT ![p] = s]
    <3>1. CASE Goto(p, Serving)
      BY <3>1 DEF Goto, Serving, Process
    <3>2. CASE /\ proc[p].attempt < MaxAttempts
               /\ Goto(p, [at |-> "begin", key |-> proc[p].key, attempt |-> proc[p].attempt + 1])
      <4>1. [at |-> "begin", key |-> proc[p].key, attempt |-> proc[p].attempt + 1] \in Process
        BY <2>1, <3>2, ReactionsAssumption DEF Process
      <4>. QED
        BY <3>2, <4>1 DEF Goto
    <3>. QED
      BY <1>12, <3>1, <3>2 DEF ToggleFails
  <2>. QED
    BY <1>12, <2>2, ReactionsAssumption DEF ToggleFails, TypeOK, LockIsHeld, SelectedIsTrue, DoneIsApplied, ServesMigrated, answers
<1>13. ASSUME NEW p \in Processes, Crash(p) PROVE StoreInv'
  <2>1. lost' \in [Keys -> Int]
    BY <1>13, ProcessFields DEF Crash, Said, TypeOK
  <2>. QED
    BY <1>13, <2>1, ReactionsAssumption DEF Crash, Goto, Start, Process, TypeOK, LockIsHeld,
       SelectedIsTrue, DoneIsApplied, ServesMigrated
<1>. QED
  BY <1>1, <1>2, <1>3, <1>4, <1>5, <1>6, <1>7, <1>8, <1>9, <1>10, <1>11, <1>12, <1>13, <1>14
  DEF Next, StartUp, Request

\* The steps after which somebody has something else to answer: COMMIT, the
\* answer, and a crash between them.
LEMMA NextAnswers == IInv /\ StoreInv' /\ [Next]_vars => AnswersAreTable'
<1>. SUFFICES ASSUME IInv, StoreInv', [Next]_vars PROVE AnswersAreTable'
  OBVIOUS
<1>. USE DEF IInv, StoreInv
<1>1. CASE UNCHANGED vars
  <2>1. \A k, e : Answering(k, e)' = Answering(k, e)
    BY <1>1 DEF vars, Answering
  <2>. QED
    BY <1>1, <2>1 DEF vars, answers, AnswersAreTable, Answers
<1>2. ASSUME NEW p \in Processes, NEW s \in Process, Goto(p, s), UNCHANGED <<rows, answers>>,
             proc[p].at # "committed", s.at # "committed"
      PROVE  AnswersAreTable'
  BY <1>2, NothingAnswered DEF Goto
<1>3. \A p \in Processes : proc'[p] \in Process
  BY DEF TypeOK
<1>4. ASSUME NEW p \in Processes, CommitToggle(p) PROVE AnswersAreTable'
  <2>. DEFINE k == proc[p].key
              s == [at |-> "committed", key |-> k, existing |-> proc[p].existing]
  <2>1. proc[p] \in [at : {"selected"}, key : Keys, attempt : 1..MaxAttempts, existing : BOOLEAN]
    BY <1>4, ProcessFields DEF CommitToggle, TypeOK
  <2>2. s \in Process /\ proc' = [proc EXCEPT ![p] = s]
    BY <1>4, <2>1 DEF CommitToggle, Goto, Process
  <2>3. rows' = (IF k \in rows THEN rows \ {k} ELSE rows \cup {k}) /\ UNCHANGED <<balance, lost>>
    BY <1>4, <2>1 DEF CommitToggle, SelectedIsTrue, answers
  <2>4. /\ \A j \in Keys : Share(proc[p], j) = 0
        /\ \A j \in Keys \ {k} : Share(s, j) = 0
        /\ Share(s, k) = IF k \in rows THEN -1 ELSE 1
    BY <1>4, <2>1 DEF CommitToggle, SelectedIsTrue, Share
  <2>. HIDE DEF s, k
  <2>5. ASSUME NEW j \in Keys PROVE Answers(j)' = IF j \in rows' THEN 1 ELSE 0
    <3>1. /\ Answers(j) = balance[j] + lost[j] + Outstanding(j)
          /\ Answers(j)' = balance'[j] + lost'[j] + Outstanding(j)'
      BY AnswersSum
    <3>2. /\ Outstanding(j) \in Int
          /\ Outstanding(j)' = Outstanding(j) - Share(proc[p], j) + Share(s, j)
      BY <2>2, OutstandingAfter
    <3>3. Answers(j) = IF j \in rows THEN 1 ELSE 0
      BY DEF AnswersAreTable
    <3>4. balance[j] \in Int /\ lost[j] \in Int
      BY DEF TypeOK
    <3>. QED
      BY <2>3, <2>4, <3>1, <3>2, <3>3, <3>4
  <2>. QED
    BY <2>5 DEF AnswersAreTable
<1>5. ASSUME NEW p \in Processes, AnswerToggle(p) PROVE AnswersAreTable'
  <2>1. proc[p] \in [at : {"committed"}, key : Keys, existing : BOOLEAN]
    BY <1>5, ProcessFields DEF AnswerToggle, TypeOK
  <2>2. Serving \in Process /\ proc' = [proc EXCEPT ![p] = Serving]
    BY <1>5 DEF AnswerToggle, Goto, Process
  <2>3. \A k \in Keys : Share(Serving, k) = 0
    BY DEF Share, Serving
  <2>4. \A k \in Keys : Share(proc[p], k) = IF k = proc[p].key THEN Said(p) ELSE 0
    BY <2>1 DEF Share, Said
  <2>5. \A k \in Keys : balance'[k] + lost'[k] + Share(Serving, k)
                           = balance[k] + lost[k] + Share(proc[p], k)
    BY <1>5, <2>1, <2>3, <2>4 DEF AnswerToggle, Said, TypeOK
  <2>6. rows' = rows
    BY <1>5 DEF AnswerToggle
  <2>. QED
    BY <2>2, <2>5, <2>6, AnswersKept
<1>6. ASSUME NEW p \in Processes, Crash(p) PROVE AnswersAreTable'
  <2>1. Start \in Process /\ proc' = [proc EXCEPT ![p] = Start] /\ rows' = rows
    BY <1>6 DEF Crash, Goto, Process
  <2>2. \A k \in Keys : Share(Start, k) = 0
    BY DEF Share, Start
  <2>3. CASE proc[p].at = "committed"
    <3>1. proc[p] \in [at : {"committed"}, key : Keys, existing : BOOLEAN]
      BY <2>3, ProcessFields DEF TypeOK
    <3>2. \A k \in Keys : Share(proc[p], k) = IF k = proc[p].key THEN Said(p) ELSE 0
      BY <3>1 DEF Share, Said
    <3>3. \A k \in Keys : balance'[k] + lost'[k] + Share(Start, k)
                             = balance[k] + lost[k] + Share(proc[p], k)
      BY <1>6, <2>2, <2>3, <3>1, <3>2 DEF Crash, Said, TypeOK
    <3>. QED
      BY <2>1, <3>3, AnswersKept
  <2>4. CASE proc[p].at # "committed"
    <3>1. Start.at # "committed" /\ UNCHANGED <<rows, answers>>
      BY <1>6, <2>4 DEF Crash, Start, answers
    <3>. QED
      BY <2>1, <2>4, <3>1, NothingAnswered
  <2>. QED
    BY <2>3, <2>4
<1>7. ASSUME NEW p \in Processes, StartUp(p) PROVE AnswersAreTable'
  <2>. DEFINE Quiet(s) == /\ Goto(p, s) /\ s.at # "committed" /\ proc[p].at # "committed"
                         /\ UNCHANGED <<rows, answers>>
  <2>3. ASSUME ReadApplied(p) PROVE \E s : Quiet(s)
    BY <2>3 DEF ReadApplied, Start
  <2>4. ASSUME BeginMigration(p) \/ TakeLock(p) PROVE \E s : Quiet(s)
    <3>1. /\ [proc[p] EXCEPT !.at = "reading"].at = "reading"
          /\ [proc[p] EXCEPT !.at = "writing"].at = "writing"
      BY ProcessFields, <2>4 DEF BeginMigration, TakeLock, TypeOK
    <3>. QED
      BY <2>4, <3>1 DEF BeginMigration, TakeLock
  <2>5. ASSUME CommitMigration(p) PROVE \E s : Quiet(s)
    BY <2>5 DEF CommitMigration, RowsAfter
  <2>6. ASSUME MigrationFails(p) \/ Migrated(p) PROVE \E s : Quiet(s)
    BY <2>6 DEF MigrationFails, Migrated, Start, Serving
  <2>1. \E s : Quiet(s)
    BY <1>7, <2>3, <2>4, <2>5, <2>6 DEF StartUp
  <2>7. PICK s : Quiet(s)
    BY <2>1
  <2>2. s \in Process
    BY <1>3, <2>7 DEF Goto, TypeOK
  <2>. QED
    BY <1>2, <2>2, <2>7
<1>8. ASSUME NEW p \in Processes, NEW k \in Keys, Toggle(p, k) PROVE AnswersAreTable'
  <2>1. PICK s : Goto(p, s) /\ s.at # "committed" /\ proc[p].at # "committed"
                 /\ UNCHANGED <<rows, answers>>
    BY <1>8 DEF Toggle, Serving
  <2>2. s \in Process
    BY <1>3, <2>1 DEF Goto, TypeOK
  <2>. QED
    BY <1>2, <2>1, <2>2
<1>9. ASSUME NEW p \in Processes, BeginImmediate(p) \/ BeginFails(p) \/ ToggleFails(p)
      PROVE  AnswersAreTable'
  <2>1. PICK s : Goto(p, s) /\ s.at # "committed" /\ proc[p].at # "committed"
                 /\ UNCHANGED <<rows, answers>>
    BY <1>9 DEF BeginImmediate, Select, BeginFails, ToggleFails, Serving
  <2>2. s \in Process
    BY <1>3, <2>1 DEF Goto, TypeOK
  <2>. QED
    BY <1>2, <2>1, <2>2
<1>. QED
  BY <1>1, <1>4, <1>5, <1>6, <1>7, <1>8, <1>9 DEF Next, Request

LEMMA NextIInv == IInv /\ [Next]_vars => IInv'
BY NextStoreInv, NextAnswers DEF IInv

\* What the listings show and count is the table.
LEMMA ListingsShowTheTable ==
    ASSUME TypeOK, AnswersAreTable
    PROVE  AnswersAddUp
<1>1. Added = rows
  BY DEF Added, AnswersAreTable, TypeOK
<1>2. ASSUME NEW k \in Keys
      PROVE  /\ Answers(k) \in {0, 1}
             /\ k \in rows <=> InMessage(k)
             /\ k \in rows <=> InSession(k)
  <2>. DEFINE m == k.message
              s == k.session
              group == Group(m, s, k.emoji)
  <2>1. k \in rows => k \in RowsOf(m, s) /\ k \in group
    BY DEF RowsOf, Group
  <2>2. k.user \in UsersOf(group) => k \in rows
    <3>. SUFFICES ASSUME k.user \in UsersOf(group) PROVE k \in rows
      OBVIOUS
    <3>1. PICK r \in rows : /\ r.message = m /\ s \in {None, r.session}
                           /\ r.emoji = k.emoji /\ r.user = k.user
      BY DEF RowsOf, Group, UsersOf
    <3>2. r \in Keys /\ r.session = k.session
      BY <3>1, ReactionsAssumption DEF TypeOK, Keys
    <3>3. r = k
      BY <3>1, <3>2 DEF Keys
    <3>. QED
      BY <3>3
  <2>3. k \in rows => k.user \in UsersOf(group)
    BY <2>1 DEF UsersOf
  <2>. DEFINE g(e) == [emoji |-> e, count |-> Cardinality(Group(m, s, e)),
                       users |-> UsersOf(Group(m, s, e))]
  <2>4. k \in rows <=> InMessage(k)
    <3>1. ASSUME k \in rows PROVE InMessage(k)
      <4>1. g(k.emoji) \in GetForMessage(m, s)
        BY <2>1, <3>1 DEF GetForMessage
      <4>. QED
        BY <2>3, <3>1, <4>1 DEF InMessage
    <3>2. ASSUME InMessage(k) PROVE k \in rows
      <4>1. PICK h \in GetForMessage(m, s) : h.emoji = k.emoji /\ k.user \in h.users
        BY <3>2 DEF InMessage
      <4>2. PICK e : h = g(e)
        BY <4>1 DEF GetForMessage
      <4>3. h.emoji = e /\ h.users = UsersOf(Group(m, s, e))
        BY <4>2
      <4>. QED
        BY <2>2, <4>1, <4>3
    <3>. QED
      BY <3>1, <3>2
  <2>. DEFINE listed == GetForSession(s)
  <2>5. /\ DOMAIN listed = {r.message : r \in {x \in rows : x.session = s}}
        /\ \A n \in DOMAIN listed :
              /\ DOMAIN listed[n] = {r.emoji : r \in RowsOf(n, s)}
              /\ \A e \in DOMAIN listed[n] : listed[n][e] = UsersOf(Group(n, s, e))
    BY DEF GetForSession, RowsIn
  <2>6. k \in rows <=> InSession(k)
    <3>. HIDE DEF listed
    <3>1. ASSUME k \in rows PROVE InSession(k)
      <4>1. m \in DOMAIN listed
        BY <2>5, <3>1
      <4>2. k.emoji \in DOMAIN listed[m]
        BY <2>1, <2>5, <3>1, <4>1
      <4>3. k.user \in listed[m][k.emoji]
        BY <2>3, <2>5, <3>1, <4>1, <4>2
      <4>. QED
        BY <4>1, <4>2, <4>3 DEF InSession, listed
    <3>2. ASSUME InSession(k) PROVE k \in rows
      <4>1. m \in DOMAIN listed /\ k.emoji \in DOMAIN listed[m] /\ k.user \in listed[m][k.emoji]
        BY <3>2 DEF InSession, listed
      <4>. QED
        BY <2>2, <2>5, <4>1
    <3>. QED
      BY <3>1, <3>2
  <2>. QED
    BY <2>4, <2>6 DEF AnswersAreTable
<1>3. ASSUME NEW m \in Messages, NEW s \in Sessions \cup {None}, NEW g \in GetForMessage(m, s)
      PROVE  Counted(m, s, g)
  <2>1. PICK e : g = [emoji |-> e, count |-> Cardinality(Group(m, s, e)),
                      users |-> UsersOf(Group(m, s, e))]
    BY DEF GetForMessage
  <2>2. g.emoji = e /\ g.count = Cardinality(Group(m, s, e))
    BY <2>1
  <2>3. Group(m, s, e) = {k \in rows : /\ k.message = m /\ k.emoji = g.emoji
                                       /\ s \in {None, k.session}}
    BY <2>2 DEF RowsOf, Group
  <2>. QED
    BY <1>1, <2>2, <2>3 DEF Counted
<1>. QED
  BY <1>1, <1>2, <1>3 DEF AnswersAddUp

LEMMA Inductive == Spec => []IInv
BY InitIInv, NextIInv, PTL DEF Spec

\* Every variable keeps its type.
THEOREM TypeCorrect == Spec => []TypeOK
<1>1. IInv => TypeOK
  BY DEF IInv, StoreInv
<1>. QED
  BY <1>1, Inductive, PTL

\* The answers to committed toggles, given, outstanding or lost, add up to what
\* the listings show, whatever the processes that share the table do and
\* wherever they die (lib/db.js:32-77, lib/routes/reactions.js:83-84).
THEOREM TogglesAreAtomic == Spec => []AnswersAddUp
<1>1. IInv => AnswersAddUp
  BY ListingsShowTheTable DEF IInv, StoreInv
<1>. QED
  BY <1>1, Inductive, PTL

\* No process serves before every migration is committed (lib/migrate.js:62-85).
THEOREM OnlyMigratedServe == Spec => []ServesMigrated
<1>1. IInv => ServesMigrated
  BY DEF IInv, StoreInv
<1>. QED
  BY <1>1, Inductive, PTL
==============================================================================
