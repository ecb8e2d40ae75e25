------------------------------- MODULE Delivery -------------------------------
(***************************************************************************)
(* What the user is promised of the messages sent from the chat page,      *)
(* whatever happens to the queue, the requests, the browser and the        *)
(* server: a message gets one fate and keeps it, it counts as sent only    *)
(* if the gateway has received it, and the gateway first sees the messages *)
(* of a session in their order, except that one may overtake a message the *)
(* page has given up.  A message that was given up may still arrive.       *)
(***************************************************************************)
EXTENDS Naturals

CONSTANTS Messages, Sessions, NoSession

VARIABLES
    sentTo,    \* session of each message sent so far
    fate,      \* what became of each message
    executed   \* messages the gateway has received

vars == <<sentTo, fate, executed>>

Init ==
    /\ sentTo = [m \in Messages |-> NoSession]
    /\ fate = [m \in Messages |-> "unsent"]
    /\ executed = {}

\* The user sends the next message to session s.
Send(m, s) ==
    /\ sentTo[m] = NoSession /\ \A l \in 1 .. m - 1 : sentTo[l] # NoSession
    /\ sentTo' = [sentTo EXCEPT ![m] = s]
    /\ fate' = [fate EXCEPT ![m] = "open"]
    /\ UNCHANGED executed

\* The gateway receives message m, perhaps once more.
Receive(m) ==
    /\ sentTo[m] # NoSession
    /\ \A l \in 1 .. m - 1 :
          sentTo[l] = sentTo[m] => l \in executed \/ fate[l] \notin {"open", "confirmed"}
    /\ executed' = executed \cup {m}
    /\ UNCHANGED <<sentTo, fate>>

\* The page shows message m as sent.
Confirm(m) ==
    /\ fate[m] = "open" /\ m \in executed
    /\ fate' = [fate EXCEPT ![m] = "confirmed"]
    /\ UNCHANGED <<sentTo, executed>>

\* The server will not have message m.
Refuse(m) ==
    /\ fate[m] = "open"
    /\ fate' = [fate EXCEPT ![m] = "refused"]
    /\ UNCHANGED <<sentTo, executed>>

\* The page is loaded again: open messages may be too old to come back, or were
\* never stored.
Forget(S) ==
    /\ \A m \in S : fate[m] = "open"
    /\ \E why \in [S -> {"expired", "lost"}] :
          fate' = [m \in Messages |-> IF m \in S THEN why[m] ELSE fate[m]]
    /\ UNCHANGED <<sentTo, executed>>

Next ==
    \/ \E m \in Messages : Receive(m) \/ Confirm(m) \/ Refuse(m)
    \/ \E m \in Messages, s \in Sessions : Send(m, s)
    \/ \E S \in SUBSET Messages : Forget(S)

Spec == Init /\ [][Next]_vars
===============================================================================
