---------------------------- MODULE RequestLedger ----------------------------
(***************************************************************************)
(* What a caller of GatewayWsManager.send() is promised, whatever happens  *)
(* to the sockets underneath: the promise of a request settles at most     *)
(* once, and it is fulfilled only by an answer the gateway really gave to  *)
(* that request.  A rejection promises nothing about the gateway: the      *)
(* request may or may not have been served.                                *)
(***************************************************************************)
CONSTANT Requests

VARIABLES
    outcome,   \* state of the promise each send() returned
    served     \* the requests the gateway has processed at least once

vars == <<outcome, served>>

Outcomes == {"idle", "outstanding", "resolved", "rejected"}

Init ==
    /\ outcome = [r \in Requests |-> "idle"]
    /\ served = {}

\* send() is called: its promise is pending, or rejected on the spot.
Issue(r) ==
    /\ outcome[r] = "idle"
    /\ \E o \in {"outstanding", "rejected"} :
          outcome' = [outcome EXCEPT ![r] = o]
    /\ UNCHANGED served

\* The gateway processes a request some caller issued, perhaps again.
Serve(r) ==
    /\ outcome[r] # "idle"
    /\ served' = served \cup {r}
    /\ UNCHANGED outcome

\* The gateway's answer fulfils the promise.
Resolve(r) ==
    /\ outcome[r] = "outstanding"
    /\ r \in served
    /\ outcome' = [outcome EXCEPT ![r] = "resolved"]
    /\ UNCHANGED served

\* An error answer, a timeout or a lost connection rejects promises,
\* possibly many in one step.
Reject(S) ==
    /\ \A r \in S : outcome[r] = "outstanding"
    /\ outcome' = [r \in Requests |-> IF r \in S THEN "rejected" ELSE outcome[r]]
    /\ UNCHANGED served

Next ==
    \/ \E r \in Requests : Issue(r) \/ Serve(r) \/ Resolve(r)
    \/ \E S \in SUBSET Requests : Reject(S)

Spec == Init /\ [][Next]_vars

\* A promise is fulfilled only with an answer of the gateway.
ResolvedWasServed == \A r \in Requests : outcome[r] = "resolved" => r \in served
==============================================================================
