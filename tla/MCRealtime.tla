------------------------------ MODULE MCRealtime ------------------------------
(* Realtime with interchangeable calls and clients; no liveness is checked. *)
EXTENDS Realtime, TLC

Symmetric == Permutations(Tasks) \cup Permutations(Clients)
===============================================================================
