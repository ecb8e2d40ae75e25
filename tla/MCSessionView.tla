---------------------------- MODULE MCSessionView ----------------------------
(* SessionView with interchangeable sessions and tasks. *)
EXTENDS SessionView, TLC

Symmetric == Permutations(Sessions) \cup Permutations(Tasks)
===============================================================================
