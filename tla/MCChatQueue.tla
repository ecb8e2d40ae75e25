----------------------------- MODULE MCChatQueue ------------------------------
(* ChatQueue with interchangeable sessions and requests, for the run without  *)
(* liveness.                                                                  *)
EXTENDS ChatQueue, TLC

Symmetric == Permutations(Sessions) \cup Permutations(Attempts)
===============================================================================
