--------------------------- MODULE MCAuthSession ---------------------------
(* TLC instances of AuthSession. *)
EXTENDS AuthSession, TLC

Symmetric == Permutations(Agents) \cup Permutations(Users)
             \cup Permutations(Tokens) \cup Permutations(Instances)
=============================================================================
