--------------------------- MODULE MCMobileUpdate ---------------------------
(* TLC instances of MobileUpdate. *)
EXTENDS MobileUpdate, TLC

\* 1.9, then 1.10, which is newer though its text sorts first.
MCTagOf == << <<1, 9>>, <<1, 10>> >>

Good(v) == [tagged |-> TRUE, channel |-> v, trusted |-> TRUE,
            digestAlgorithm |-> "sha-256", digest |-> "built"]

\* A sound manifest of 1.9; one of 1.10 that records the digest of the file as it
\* was built again, one that records none, and one that is not of its release.
MCShapes == {Good(<<1, 9>>), [Good(<<1, 10>>) EXCEPT !.digest = "rebuilt"],
             [Good(<<1, 10>>) EXCEPT !.digest = "none"],
             [Good(<<1, 10>>) EXCEPT !.tagged = FALSE]}

Symmetric == Permutations(Checks)
=============================================================================
