-------------------------- MODULE MCReviewCreation --------------------------
(* Small instances of ReviewCreation for TLC.                              *)
EXTENDS ReviewCreation, TLC

CONSTANTS alice, bob, r1, r2, r3, s1, s2

\* Two requests of one user race each other; a third is another user's.
TwoUsers == (r1 :> alice) @@ (r2 :> alice) @@ (r3 :> bob)

\* Requests of one user are alike, and so are commits.
Alike == Permutations({r1, r2}) \cup Permutations({s1, s2})
=============================================================================
