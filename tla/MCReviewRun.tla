---------------------------- MODULE MCReviewRun ----------------------------
(* A small instance of ReviewRun for TLC.                                  *)
EXTENDS ReviewRun, TLC

CONSTANTS p1, p2, p3, secrets, linter

\* Two files of a kind and a larger one.
Sizes == (p1 :> 1) @@ (p2 :> 1) @@ (p3 :> 2)

\* The linters are alike, so there is one.
Order == [repository |-> <<secrets, linter>>, pull_request |-> <<secrets, linter>>]

=============================================================================
