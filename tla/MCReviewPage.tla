---------------------------- MODULE MCReviewPage ----------------------------
(* ReviewPage on a small instance. *)
EXTENDS ReviewPage, TLC

Alike == Permutations(Verdicts)
=============================================================================
