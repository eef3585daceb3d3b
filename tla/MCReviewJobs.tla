---------------------------- MODULE MCReviewJobs ----------------------------
(* Small instances of ReviewJobs for TLC.                                  *)
EXTENDS ReviewJobs, TLC

\* Workers and jobs are interchangeable: no action or property names one.
Symmetry == Permutations(Workers) \cup Permutations(Jobs)
=============================================================================
