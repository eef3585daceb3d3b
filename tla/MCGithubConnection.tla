------------------------- MODULE MCGithubConnection -------------------------
(* Small instances of GithubConnection for TLC.                            *)
EXTENDS GithubConnection, TLC

Alike == Permutations(Browsers) \cup Permutations(Requests)
=============================================================================
