----------------------------- MODULE MCRepoSync -----------------------------
(* RepoSync on a small instance. *)
EXTENDS RepoSync, TLC

Alike ==
    Permutations(Repos) \cup Permutations(Names) \cup Permutations(Users)
    \cup Permutations(Syncs)
=============================================================================
