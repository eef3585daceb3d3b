------------------------------ MODULE MCAiKey ------------------------------
(* AiKey on a small instance. *)
EXTENDS AiKey, TLC

Alike == Permutations(Saves) \cup Permutations(Removals) \cup Permutations(Providers)
=============================================================================
