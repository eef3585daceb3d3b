--------------------------- MODULE MCDemoHistory ---------------------------
(* Small instances of DemoHistory for TLC.                                 *)
EXTENDS DemoHistory, TLC

Alike == Permutations(Visitors)
=============================================================================
