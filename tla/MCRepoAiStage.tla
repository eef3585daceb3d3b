--------------------------- MODULE MCRepoAiStage ---------------------------
(* A small instance of RepoAiStage for TLC.                                *)
EXTENDS RepoAiStage
=============================================================================
