------------------------- MODULE MCWorkspaceContainer -------------------------
(* Instances of WorkspaceContainer for TLC. *)
EXTENDS WorkspaceContainer
=============================================================================
