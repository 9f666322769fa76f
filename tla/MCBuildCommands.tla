-------------------------- MODULE MCBuildCommands --------------------------
(* BuildCommands for TLC. *)
EXTENDS BuildCommands
=============================================================================
