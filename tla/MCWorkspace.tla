---------------------------- MODULE MCWorkspace ----------------------------
(* Small instances of Workspace. *)
EXTENDS Workspace
=============================================================================
