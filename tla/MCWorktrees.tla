---------------------------- MODULE MCWorktrees ----------------------------
(***************************************************************************)
(* An instance of Worktrees for TLC.                                       *)
(***************************************************************************)
EXTENDS Worktrees
=============================================================================
