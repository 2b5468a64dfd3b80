---------------------------- MODULE MCTaskRuntime ----------------------------
(***************************************************************************)
(* Instances of TaskRuntime for TLC.                                       *)
(***************************************************************************)
EXTENDS TaskRuntime

CONSTANTS top, one
=============================================================================
