--------------------------- MODULE MCKanbanRunner ---------------------------
(***************************************************************************)
(* Instances of KanbanRunner for TLC.                                      *)
(***************************************************************************)
EXTENDS KanbanRunner, TLC

CONSTANTS feature, fix
=============================================================================
