-------------------------- MODULE MCDaemonInstance --------------------------
(***************************************************************************)
(* Instances of DaemonInstance for TLC.                                    *)
(***************************************************************************)
EXTENDS DaemonInstance

CONSTANTS old, new
=============================================================================
