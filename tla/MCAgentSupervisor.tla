-------------------------- MODULE MCAgentSupervisor --------------------------
(***************************************************************************)
(* Instances of AgentSupervisor for TLC.                                   *)
(***************************************************************************)
EXTENDS AgentSupervisor, TLC

CONSTANTS top, one, two    \* the tasks that may be spawned under the root top

\* Only the root is told apart: a fresh task id is any unused one.
SpawnedSymmetry == Permutations({one, two})
=============================================================================
