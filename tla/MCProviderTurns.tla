--------------------------- MODULE MCProviderTurns ---------------------------
(***************************************************************************)
(* Instances of ProviderTurns for TLC.                                     *)
(***************************************************************************)
EXTENDS ProviderTurns, TLC

CONSTANTS llm, coordination, A, x, y, z, l1, l2

TurnRequests == Task \X {llm, coordination}

\* x is a root, its own parent; the other tasks are its children.
TurnAsk ==
    [r \in TurnRequests |->
        [key |-> r[2], task |-> r[1], parent |-> x, root |-> A, mode |-> "Shared",
         units |-> 1, deadline |-> FALSE, priority |-> IF r[2] = llm THEN "Normal" ELSE "High"]]

\* One root: the cursors, restored after a restart, stay what they are.
OldCursor == [k \in Key |-> [root |-> A, parent |-> x]]

OneOfEach == llm :> 1 @@ coordination :> 1
Leases2   == Permutations({l1, l2})
Alike     == Leases2 \cup Permutations({y, z})
=============================================================================
