------------------------ MODULE MCResourceCoordinator ------------------------
(***************************************************************************)
(* Instances of ResourceCoordinator for TLC.                               *)
(***************************************************************************)
EXTENDS ResourceCoordinator, TLC

CONSTANTS llm, coordination, A, B, p, q, l1, l2, l3

OfOneUnit(key, root, parent, task, priority) ==
    [key |-> key, task |-> task, parent |-> parent, root |-> root, mode |-> "Shared",
     units |-> 1, priority |-> priority, deadline |-> FALSE]

\* Two roots compete for a regular permit and the reserve of two; A asks once
\* for two units, B asks the reserve twice, once exclusively with a deadline.
PoolAsk ==
    [a1 |-> OfOneUnit(llm, A, p, "a1", "Normal"),
     a2 |-> [OfOneUnit(llm, A, q, "a2", "Normal") EXCEPT !.units = 2],
     b1 |-> OfOneUnit(llm, B, q, "b1", "Normal"),
     c1 |-> OfOneUnit(coordination, B, q, "b1", "High"),
     c2 |-> [OfOneUnit(coordination, B, q, "b2", "High")
                EXCEPT !.mode = "Exclusive", !.deadline = TRUE]]

LeafAsk == [r \in {"a1", "b1", "c1"} |-> PoolAsk[r]]

PoolCapacity == llm :> 1 @@ coordination :> 2

NoCursor == [k \in Key |-> [root |-> NoOne, parent |-> NoOne]]

OneOfEach == llm :> 1 @@ coordination :> 1
Leases3   == Permutations({l1, l2, l3})
=============================================================================
