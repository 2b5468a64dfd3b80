------------------------ MODULE ResourceCoordinator ------------------------
(***************************************************************************)
(* Admission of tasks to shared resources                                  *)
(* (yi-agent-core/src/subagent/scheduler.rs): one queue per resource key,  *)
(* leases of a number of units, rotation between root sessions and between *)
(* the subtrees of a root, ageing, deadlines, and the pair of provider     *)
(* pools of which the regular one may borrow from the coordination one.    *)
(*                                                                         *)
(* The coordinator is behind one mutex: every operation is one step.  What *)
(* a caller asks for is a constant of its request; of the time a request   *)
(* has waited the model keeps the points it has earned, and whether its    *)
(* deadline has passed.  The position in the queue is the sequence number. *)
(***************************************************************************)
EXTENDS Integers, Sequences, FiniteSets, FiniteSetsExt

CONSTANTS
    Regular,        \* the key "llm:<provider>"
    Coordination,   \* the key "llm-coordination:<provider>"
    PlainKey,       \* other keys: "resident:global", "build:host", ...
    Capacity,       \* [Key -> units]
    LeaseId,        \* bound: leases that are out at the same time
    NoLease,
    NoOne,          \* nobody was granted yet
    Cursor,         \* [Key -> the root and the parent granted last before a restart]
    Request,        \* the requests of an instance
    Ask,            \* [Request -> what it asks for]
    Task, Parent, RootSession,
    Boosts          \* the points of age told apart, of 0..20

Key == {Regular, Coordination} \cup PlainKey

Weight == [Background |-> 0, Normal |-> 10, High |-> 20, Critical |-> 40]

MaxBoost == 20

\* ResourceRequest with the callers' arguments
QueuedRequest ==
    [key      : Key,
     task     : Task,
     parent   : Parent,
     root     : RootSession,
     mode     : {"Shared", "Exclusive"},
     units    : Nat \ {0},
     priority : DOMAIN Weight,
     deadline : BOOLEAN]        \* whether there is one

ASSUME KeyAssumption ==
    Regular # Coordination /\ Regular \notin PlainKey /\ Coordination \notin PlainKey
ASSUME CapacityAssumption == Capacity \in [Key -> Nat]
ASSUME AskAssumption      == Ask \in [Request -> QueuedRequest]
ASSUME BoostsAssumption   == Boosts \subseteq 0..MaxBoost
ASSUME CursorAssumption   ==
    Cursor \in [Key -> [root : RootSession \cup {NoOne}, parent : Parent \cup {NoOne}]]
ASSUME NullAssumption     ==
    NoLease \notin Request \cup LeaseId /\ NoOne \notin RootSession \cup Parent

VARIABLES
    queues,      \* [Key -> Seq(Request)]
    boost,       \* [Request -> points earned by waiting]
    expired,     \* the requests whose deadline has passed
    active,      \* [LeaseId -> the request it was granted for, or NoLease]
    inUse,       \* [Key -> units out]
    lastRoot,    \* [Key -> the root granted last, or NoOne]
    lastParent   \* [Key -> [RootSession -> the parent granted last, or NoOne]]

resources == <<queues, boost, expired, active, inUse, lastRoot, lastParent>>

Monus(a, b) == IF a >= b THEN a - b ELSE 0      \* saturating_sub

\* A coordinator after a start, its cursors restored (restore_admission_cursor)
Init ==
    /\ queues     = [k \in Key |-> << >>]
    /\ boost      = [r \in Request |-> 0]
    /\ expired    = {}
    /\ active     = [l \in LeaseId |-> NoLease]
    /\ inUse      = [k \in Key |-> 0]
    /\ lastRoot   = [k \in Key |-> Cursor[k].root]
    /\ lastParent = [k \in Key |-> [root \in RootSession |->
                        IF root = Cursor[k].root THEN Cursor[k].parent ELSE NoOne]]

-----------------------------------------------------------------------------
(* What a grant reads.  The queues are a parameter: a caller enqueues and  *)
(* asks for a grant under one lock.                                        *)

Waiting(q, k) == {r \in Request : Ask[r].key = k /\ \E i \in DOMAIN q[k] : q[k][i] = r}

Leases(k) == {l \in LeaseId : active[l] # NoLease /\ Ask[active[l]].key = k}

\* Mutant of Compatible: an exclusive request looks only at exclusive leases.
CompatibleShared(r, k) == \A l \in Leases(k) : Ask[active[l]].mode = "Shared"

\* request_is_compatible
Compatible(r, k) ==
    /\ \A l \in Leases(k) : Ask[active[l]].mode # "Exclusive"
    /\ Ask[r].mode = "Exclusive" => Leases(k) = {}

Outstanding(k, root) ==
    MapThenSumSet(LAMBDA l : Ask[active[l]].units,
                  {l \in Leases(k) : Ask[active[l]].root = root})

\* Mutant of CoordinationWaits: the queue of the reserve is not looked at.
CoordinationWaitsNever(q) == FALSE

\* A coordination request that the reserve could serve is queued.
CoordinationWaits(q) ==
    \E r \in Waiting(q, Coordination) :
        /\ r \notin expired
        /\ Ask[r].units <= Monus(Capacity[Coordination], inUse[Coordination])
        /\ Compatible(r, Coordination)

\* coordination_reserve_capacity
Borrowable(q, k) ==
    IF k # Regular \/ inUse[k] < Capacity[k] \/ CoordinationWaits(q) THEN 0
    ELSE Monus(Monus(Capacity[Coordination], inUse[Coordination]),
               Monus(inUse[k], Capacity[k]))

\* Mutant of Lent: a loan is not charged to the coordination pool.
LentForgotten(k) == 0

\* borrowed_coordination_units
Lent(k) == IF k = Coordination THEN Monus(inUse[Regular], Capacity[Regular]) ELSE 0

Available(q, k) == Monus(Monus(Capacity[k], inUse[k]), Lent(k)) + Borrowable(q, k)

-----------------------------------------------------------------------------
(* select_fair_request                                                     *)

Eligible(q, k) ==
    LET units == Available(q, k)
    IN  {r \in Waiting(q, k) : r \notin expired /\ Ask[r].units <= units /\ Compatible(r, k)}

\* admission_score
Score(r) == Weight[Ask[r].priority] + boost[r]

\* root_score: a root has the score of its best request, less a point for each
\* unit it holds (which takes the same from all requests of the root)
NetScore(k, r) == Score(r) - Outstanding(k, Ask[r].root)

At(q, k, r) == CHOOSE i \in DOMAIN q[k] : q[k][i] = r

Group(S, field, r) == {s \in S : Ask[s][field] = Ask[r][field]}

\* Mutant of Ahead: the group granted last keeps its place.
AheadOfAll(q, k, S, field, last, r, s) ==
    LET best(x) == Max({NetScore(k, e) : e \in Group(S, field, x)})
        head(x) == Min({At(q, k, e) : e \in Group(S, field, x)})
    IN  best(r) > best(s) \/ (best(r) = best(s) /\ head(r) < head(s))

\* rotate_after: S falls into groups, by root or by parent, that stand in the
\* order of their first requests.  The group of r is preferred to that of s: it
\* has the better score, or it comes first after the group granted last.
Ahead(q, k, S, field, last, r, s) ==
    LET best(x) == Max({NetScore(k, e) : e \in Group(S, field, x)})
        head(x) == Min({At(q, k, e) : e \in Group(S, field, x)})
        past(x) == \E e \in S : Ask[e][field] = last /\ head(e) < head(x)
    IN  \/ best(r) > best(s)
        \/ best(r) = best(s) /\ past(r) /\ ~past(s)
        \/ best(r) = best(s) /\ (past(r) <=> past(s)) /\ head(r) < head(s)

\* select_fair_request: the root's turn, then the subtree's within the root,
\* then the first request.
IsSelected(q, k, r) ==
    LET root == Group(Eligible(q, k), "root", r)
        kin  == Group(root, "parent", r)
    IN  /\ \A s \in Eligible(q, k) \ root :
              Ahead(q, k, Eligible(q, k), "root", lastRoot[k], r, s)
        /\ \A s \in root \ kin :
              Ahead(q, k, root, "parent", lastParent[k][Ask[r].root], r, s)
        /\ \A s \in kin : At(q, k, r) <= At(q, k, s)

-----------------------------------------------------------------------------
(* Operations.                                                             *)

\* The queue s without the requests in S, the others in their order.
Retained(s, S) ==
    LET kept[n \in 0..Len(s)] ==
            IF n = 0 THEN << >>
            ELSE IF s[n] \in S THEN kept[n - 1] ELSE Append(kept[n - 1], s[n])
    IN  kept[Len(s)]

\* The queue q of key k without the requests in S.
Dropped(q, k, S) == [q EXCEPT ![k] = Retained(@, S)]

CursorMoved(k, r) ==
    /\ lastRoot'   = [lastRoot EXCEPT ![k] = Ask[r].root]
    /\ lastParent' = [lastParent EXCEPT ![k][Ask[r].root] = Ask[r].parent]

\* grant_next_at over the queues q: r becomes the lease id
Grant(q, k, r, id) ==
    /\ active[id] = NoLease
    /\ r \in Eligible(q, k) /\ IsSelected(q, k, r)
    /\ queues' = Dropped(q, k, expired \cup {r})
    /\ active' = [active EXCEPT ![id] = r]
    /\ inUse'  = [inUse EXCEPT ![k] = @ + Ask[r].units]
    /\ CursorMoved(k, r)

\* grant_next_at returns None: the expired entries are gone all the same
GrantNone(q, k) ==
    /\ Eligible(q, k) = {}
    /\ queues' = Dropped(q, k, expired)
    /\ UNCHANGED <<active, inUse, lastRoot, lastParent>>

GrantNext(k) ==
    /\ \/ \E r \in Waiting(queues, k), id \in LeaseId : Grant(queues, k, r, id)
       \/ GrantNone(queues, k)
    /\ UNCHANGED <<boost, expired>>

Enqueued(q, r) == [q EXCEPT ![Ask[r].key] = Append(@, r)]

\* enqueue_with_priority_for_parent_at.  The callers keep one request of a task
\* in a queue (resident_waiting and queued of runtime.rs).
Enqueue(r) ==
    /\ \A s \in Waiting(queues, Ask[r].key) : Ask[s].task # Ask[r].task
    /\ queues'  = Enqueued(queues, r)
    /\ boost'   = [boost EXCEPT ![r] = 0]
    /\ expired' = expired \ {r}
    /\ UNCHANGED <<active, inUse, lastRoot, lastParent>>

Without(q, t) == [k \in Key |-> Retained(q[k], {r \in Request : Ask[r].task = t})]

CancelTaskRequests(t) ==
    /\ queues' = Without(queues, t)
    /\ UNCHANGED <<boost, expired, active, inUse, lastRoot, lastParent>>

\* Mutant of ReleaseLease: one unit comes back, whatever the lease held.
ReleaseLeaseOneUnit(id) ==
    /\ active[id] # NoLease
    /\ active' = [active EXCEPT ![id] = NoLease]
    /\ inUse'  = [inUse EXCEPT ![Ask[active[id]].key] = Monus(@, 1)]

\* release; an id that is unknown or released already changes nothing
ReleaseLease(id) ==
    /\ active[id] # NoLease
    /\ active' = [active EXCEPT ![id] = NoLease]
    /\ inUse'  = [inUse EXCEPT ![Ask[active[id]].key] = Monus(@, Ask[active[id]].units)]

Release(id) ==
    /\ ReleaseLease(id)
    /\ UNCHANGED <<queues, boost, expired, lastRoot, lastParent>>

\* Time passes: a request earns points, never more than those before it in
\* its queue, which have waited longer.
Age(k) ==
    /\ \E i \in DOMAIN queues[k], n \in Boosts :
          /\ n > boost[queues[k][i]]
          /\ \A m \in Boosts : m > boost[queues[k][i]] => n <= m
          /\ \A j \in 1..(i - 1) : n <= boost[queues[k][j]]
          /\ boost' = [boost EXCEPT ![queues[k][i]] = n]
    /\ UNCHANGED <<queues, expired, active, inUse, lastRoot, lastParent>>

\* Time passes a deadline.
Expire(r) ==
    /\ Ask[r].deadline /\ r \in Waiting(queues, Ask[r].key) \ expired
    /\ expired' = expired \cup {r}
    /\ UNCHANGED <<queues, boost, active, inUse, lastRoot, lastParent>>

Next ==
    \/ \E r \in Request : Enqueue(r)
    \/ \E t \in Task : CancelTaskRequests(t)
    \/ \E k \in Key : GrantNext(k)
    \/ \E id \in LeaseId : Release(id)
    \/ \E k \in Key : Age(k)
    \/ \E r \in Request : Expire(r)

Spec == Init /\ [][Next]_resources

\* ENABLED <<GrantNext(k)>>_resources when leases are left, written out for TLC
Grantable(k) ==
    \/ Eligible(queues, k) # {} /\ \E id \in LeaseId : active[id] = NoLease
    \/ Eligible(queues, k) = {} /\ Waiting(queues, k) \cap expired # {}

\* Every holder gives its lease back, and those who wait ask again: weak fairness
\* of GrantNext and of Release.  (ProviderTurns is about whether they do.)
Fairness ==
    /\ \A k \in Key : []<>~Grantable(k) \/ []<><<GrantNext(k)>>_resources
    /\ \A id \in LeaseId : WF_resources(Release(id))

FairSpec == Spec /\ Fairness
-----------------------------------------------------------------------------
(* Properties.                                                             *)

\* Types, and the callers' discipline: no request stands twice in a queue.
TypeOK ==
    /\ queues     \in [Key -> Seq(Request)]
    /\ boost      \in [Request -> 0..MaxBoost]
    /\ expired    \subseteq Request
    /\ active     \in [LeaseId -> Request \cup {NoLease}]
    /\ inUse      \in [Key -> Nat]
    /\ lastRoot   \in [Key -> RootSession \cup {NoOne}]
    /\ lastParent \in [Key -> [RootSession -> Parent \cup {NoOne}]]
    /\ \A k \in Key : \A i, j \in DOMAIN queues[k] :
          i # j => Ask[queues[k][i]].task # Ask[queues[k][j]].task

\* The counter kept beside the leases is their sum: no unit leaks when leases
\* are granted, lent and released in any order, and none is created.
InUseCountsLeases ==
    \A k \in Key : inUse[k] = MapThenSumSet(LAMBDA l : Ask[active[l]].units, Leases(k))

\* The two pools of a provider together never exceed its profile, although the
\* regular one may exceed its share; every other key keeps to its capacity
\* (grant_next_at, "so the two pools never exceed the provider profile's
\* combined capacity").
CombinedCapacity ==
    /\ inUse[Regular] + inUse[Coordination] <= Capacity[Regular] + Capacity[Coordination]
    /\ \A k \in Key \ {Regular} : inUse[k] <= Capacity[k]

\* An exclusive lease is alone on its key.
ExclusiveIsAlone ==
    \A k \in Key : \A l \in Leases(k) : Ask[active[l]].mode = "Exclusive" => Leases(k) = {l}

Loan == Monus(inUse[Regular], Capacity[Regular])

\* The regular pool takes no unit of the reserve that a waiting coordination
\* request could have had.
BorrowingYields ==
    [][Loan' > Loan =>
         \A r \in Waiting(queues, Coordination) \ expired :
            \/ Ask[r].units + Loan + inUse[Coordination] > Capacity[Coordination]
            \/ ~Compatible(r, Coordination)]_resources

\* A root is granted twice in a row only when each request of another root that
\* it leaves behind, and that asks for no more, scores less than one of its own:
\* ties pass the turn on.
RootsTakeTurns ==
    [][\A k \in Key, id \in LeaseId :
         LET new == active'[id] IN
         /\ active[id] = NoLease /\ new # NoLease
         /\ Ask[new].key = k /\ lastRoot[k] = Ask[new].root
         => \A r \in Waiting(queues, k) \ expired :
               \/ Ask[r].root = Ask[new].root
               \/ Ask[r].units > Ask[new].units \/ ~Compatible(r, k)
               \/ \E s \in Waiting(queues, k) :
                     Ask[s].root = Ask[new].root /\ NetScore(k, s) > NetScore(k, r)]_resources

\* Selection starves nobody who keeps asking while the requests for a key are of
\* one class and of one shared unit: roots that saturate the regular permits and
\* the reserve starve neither each other nor the coordination request that needs it
\* back.
NobodyStarves ==
    \A r \in Request : r \in Waiting(queues, Ask[r].key) ~> r \notin Waiting(queues, Ask[r].key)
=============================================================================
