---------------------------- MODULE ProviderTurns ----------------------------
(***************************************************************************)
(* Admission of the turns of all workers to the model provider             *)
(* (ProviderTurnAdmissions and RuntimeProviderTurnGate of                  *)
(* yi-agent-store/src/runtime.rs), on top of ResourceCoordinator.  A worker *)
(* asks its gate for a turn and gets a lease back.  Whoever asks also       *)
(* selects, fairly and possibly for somebody else, whose lease is then left *)
(* in `assigned' until that worker looks for it.                           *)
(*                                                                         *)
(* Every worker has a thread, so the gates run in parallel.  A step here is *)
(* what a thread does under one lock: a gate that holds a lock while it     *)
(* takes another one stops in between.  `queued' is only ever locked inside *)
(* `resources' or with nothing else held, so the model has two locks.  The  *)
(* row of a lease is left out, but for writes that fail.  Waiting time is   *)
(* not told apart here: boosts stay at 0 and no request has a deadline.     *)
(***************************************************************************)
EXTENDS ResourceCoordinator

CONSTANTS
    Coordinator,    \* the tasks that are a root or have children
    NoRequest,
    WritesFail      \* whether rows of an instance may fail to be written

\* ProviderTurnAdmissions asks for one shared unit, at normal priority from the
\* regular pool and at high priority from the coordination pool.
ASSUME WritesAssumption == WritesFail \in BOOLEAN
ASSUME TurnAskAssumption ==
    /\ PlainKey = {} /\ NoRequest \notin Request
    /\ \A t \in Task, k \in Key : \E r \in Request : Ask[r].task = t /\ Ask[r].key = k
    /\ \A r, s \in Request : Ask[r].task = Ask[s].task /\ Ask[r].key = Ask[s].key => r = s
    /\ \A r \in Request :
          /\ Ask[r].units = 1 /\ Ask[r].mode = "Shared" /\ ~Ask[r].deadline
          /\ Ask[r].priority = IF Ask[r].key = Regular THEN "Normal" ELSE "High"

VARIABLES
    queued,     \* [Task -> the request the gate believes is queued, or NoRequest]
    assigned,   \* [Task -> the lease selected for it by another gate, or NoLease]
    gate,       \* [Task -> where its call of acquire stands]
    mail,       \* the coordinators with unconsumed mail of high priority
    lost        \* history: the tasks whose queued request a failed write dropped

turns == <<queued, assigned, gate, mail, lost>>
tvars == <<resources, turns>>

Gate == [at    : {"Idle", "Take", "Yield", "Select", "Assign", "Wait", "Failed",
                  "Cancel", "Drop", "Hold"},
         want  : Request \cup {NoRequest},
         lease : LeaseId \cup {NoLease},    \* the lease it has in its hands
         woken : BOOLEAN]                   \* its Notified has fired

IdleGate == [at |-> "Idle", want |-> NoRequest, lease |-> NoLease, woken |-> FALSE]

TInit ==
    /\ Init
    /\ queued   = [t \in Task |-> NoRequest]
    /\ assigned = [t \in Task |-> NoLease]
    /\ gate     = [t \in Task |-> IdleGate]
    /\ mail     = {}
    /\ lost     = {}

-----------------------------------------------------------------------------

\* The mutexes.  A gate that has taken its entry out of `assigned' gives the
\* lease back with that map still locked; one that has granted a lease to
\* another task enters it there with the resources still locked.
HoldsAssigned(t)  == gate[t].at \in {"Yield", "Drop"}
HoldsResources(t) == gate[t].at = "Assign"

AssignedIsFree  == \A t \in Task : ~HoldsAssigned(t)
ResourcesAreFree == \A t \in Task : ~HoldsResources(t)

TurnRequest(t, k) == CHOOSE r \in Request : Ask[r].task = t /\ Ask[r].key = k

\* provider_turn_admission_priority and the gate's choice of the pool
Wanted(t) == TurnRequest(t, IF t \in mail THEN Coordination ELSE Regular)

\* notify_waiters: every gate whose Notified exists
Notified(g) ==
    [t \in Task |-> IF g[t].at \in {"Take", "Yield", "Select", "Assign", "Wait"}
                    THEN [g[t] EXCEPT !.woken = TRUE] ELSE g[t]]

\* t's gate at another place, with what it still needs there
Moved(g, t, place, id) ==
    [g EXCEPT ![t] = [at    |-> place,
                      want  |-> IF place \in {"Yield", "Select"} THEN @.want ELSE NoRequest,
                      lease |-> id,
                      woken |-> @.woken /\ place \notin {"Hold", "Failed"}]]

-----------------------------------------------------------------------------
(* The gate's loop.                                                        *)

Woken(t) == gate[t].at = "Wait" /\ gate[t].woken

\* The top of the loop, entered by the agent loop before it calls the provider,
\* or again after a notification: a Notified is created, the priority is read.
Enter(t) ==
    /\ gate[t].at = "Idle" \/ Woken(t)
    /\ gate' = [gate EXCEPT ![t] = [IdleGate EXCEPT !.at = "Take", !.want = Wanted(t)]]
    /\ UNCHANGED <<resources, queued, assigned, mail, lost>>

\* A request that is not normal gives an assigned lease back, of either pool.
YieldsAssignment(t) == Ask[gate[t].want].priority # "Normal"

\* acquire_now, under the lock of `assigned': there is nothing for the task, or
\* the lease another gate selected for it, which is kept, or given up in favour
\* of a coordination request.
Take(t) ==
    /\ gate[t].at = "Take" /\ AssignedIsFree
    /\ gate' = Moved(gate, t,
                     IF assigned[t] = NoLease THEN "Select"
                     ELSE IF YieldsAssignment(t) THEN "Yield" ELSE "Hold",
                     assigned[t])
    /\ assigned' = [assigned EXCEPT ![t] = NoLease]
    /\ UNCHANGED <<resources, queued, mail, lost>>

\* The lease is given up; the gate tells the others, itself included.
Yield(t) ==
    /\ gate[t].at = "Yield" /\ ResourcesAreFree
    /\ Release(gate[t].lease)
    /\ gate' = Notified(Moved(gate, t, "Select", NoLease))
    /\ UNCHANGED <<queued, assigned, mail, lost>>

\* Its row cannot be closed: nobody is told until the call is cleaned up.
YieldFails(t) ==
    /\ gate[t].at = "Yield" /\ ResourcesAreFree /\ WritesFail
    /\ Release(gate[t].lease)
    /\ gate' = Moved(gate, t, "Failed", NoLease)
    /\ UNCHANGED <<queued, assigned, mail, lost>>

\* Mutant of Requeued: the request for the other pool stays queued.
RequeuedBeside(t) ==
    IF queued[t] = gate[t].want THEN queues ELSE Enqueued(queues, gate[t].want)

\* Mutant of Requeued: the new request is queued before the old one is cancelled.
RequeuedTooEarly(t) ==
    IF queued[t] = gate[t].want THEN queues
    ELSE LET q == Enqueued(queues, gate[t].want)
         IN  IF queued[t] = NoRequest THEN q ELSE Without(q, t)

\* The queues once acquire_now has replaced or added the task's request.
Requeued(t) ==
    IF queued[t] = gate[t].want THEN queues
    ELSE Enqueued(IF queued[t] = NoRequest THEN queues ELSE Without(queues, t), gate[t].want)

\* A request that is queued anew is lost no more.
StillLost(t) == IF queued[t] = gate[t].want THEN lost ELSE lost \ {t}

\* acquire_now, under the lock of the resources: nothing can be granted,
SelectNobody(t) ==
    /\ gate[t].at = "Select" /\ ResourcesAreFree
    /\ GrantNone(Requeued(t), Ask[gate[t].want].key)
    /\ queued' = [queued EXCEPT ![t] = gate[t].want]
    /\ gate'   = Moved(gate, t, "Wait", NoLease)
    /\ lost'   = StillLost(t)
    /\ UNCHANGED <<boost, expired, assigned, mail>>

\* or the fair choice falls on the task itself, or on another one, whose lease
\* is still to be assigned,
SelectSomebody(t) ==
    /\ gate[t].at = "Select" /\ ResourcesAreFree
    /\ \E q \in {Requeued(t)}, id \in LeaseId :
       \E r \in Eligible(q, Ask[gate[t].want].key) :
          /\ Grant(q, Ask[r].key, r, id)
          /\ queued' = [queued EXCEPT ![t] = gate[t].want, ![Ask[r].task] = NoRequest]
          /\ gate'   = Moved(gate, t, IF Ask[r].task = t THEN "Hold" ELSE "Assign", id)
    /\ lost' = StillLost(t)
    /\ UNCHANGED <<boost, expired, assigned, mail>>

\* or the row of the grant cannot be written: the lease is released, the request
\* and the turn of the rotation are gone.
SelectFails(t) ==
    /\ gate[t].at = "Select" /\ ResourcesAreFree /\ WritesFail
    /\ \E q \in {Requeued(t)} :
       \E r \in Eligible(q, Ask[gate[t].want].key) :
          /\ IsSelected(q, Ask[r].key, r)
          /\ queues' = Dropped(q, Ask[r].key, expired \cup {r})
          /\ CursorMoved(Ask[r].key, r)
          /\ lost' = StillLost(t) \cup {Ask[r].task}
    /\ queued'   = [queued EXCEPT ![t] = gate[t].want]
    /\ gate'     = Notified(Moved(gate, t, "Failed", NoLease))
    /\ UNCHANGED <<boost, expired, active, inUse, assigned, mail>>

\* The other task is assigned its lease; it is not told.
Assign(t) ==
    /\ gate[t].at = "Assign" /\ AssignedIsFree
    /\ assigned' = [assigned EXCEPT ![Ask[active[gate[t].lease]].task] = gate[t].lease]
    /\ gate'     = Moved(gate, t, "Wait", NoLease)
    /\ UNCHANGED <<resources, queued, mail, lost>>

\* The call ends without a turn (ProviderTurnWaitCleanup): the worker was
\* cancelled where the gate waits, or a write failed.  cancel_task takes the
\* request out of the queue,
CancelRequest(t) ==
    /\ gate[t].at \in {"Wait", "Failed"} /\ ResourcesAreFree
    /\ CancelTaskRequests(t)
    /\ queued' = [queued EXCEPT ![t] = NoRequest]
    /\ gate'   = [gate EXCEPT ![t] = [IdleGate EXCEPT !.at = "Cancel"]]
    /\ lost'   = lost \ {t}
    /\ UNCHANGED <<assigned, mail>>

\* Mutant of CancelAssignment: the assignment outlives its lease.
CancelAssignmentKept(t) ==
    /\ gate[t].at = "Cancel" /\ AssignedIsFree
    /\ gate' = IF assigned[t] = NoLease THEN Notified([gate EXCEPT ![t] = IdleGate])
               ELSE Moved(gate, t, "Drop", assigned[t])
    /\ UNCHANGED <<resources, queued, assigned, mail, lost>>

\* then an assignment out of the map,
CancelAssignment(t) ==
    /\ gate[t].at = "Cancel" /\ AssignedIsFree
    /\ gate' = IF assigned[t] = NoLease THEN Notified([gate EXCEPT ![t] = IdleGate])
               ELSE Moved(gate, t, "Drop", assigned[t])
    /\ assigned' = [assigned EXCEPT ![t] = NoLease]
    /\ UNCHANGED <<resources, queued, mail, lost>>

\* and gives its lease back.  The same ends a turn: the lease is dropped.
GiveBack(t) ==
    /\ gate[t].at \in {"Drop", "Hold"} /\ ResourcesAreFree
    /\ Release(gate[t].lease)
    /\ gate' = Notified([gate EXCEPT ![t] = IdleGate])
    /\ UNCHANGED <<queued, assigned, mail, lost>>

\* Mail of high priority reaches a coordinator or is consumed: no gate is told.
Mail(t) ==
    /\ mail' = IF t \in mail THEN mail \ {t} ELSE mail \cup {t}
    /\ UNCHANGED <<resources, queued, assigned, gate, lost>>

Acquire(t) ==
    \/ Enter(t) \/ Take(t)
    \/ Yield(t) \/ YieldFails(t)
    \/ SelectNobody(t) \/ SelectSomebody(t) \/ SelectFails(t)
    \/ Assign(t)

Leave(t) == CancelRequest(t) \/ CancelAssignment(t) \/ GiveBack(t)

TNext ==
    \/ \E t \in Task : Acquire(t) \/ Leave(t)
    \/ \E t \in Coordinator : Mail(t)

TSpec == TInit /\ [][TNext]_tvars

\* The thread of t is in the middle of a call: it need not be idle, asleep or
\* cancelled for it to take its next step.
Busy(t) == gate[t].at \notin {"Idle", "Wait"} \/ Woken(t)

\* A busy thread goes on, and gets a lock that is free again and again; provider
\* turns end: strong fairness of its next step.
TFairSpec ==
    /\ TSpec
    /\ \A t \in Task : SF_tvars(Busy(t) /\ (Acquire(t) \/ Leave(t)))

-----------------------------------------------------------------------------
(* Properties.                                                             *)

\* Types.
TurnsTypeOK ==
    /\ TypeOK
    /\ queued   \in [Task -> Request \cup {NoRequest}]
    /\ assigned \in [Task -> LeaseId \cup {NoLease}]
    /\ gate     \in [Task -> Gate]
    /\ mail     \subseteq Coordinator
    /\ lost     \subseteq Task

InHand(t, id)   == gate[t].at \in {"Yield", "Drop", "Hold"} /\ gate[t].lease = id
Entitled(t, id) == InHand(t, id) \/ assigned[t] = id

\* A worker calls the provider only on a lease that is out, granted for it and
\* for nobody else: an assignment that is taken, yielded or cancelled while its
\* task is being selected again never makes two workers run on one permit.
TurnsAreBacked ==
    \A t \in Task, id \in LeaseId : Entitled(t, id) =>
        /\ active[id] # NoLease /\ Ask[active[id]].task = t
        /\ ~(InHand(t, id) /\ assigned[t] = id)
        /\ \A u \in Task \ {t} : ~Entitled(u, id)

\* A task stands in at most one queue, the one acquire_now remembers for it.
OneRequestPerTask ==
    \A k \in Key : \A r \in Waiting(queues, k) : queued[Ask[r].task] = r

\* A gate that sleeps can be reached: its request is queued, or a lease is assigned
\* to it or about to be.  The exception is the task whose request was granted by
\* another gate that could not write it down.  That the gate is indeed reached is
\* what CoordinationIsServed says.
NoSleeperForgotten ==
    \A t \in Task \ lost :
        gate[t].at = "Wait" =>
            \/ assigned[t] # NoLease
            \/ queued[t] \in Waiting(queues, Ask[queued[t]].key)
            \/ \E u \in Task : gate[u].at = "Assign" /\ Ask[active[gate[u].lease]].task = t

-----------------------------------------------------------------------------
(* Claims of the code's comments that its behaviours contradict.           *)

\* "so one task cannot receive grants from both provider pools" (acquire_now)
OnePoolPerTask ==
    \A t \in Task : \E k \in Key : \A l \in LeaseId :
        active[l] # NoLease /\ Ask[active[l]].task = t => Ask[active[l]].key = k

\* "so it never leaks capacity until the daemon restarts" (acquire_now): a lease
\* that is out has a worker that will give it back.
NoLeaseLeaks ==
    \A id \in LeaseId : active[id] # NoLease =>
        \E t \in Task : Entitled(t, id) \/ (gate[t].at = "Assign" /\ gate[t].lease = id)

\* No two gates hold each the lock that the other one waits for: "Take the lease
\* id out under `resident_leases` alone, then release it under
\* `resource_coordinator` alone" (release_resident_lease, of the same mutex).
LocksAreOrdered ==
    ~\E t, u \in Task : HoldsAssigned(t) /\ HoldsResources(u)

\* "coordination_reserve_unblocks_parent: leaf saturation cannot block review
\* or permission handling" (2026-08-09-runtime-scheduling-design.md)
CoordinationIsServed ==
    \A t \in Coordinator :
        gate[t].at = "Wait" /\ t \in mail ~> gate[t].at \in {"Hold", "Idle"} \/ t \notin mail
=============================================================================
