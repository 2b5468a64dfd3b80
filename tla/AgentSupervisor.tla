-------------------------- MODULE AgentSupervisor --------------------------
(***************************************************************************)
(* The task supervisor of one root session                                 *)
(* (yi-agent-core/src/subagent/supervisor.rs): the tree of tasks, the      *)
(* handles of their workers, and every operation that changes a task's     *)
(* state.  All operations run under the supervisor's mutex and are atomic; *)
(* the reconciliation pass is split into its events because a worker's     *)
(* events are applied in the order of a hash map, and one that is refused  *)
(* ends the pass.  Workers are threads of their own: they post to the      *)
(* queue of their handle at any time, also during a pass.                  *)
(*                                                                         *)
(* Mailboxes, objectives, models and workspaces are left out: no operation *)
(* here branches on them.  A rejected operation that changes nothing is no *)
(* step at all.                                                            *)
(***************************************************************************)
EXTENDS AgentTask, FiniteSets

CONSTANTS
    Task,               \* the tasks one session may ever own
    Root,               \* the task it starts with
    NoTask, NoWorker,
    MaxDirectChildren,  \* MAX_DIRECT_CHILDREN, with_max_direct_children
    MaxAttempts,        \* bound: retries stop when a task's attempts reach it
    MaxRetried,         \* bound: how many tasks are ever retried
    WorkerReports,      \* the final events the workers of an instance post
    WatchdogKinds       \* the watchdog events an instance applies

FinalEvents ==
    {"Delivered", "DeliveredInvalid", "Completed", "BudgetExhausted",
     "CompletedWithoutDelivery", "Paused", "Cancelled", "Failed",
     "RecoveryConflict"}

ASSUME TaskAssumption    == Root \in Task /\ NoTask \notin Task
ASSUME NoTaskAssumption  == NoTask \notin AgentTask
ASSUME BoundAssumption   ==
    MaxDirectChildren \in Nat /\ MaxAttempts \in Nat \ {0} /\ MaxRetried \in Nat
ASSUME ReportsAssumption == WorkerReports \subseteq FinalEvents
ASSUME WatchdogAssumption ==
    WatchdogKinds \subseteq {"WatchdogStalled", "WatchdogTimedOut", "WatchdogBudgetExhausted"}

VARIABLES
    tasks,      \* [Task -> the task, or NoTask before it is spawned]
    parent,     \* [Task -> its parent, or NoTask]
    depth,      \* [Task -> 0 (Root), 1 (Child) or 2 (Leaf)]
    worker,     \* [Task -> the handle of its worker, or NoWorker]
    report,     \* [Task -> attempt whose completion report is kept, 0 if none]
    pass,       \* the reconciliation pass that holds the mutex, if any
    strays      \* history: tasks with a dropped handle whose thread still works

vars == <<tasks, parent, depth, worker, report, pass, strays>>

\* `event' is the final event waiting to be drained: "Pending" before the
\* worker posts one, "Taken" after a pass drained it.
WorkerHandle ==
    [attempt   : Nat \ {0},     \* history: the attempt the worker was started for
     cancelled : BOOLEAN,       \* its cancellation token fired
     pause     : BOOLEAN,       \* its pause signal is up
     event     : FinalEvents \cup {"Pending", "Taken"}]

ASSUME NoWorkerAssumption == NoWorker \notin WorkerHandle

Pass == [active : BOOLEAN, pending : SUBSET (Task \X FinalEvents), changed : SUBSET Task]

NoPass == [active |-> FALSE, pending |-> {}, changed |-> {}]

-----------------------------------------------------------------------------
(* The task tree.                                                          *)

Exists(t)    == tasks[t] # NoTask
HasWorker(t) == worker[t] # NoWorker
Unlocked     == ~pass.active

MaxDepth == 2   \* TaskDepth::Leaf

ChildrenOf(t) == {c \in Task : parent[c] = t}

\* collect_subtree without its root.  Two generations suffice: can_spawn_child
\* lets no task below the depth of a leaf exist.
Descendants(t) ==
    {d \in Task : \/ parent[d] = t
                  \/ parent[d] # NoTask /\ parent[parent[d]] = t}

LiveIn(ts, S) == {d \in S : ts[d] # NoTask /\ IsLive(ts[d])}

Cancel(task) == Reduce(task, Event("CancelRequested", task)).task

CancelAll(ts, S) == [d \in Task |-> IF d \in S THEN Cancel(ts[d]) ELSE ts[d]]

\* Mutant of CancelWorkers: tasks are cancelled, tokens are not.
CancelWorkersForgotten(S) == worker

CancelWorkers(S) ==
    [d \in Task |-> IF d \in S /\ HasWorker(d)
                    THEN [worker[d] EXCEPT !.cancelled = TRUE]
                    ELSE worker[d]]

\* Mutant of Victims: the cascade stops at the direct children.
VictimsDirect(ts, t) == IF IsSettled(ts[t]) THEN LiveIn(ts, ChildrenOf(t)) ELSE {}

\* Mutant of Victims: is_terminal instead of classify_terminal.
VictimsOfTerminal(ts, t) == IF IsTerminal(ts[t]) THEN LiveIn(ts, Descendants(t)) ELSE {}

\* settle_terminal: the live descendants a task takes with it when it settles
Victims(ts, t) == IF IsSettled(ts[t]) THEN LiveIn(ts, Descendants(t)) ELSE {}

\* reduce_task: the reducer's answer, then the cascade
Applied(t, event) ==
    LET r  == Reduce(tasks[t], event)
        ts == [tasks EXCEPT ![t] = r.task]
        vs == IF r.ok THEN Victims(ts, t) ELSE {}
    IN  [ok |-> r.ok, tasks |-> CancelAll(ts, vs), victims |-> vs]

\* Dropping the handles of S from the handles w.
Drop(w, S) == [d \in Task |-> IF d \in S THEN NoWorker ELSE w[d]]

\* The threads that go on unattended when the handles of S are dropped.
Unattended(w, S) ==
    {d \in S : w[d] # NoWorker /\ w[d].event = "Pending" /\ ~w[d].cancelled}

-----------------------------------------------------------------------------
(* Initial state: new_with_objective.                                      *)

Init ==
    /\ tasks  = [t \in Task |-> IF t = Root THEN NewTask ELSE NoTask]
    /\ parent = [t \in Task |-> NoTask]
    /\ depth  = [t \in Task |-> 0]
    /\ worker = [t \in Task |-> NoWorker]
    /\ report = [t \in Task |-> 0]
    /\ pass   = NoPass
    /\ strays = {}

-----------------------------------------------------------------------------
(* Spawning and starting.                                                  *)

\* An operation that is one accepted event, with the cascade it sets off.
Transition(t, event) ==
    /\ Unlocked /\ Exists(t)
    /\ Applied(t, event).ok
    /\ tasks'  = Applied(t, event).tasks
    /\ worker' = CancelWorkers(Applied(t, event).victims)
    /\ UNCHANGED <<parent, depth, report, pass, strays>>

\* Mutant of Spawn: every child keeps the depth new_child gives it.
SpawnChildDepth(p, c) ==
    /\ Unlocked /\ Exists(p) /\ ~Exists(c)
    /\ ~IsSettled(tasks[p])
    /\ depth[p] < MaxDepth
    /\ Cardinality(LiveIn(tasks, ChildrenOf(p))) < MaxDirectChildren
    /\ tasks'  = [tasks EXCEPT ![c] = NewTask]
    /\ parent' = [parent EXCEPT ![c] = p]
    /\ depth'  = [depth EXCEPT ![c] = 1]
    /\ UNCHANGED <<worker, report, pass, strays>>

\* spawn_with_objective; `c' stands for the fresh task id
Spawn(p, c) ==
    /\ Unlocked /\ Exists(p) /\ ~Exists(c)
    /\ ~IsSettled(tasks[p])
    /\ depth[p] < MaxDepth
    /\ Cardinality(LiveIn(tasks, ChildrenOf(p))) < MaxDirectChildren
    /\ tasks'  = [tasks EXCEPT ![c] = NewTask]
    /\ parent' = [parent EXCEPT ![c] = p]
    /\ depth'  = [depth EXCEPT ![c] = depth[p] + 1]
    /\ UNCHANGED <<worker, report, pass, strays>>

\* The part of start_worker both outcomes share: admission, before the factory.
Admitted(t) ==
    /\ Unlocked /\ Exists(t) /\ ~HasWorker(t)
    /\ Applied(t, Event("AdmissionGranted", tasks[t])).ok

\* start_worker_with_provider_turn_gate, the factory returns a handle
StartWorker(t) ==
    /\ Admitted(t)
    /\ tasks'  = Applied(t, Event("AdmissionGranted", tasks[t])).tasks
    /\ worker' = [worker EXCEPT ![t] =
                    [attempt |-> tasks[t].attempt, cancelled |-> FALSE,
                     pause |-> FALSE, event |-> "Pending"]]
    /\ UNCHANGED <<parent, depth, report, pass, strays>>

\* start_worker_with_provider_turn_gate, the factory fails: the admitted task
\* is failed at once, and its live descendants with it
StartWorkerFails(t) ==
    /\ Admitted(t)
    /\ LET running == Reduce(tasks[t], Event("AdmissionGranted", tasks[t])).task
           failed  == Reduce(running, Event("WorkerFailed", running)).task
           ts      == [tasks EXCEPT ![t] = failed]
       IN  /\ tasks'  = CancelAll(ts, Victims(ts, t))
           /\ worker' = CancelWorkers(Victims(ts, t))
    /\ UNCHANGED <<parent, depth, report, pass, strays>>

\* start_task on a foreground root, whose turns run in the TUI process
\* (sync_foreground_root_running): running without a worker of its own
StartForegroundRoot == Transition(Root, Event("AdmissionGranted", tasks[Root]))

-----------------------------------------------------------------------------
(* The workers' side: one final event, then the thread ends.               *)

WorkerReport(t, e) ==
    /\ HasWorker(t) /\ worker[t].event = "Pending"
    /\ e = "Paused"    => worker[t].pause
    /\ e = "Cancelled" => worker[t].cancelled
    /\ worker' = [worker EXCEPT ![t].event = e]
    /\ UNCHANGED <<tasks, parent, depth, report, pass, strays>>

-----------------------------------------------------------------------------
(* The reconciliation pass: reconcile_worker_events.                       *)

Posted == {t \in Task : HasWorker(t) /\ worker[t].event \in FinalEvents}

\* Every queue is drained before the first event is applied.
ReconcileBegin ==
    /\ Unlocked /\ Posted # {}
    /\ pass'   = [active  |-> TRUE,
                  pending |-> {<<t, worker[t].event>> : t \in Posted},
                  changed |-> {}]
    /\ worker' = [t \in Task |-> IF t \in Posted
                                 THEN [worker[t] EXCEPT !.event = "Taken"]
                                 ELSE worker[t]]
    /\ UNCHANGED <<tasks, parent, depth, report, strays>>

\* The task event a worker event becomes.
TaskEventOf(e) ==
    CASE e = "Delivered"        -> "WorkerDelivered"
      [] e = "DeliveredInvalid" -> "WorkerDeliveredInvalid"
      [] e = "Completed"        -> "WorkerCompletedNoChanges"
      [] e = "BudgetExhausted"  -> "WorkerBudgetExhausted"
      [] e = "Paused"           -> "PauseAcknowledged"
      [] e = "Cancelled"        -> "CancelRequested"
      [] e = "RecoveryConflict" -> "RecoveryConflict"
      [] OTHER                  -> "WorkerFailed"

\* A root has no parent to deliver to; anything else is up to the reducer.
Deliverable(t, e) == e \in {"Delivered", "DeliveredInvalid"} => parent[t] # NoTask

\* An event of a task that another operation already settled is dropped, and
\* the handle stays where it is.
ReconcileSkip(t, e) ==
    /\ <<t, e>> \in pass.pending
    /\ IsTerminal(tasks[t])
    /\ pass' = [pass EXCEPT !.pending = @ \ {<<t, e>>}]
    /\ UNCHANGED <<tasks, parent, depth, worker, report, strays>>

\* Mutant of Moved: only the task the event is about.
MovedAlone(t, a) ==
    {d \in {t} : IsTerminal(a.tasks[d]) \/ a.tasks[d].state = "Paused"}

\* The tasks an applied event settled or paused.
Moved(t, a) ==
    {d \in {t} \cup a.victims : IsTerminal(a.tasks[d]) \/ a.tasks[d].state = "Paused"}

\* The event is applied; the handles of every task it settled or paused go.
ReconcileApply(t, e) ==
    LET a     == Applied(t, Event(TaskEventOf(e), tasks[t]))
        w     == CancelWorkers(a.victims)
        moved == Moved(t, a)
    IN  /\ <<t, e>> \in pass.pending
        /\ ~IsTerminal(tasks[t])
        /\ Deliverable(t, e) /\ a.ok
        /\ tasks'  = a.tasks
        /\ report' = IF e \in {"Completed", "BudgetExhausted"}
                     THEN [report EXCEPT ![t] = tasks[t].attempt]
                     ELSE report
        /\ worker' = Drop(w, moved)
        /\ strays' = strays \cup Unattended(w, moved)
        /\ pass'   = [pass EXCEPT !.pending = @ \ {<<t, e>>}, !.changed = @ \cup moved]
        /\ UNCHANGED <<parent, depth>>

\* The event is refused: the pass returns the error, and the events it has not
\* applied and the changes it has collected are gone.
ReconcileAbort(t, e) ==
    LET a == Applied(t, Event(TaskEventOf(e), tasks[t]))
    IN  /\ <<t, e>> \in pass.pending
        /\ ~IsTerminal(tasks[t])
        /\ ~(Deliverable(t, e) /\ a.ok)
        /\ tasks' = IF Deliverable(t, e) THEN a.tasks ELSE tasks
        /\ pass'  = NoPass
        /\ UNCHANGED <<parent, depth, worker, report, strays>>

ReconcileReturn ==
    /\ pass.active /\ pass.pending = {}
    /\ pass' = NoPass
    /\ UNCHANGED <<tasks, parent, depth, worker, report, strays>>

-----------------------------------------------------------------------------
(* Operations of the runtime coordinator on a task.                        *)

\* cancel_task_tree: the targets' tokens fire whatever their state, and every
\* live target is cancelled with its live descendants
CancelTaskTree(t, recursive) ==
    LET targets   == {t} \cup (IF recursive THEN Descendants(t) ELSE {})
        cancelled == LiveIn(tasks, targets)
                       \cup (IF IsLive(tasks[t]) THEN LiveIn(tasks, Descendants(t)) ELSE {})
    IN  /\ Unlocked /\ Exists(t)
        /\ tasks'  = CancelAll(tasks, cancelled)
        /\ worker' = CancelWorkers(targets \cup cancelled)
        /\ UNCHANGED <<parent, depth, report, pass, strays>>

\* cancel_worker: the token alone
CancelWorker(t) ==
    /\ Unlocked /\ HasWorker(t)
    /\ worker' = CancelWorkers({t})
    /\ UNCHANGED <<tasks, parent, depth, report, pass, strays>>

\* Mutant of RequestPauses: the worker is told, the task does not know.
RequestPausesSignalOnly(S) ==
    /\ worker' = [d \in Task |-> IF d \in S THEN [worker[d] EXCEPT !.pause = TRUE]
                                            ELSE worker[d]]
    /\ UNCHANGED <<tasks, parent, depth, report, pass, strays>>

\* The tasks and handles after pause_task on every task of S.
RequestPauses(S) ==
    /\ tasks'  = [d \in Task |-> IF d \in S
                    THEN Reduce(tasks[d], Event("PauseRequested", tasks[d])).task
                    ELSE tasks[d]]
    /\ worker' = [d \in Task |-> IF d \in S THEN [worker[d] EXCEPT !.pause = TRUE]
                                            ELSE worker[d]]
    /\ UNCHANGED <<parent, depth, report, pass, strays>>

\* pause_task: needs a handle, whatever the state of the task
PauseTask(t) == Unlocked /\ HasWorker(t) /\ RequestPauses({t})

\* request_safe_checkpoints: the daemon drains
RequestSafeCheckpoints ==
    LET handles == {t \in Task : HasWorker(t)}
    IN  Unlocked /\ handles # {} /\ RequestPauses(handles)

\* pause_foreground_task: called on the root of a session whose TUI detached
PauseForegroundTask ==
    /\ IsLive(tasks[Root]) /\ tasks[Root].state # "Paused"
    /\ Transition(Root, Event("PauseRequested", tasks[Root]))

\* resume_task
ResumeTask(t) ==
    LET a == Applied(t, Event("ResumeRequested", tasks[t]))
    IN  /\ Unlocked /\ Exists(t) /\ a.ok
        /\ tasks'  = a.tasks
        /\ worker' = Drop(worker, {t})
        /\ strays' = strays \cup Unattended(worker, {t})
        /\ UNCHANGED <<parent, depth, report, pass>>

Retried == {u \in Task : Exists(u) /\ tasks[u].attempt > 1}

\* Mutant of RetryTask: the successor attempt inherits the handle.
RetryTaskKeepsHandle(t) ==
    /\ Unlocked /\ Exists(t) /\ IsTerminal(tasks[t])
    /\ tasks[t].attempt < MaxAttempts
    /\ Cardinality(Retried \ {t}) < MaxRetried
    /\ tasks' = Applied(t, Event("RetryRequested", tasks[t])).tasks
    /\ UNCHANGED <<parent, depth, worker, report, pass, strays>>

\* retry_task, and resume_recovery_task when the task is RecoveryRequired
RetryTask(t) ==
    /\ Unlocked /\ Exists(t) /\ IsTerminal(tasks[t])
    /\ tasks[t].attempt < MaxAttempts
    /\ Cardinality(Retried \ {t}) < MaxRetried
    /\ tasks'  = Applied(t, Event("RetryRequested", tasks[t])).tasks
    /\ worker' = Drop(worker, {t})
    /\ strays' = strays \cup Unattended(worker, {t})
    /\ UNCHANGED <<parent, depth, report, pass>>

\* stall_task, timeout_task, exhaust_task_budget: the token fires first, also
\* when the reducer then refuses the event
Watchdog(t, kind) ==
    LET a == Applied(t, Event(kind, tasks[t]))
    IN  /\ Unlocked /\ Exists(t)
        /\ tasks'  = a.tasks
        /\ worker' = CancelWorkers({t} \cup a.victims)
        /\ UNCHANGED <<parent, depth, report, pass, strays>>

\* request_permission and resolve_permission
RequestPermission(t, q) ==
    Transition(t, [Event("PermissionRequested", tasks[t]) EXCEPT !.request = q])

ResolvePermission(t, q, decision) ==
    Transition(t, [Event(decision, tasks[t]) EXCEPT !.request = q])

\* record_recovery_conflict: a queued task is admitted first.  Its only caller
\* refuses a task that owns a worker before it gets here.
RecordRecoveryConflict(t) ==
    LET admitted == IF tasks[t].state = "Queued"
                    THEN Reduce(tasks[t], Event("AdmissionGranted", tasks[t])).task
                    ELSE tasks[t]
        r        == Reduce(admitted, Event("RecoveryConflict", admitted))
        ts       == [tasks EXCEPT ![t] = r.task]
    IN  /\ Unlocked /\ Exists(t) /\ ~HasWorker(t) /\ r.ok
        /\ tasks'  = CancelAll(ts, Victims(ts, t))
        /\ worker' = CancelWorkers(Victims(ts, t))
        /\ UNCHANGED <<parent, depth, report, pass, strays>>

-----------------------------------------------------------------------------
(* The daemon's last resort when a drain outlasts its grace period.        *)

Interrupted(t) == Reduce(tasks[t], Event("RuntimeInterrupted", tasks[t]))

\* The workers of S cross the recovery boundary; the token of f fires too.
Interrupt(S, f) ==
    LET ts == [d \in Task |-> IF d \in S THEN Interrupted(d).task ELSE tasks[d]]
        vs == UNION {Victims(ts, d) : d \in S}
    IN  /\ tasks'  = CancelAll(ts, vs)
        /\ worker' = Drop(CancelWorkers(S \cup f \cup vs), S)
        /\ UNCHANGED <<parent, depth, report, pass, strays>>

\* interrupt_unacknowledged_workers goes through the handles in any order and
\* returns at the first task that refuses the interruption.
InterruptUnacknowledgedWorkers ==
    LET handles == {t \in Task : HasWorker(t)}
        refused == {t \in handles : ~Interrupted(t).ok}
    IN  /\ Unlocked /\ handles # {}
        /\ \/ refused = {} /\ Interrupt(handles, {})
           \/ \E f \in refused, S \in SUBSET (handles \ refused) : Interrupt(S, {f})

\* interrupt_worker_for_recovery: the same for one worker
InterruptWorkerForRecovery(t) ==
    /\ Unlocked /\ HasWorker(t)
    /\ IF Interrupted(t).ok THEN Interrupt({t}, {}) ELSE Interrupt({}, {t})

-----------------------------------------------------------------------------
TaskStep(t) ==
    \/ \E c \in Task : Spawn(t, c)
    \/ StartWorker(t)
    \/ StartWorkerFails(t)
    \/ \E recursive \in BOOLEAN : CancelTaskTree(t, recursive)
    \/ CancelWorker(t)
    \/ PauseTask(t)
    \/ ResumeTask(t)
    \/ RetryTask(t)
    \/ \E kind \in WatchdogKinds : Watchdog(t, kind)
    \/ \E q \in Requests : RequestPermission(t, q)
    \/ \E q \in Requests, decision \in {"PermissionAllowed", "PermissionDenied"} :
          ResolvePermission(t, q, decision)
    \/ RecordRecoveryConflict(t)
    \/ InterruptWorkerForRecovery(t)

Reconcile ==
    \/ ReconcileBegin
    \/ \E t \in Task, e \in FinalEvents :
          ReconcileSkip(t, e) \/ ReconcileApply(t, e) \/ ReconcileAbort(t, e)
    \/ ReconcileReturn

Next ==
    \/ \E t \in Task : TaskStep(t)
    \/ \E t \in Task, e \in WorkerReports : WorkerReport(t, e)
    \/ Reconcile
    \/ StartForegroundRoot
    \/ PauseForegroundTask
    \/ RequestSafeCheckpoints
    \/ InterruptUnacknowledgedWorkers

Spec == Init /\ [][Next]_vars

\* The daemon's accept loop reconciles on every tick, and a pass does not block.
FairSpec == Spec /\ WF_vars(Reconcile)

-----------------------------------------------------------------------------
(* Type invariant.                                                         *)

TypeOK ==
    /\ tasks  \in [Task -> AgentTask \cup {NoTask}]
    /\ parent \in [Task -> Task \cup {NoTask}]
    /\ depth  \in [Task -> 0 .. MaxDepth]
    /\ worker \in [Task -> WorkerHandle \cup {NoWorker}]
    /\ report \in [Task -> Nat]
    /\ pass   \in Pass
    /\ strays \subseteq Task

-----------------------------------------------------------------------------
(* Safety.                                                                 *)

\* The task tree is closed: a spawned task other than the root has a spawned
\* parent one level up, and nothing refers to a task that was never spawned.
\* collect_subtree, and with it every cascade, relies on it.
TreeShape ==
    /\ Exists(Root) /\ parent[Root] = NoTask /\ depth[Root] = 0
    /\ \A t \in Task :
        /\ parent[t] # NoTask =>
              Exists(t) /\ Exists(parent[t]) /\ depth[t] = depth[parent[t]] + 1
        /\ Exists(t) => t = Root \/ parent[t] # NoTask
        /\ ~Exists(t) => ~HasWorker(t)
    /\ \A p \in pass.pending : Exists(p[1])

\* Ancestor `a' of d is strictly above u, and u is d or above it.
Between(a, u, d) == d \in Descendants(a) /\ u \in Descendants(a)
                      /\ (u = d \/ d \in Descendants(u))

\* settle_terminal's tree invariant, as far as the code keeps it: a live task
\* below a settled one is there only because a task on the way down to it was
\* retried, or waits for recovery, after the cascade.
LiveUnderSettledWasRevived ==
    \A a, d \in Task :
        /\ Exists(a) /\ IsSettled(tasks[a])
        /\ Exists(d) /\ IsLive(tasks[d]) /\ d \in Descendants(a)
        => \E u \in Task :
              /\ Between(a, u, d)
              /\ tasks[u].attempt > 1 \/ tasks[u].state = "RecoveryRequired"

\* The events a handle delivers are credited to the task's active attempt
\* (reconcile_worker_events asks the task, not the worker), so a handle must
\* never outlive the attempt it was started for; and a finished or paused task
\* has no worker that was not told to stop.
WorkerServesActiveAttempt ==
    \A t \in Task : HasWorker(t) =>
        /\ worker[t].attempt = tasks[t].attempt
        /\ IsTerminal(tasks[t]) => worker[t].cancelled
        /\ tasks[t].state # "Paused"

\* Dropping a handle never leaves its thread working: it has posted its final
\* event or its token has fired.  Otherwise a retry would run two workers of
\* one task in one workspace.
NoUnattendedWorker == strays = {}

\* What a parent reads of a finished child (completed_child_reports) belongs to
\* the attempt that finished: the attempt is closed exactly when the task is
\* terminal, a completed one has its delivery, and one completed without
\* changes has its own report.
EvidenceMatchesOutcome ==
    \A t \in Task : Exists(t) =>
        /\ tasks[t].ended <=> IsTerminal(tasks[t])
        /\ tasks[t].state = "Completed" => tasks[t].delivered
        /\ tasks[t].state = "CompletedNoChanges" => report[t] = tasks[t].attempt
        /\ report[t] <= tasks[t].attempt

-----------------------------------------------------------------------------
(* What a step may never do.                                               *)

\* A task that settles takes every live descendant with it in the same step:
\* no other operation can see the parent settled and a child still live.
SettlingStopsTheSubtree ==
    [][\A t \in Task :
         (Exists(t) /\ ~IsSettled(tasks[t]) /\ IsSettled(tasks'[t]))
         => \A d \in Descendants(t) : ~IsLive(tasks'[d])]_vars

\* RecoveryRequired is parked, not settled: entering it cancels no descendant,
\* which a resumed attempt still needs.
RecoveryKeepsTheSubtree ==
    [][\A t \in Task :
         (Exists(t) /\ tasks[t].state # "RecoveryRequired"
                   /\ tasks'[t].state = "RecoveryRequired")
         => \A d \in Descendants(t) :
               tasks'[d].state \in {tasks[d].state, "RecoveryRequired"}]_vars

\* A terminal outcome is final: a late worker event, a watchdog, a cancellation
\* or a cascade leaves it alone, and only a retry opens a new attempt.
TerminalOutcomeIsFinal ==
    [][\A t \in Task :
         (Exists(t) /\ IsTerminal(tasks[t]) /\ tasks'[t].state # tasks[t].state)
         => tasks'[t].state = "Queued" /\ tasks'[t].attempt = tasks[t].attempt + 1]_vars

\* An event that ends the pass when it comes to it.
Refused(t, e) ==
    /\ ~IsTerminal(tasks[t])
    /\ ~(Deliverable(t, e) /\ Applied(t, Event(TaskEventOf(e), tasks[t])).ok)

\* The coordinator persists and releases nothing a pass does not tell it.  A pass
\* collects every task it moves, cascade victims included, and hands over what it
\* collected when every event is applied.  Only an event that is refused stops it:
\* then it tells nothing, and all it had collected by then is lost, though those
\* tasks have moved and their handles are gone.
PassReportsEveryChange ==
    [][pass.active =>
         /\ \A t \in Task : Exists(t) /\ tasks'[t].state # tasks[t].state => t \in pass'.changed
         /\ \/ pass.changed \subseteq pass'.changed
            \/ pass.pending = {}
            \/ \E p \in pass.pending : Refused(p[1], p[2])]_vars

-----------------------------------------------------------------------------
(* Liveness.                                                               *)

\* The events a pass may refuse: a report that is not a valid delivery, a delivery
\* of the root, which has no parent, and a result of a task that waits or was
\* queued again.  A pause or a cancellation is never refused.
Refusable(t, e) ==
    \/ e = "DeliveredInvalid"
    \/ e = "Delivered" /\ t = Root
    \/ e \notin {"Paused", "Cancelled"} /\ tasks[t].state \in {"Queued"} \cup WaitingStates

\* The final event of a worker reaches its task, or it was drained together with
\* an event that is refused: once it is posted, the task becomes terminal or its
\* handle goes, as when it pauses, or the pass that took it may be aborted by one
\* of the Refusable events, its own or that of another task, and then it is lost
\* (NoStrandedTask).
PostedEventTakesEffect ==
    \A t \in Task :
        HasWorker(t) /\ worker[t].event \in FinalEvents /\ IsLive(tasks[t])
        ~> \/ t \notin LiveIn(tasks, Task) \/ ~HasWorker(t)
           \/ /\ \E e \in FinalEvents : <<t, e>> \in pass.pending
              /\ \E p \in pass.pending : Refusable(p[1], p[2])

-----------------------------------------------------------------------------
(* Claims of the code's comments that its behaviours contradict.           *)

\* "enforce the tree invariant: a task in a settled terminal state must not
\* leave live descendants behind" (settle_terminal)
NoLiveTaskUnderSettled ==
    \A a \in Task : Exists(a) /\ IsSettled(tasks[a]) =>
        LiveIn(tasks, Descendants(a)) = {}

\* "The handles are removed so no provider/tool work can be replayed by this
\* process after shutdown begins" (interrupt_unacknowledged_workers)
InterruptRemovesEveryHandle ==
    [][InterruptUnacknowledgedWorkers => \A t \in Task : worker'[t] = NoWorker]_vars

\* A refused event must not "abort the whole reconciliation pass (which would
\* strand the child in `running' forever and starve every other task in the
\* same pass)" (reconcile_worker_events)
NoStrandedTask ==
    Unlocked => \A t \in Task :
        HasWorker(t) /\ worker[t].event = "Taken" => IsTerminal(tasks[t])

=============================================================================
