---------------------------- MODULE TaskRuntime ----------------------------
(***************************************************************************)
(* The runtime coordinator of the daemon (yi-agent-store/src/runtime.rs)   *)
(* for one session: the supervisor in memory, the rows of the database     *)
(* (repository.rs), and the threads that keep the second in step with the  *)
(* first.  A transaction is one step.  An operation that drops the         *)
(* supervisor's lock before it writes is two steps: its second half waits  *)
(* in `half', or in `batch' for what a reconciliation pass collected.  The *)
(* process may die at any moment; the boot sequence of ipc.rs then works   *)
(* on the rows alone.                                                      *)
(*                                                                         *)
(* The session's root is an application root: its turns run in a client    *)
(* process, so it owns no worker until it is recovered.                    *)
(***************************************************************************)
EXTENDS AgentSupervisor, Integers

CONSTANTS
    NoRow,          \* a task without a row
    MaxCrashes,     \* bound: how often the daemon dies
    MaxHalf,        \* bound: operations between their two locks at a time
    Reopened        \* bound: the tasks that are ever retried or recovered

VARIABLES
    power,          \* the daemon: "up", "down", a stage of its boot, "refused"
    crashes,
    draining,       \* begin_draining was called
    row,            \* the tasks table, joined with the active attempt
    leaseRow,       \* [Task -> the kinds of active rows in resource_leases]
    attachment,     \* application_root_attachments: "attached" or "detached"
    resident,       \* memory: the tasks that hold a resident lease
    gate,           \* memory: recovery_contexts
    batch,          \* what the last pass collected and has not written yet
    half,           \* operations between their two locks
    astray          \* history: tasks whose row an overtaken write set or missed,
                    \* or whose resident lease an operation that failed kept

store  == <<row, leaseRow, attachment>>
memory == <<draining, resident, gate, batch, half>>
runtimeVars == <<vars, power, crashes, store, memory, astray>>

RowStates   == TaskStates \cup {"RecoveryGated", "RecoveryAttested"}
RecoveryRows == {"RecoveryRequired", "RecoveryGated", "RecoveryAttested"}
InFlight    == {"Running"} \cup WaitingStates

\* `context': the task was started once, so it names a workspace lease
Row == [state : RowStates, attempt : Nat \ {0}, parent : Task \cup {NoTask}, context : BOOLEAN]

ASSUME NoRowAssumption == NoRow \notin Row
ASSUME RuntimeBoundAssumption ==
    MaxCrashes \in Nat /\ MaxHalf \in Nat /\ Reopened \subseteq Task

NewRow(p) == [state |-> "Queued", attempt |-> 1, parent |-> p, context |-> FALSE]

LeaseKind == {"resident", "workspace"}

\* A state collected by a pass, written under the attempt it was true of.
Write == [task : Task, attempt : Nat, state : TaskStates]

Half == [op : {"spawn", "start", "retry", "resume", "recover", "activate", "detach"},
         task : Task, attempt : Nat]

HasRow(t)   == row[t] # NoRow
Matches(t, attempt) == HasRow(t) /\ row[t].attempt = attempt

\* Mutant of Settles: recovery_required counts as settled.
SettlesWithRecovery(s) == s \in TerminalStates

\* SETTLED_TASK_STATES
Settles(s) == s \in SettledStates

RuntimeInit ==
    /\ Init
    /\ power = "up" /\ crashes = 0 /\ draining = FALSE
    /\ row        = [t \in Task |-> IF t = Root THEN NewRow(NoTask) ELSE NoRow]
    /\ leaseRow   = [t \in Task |-> {}]
    /\ attachment = "attached"
    /\ resident = {} /\ batch = {} /\ half = {} /\ astray = {}
    /\ gate = [t \in Task |-> "none"]

-----------------------------------------------------------------------------
(* Transactions.                                                           *)

\* transition_task_and_attempt, with or without a terminal report: every task
\* of S goes to state s, and one that settles gives its lease rows back
Set(S, s) ==
    /\ row' = [t \in Task |-> IF t \in S /\ HasRow(t) THEN [row[t] EXCEPT !.state = s]
                              ELSE row[t]]
    /\ leaseRow' = [t \in Task |-> IF t \in S /\ HasRow(t) /\ Settles(s) THEN {}
                                   ELSE leaseRow[t]]

\* Mutant of PersistSettled: what the victims of the cascade held stays held.
PersistSettledKeepsLeases(t, s) ==
    LET victims == {d \in Task : d # t /\ tasks'[d] # tasks[d] /\ HasRow(d)}
    IN  /\ row' = [d \in Task |->
                     CASE d = t /\ HasRow(d) -> [row[d] EXCEPT !.state = s]
                       [] d \in victims      -> [row[d] EXCEPT !.state = "Cancelled"]
                       [] OTHER              -> row[d]]
        /\ leaseRow' = [leaseRow EXCEPT ![t] = {}]
        /\ resident' = resident \ {t}
        /\ UNCHANGED astray

\* Mutant of PersistSettled: the victims of the cascade are not written.
PersistSettledAlone(t, s) ==
    Set({t}, s) /\ resident' = resident \ {t} /\ UNCHANGED astray

\* What follows a step that settled t and cascaded: t's row, the rows of the
\* other tasks the step ended (persist_cascaded_tasks), and their leases.  The
\* row of a victim is written whichever attempt it shows.
PersistSettled(t, s) ==
    LET victims == {d \in Task : d # t /\ tasks'[d] # tasks[d]}
    IN  /\ row' = [d \in Task |->
                     CASE d = t /\ HasRow(d)           -> [row[d] EXCEPT !.state = s]
                       [] d \in victims /\ HasRow(d)   -> [row[d] EXCEPT !.state = "Cancelled"]
                       [] OTHER                        -> row[d]]
        /\ leaseRow' = [d \in Task |-> IF d \in victims \cup {t} /\ HasRow(d) THEN {}
                                       ELSE leaseRow[d]]
        /\ resident' = resident \ (victims \cup {t})
        /\ astray' = astray \cup {d \in victims : ~Matches(d, tasks[d].attempt)}

\* activate_successor_attempt, whatever the row says
Activate(t, attempt, s) ==
    row' = [row EXCEPT ![t].state = s, ![t].attempt = attempt]

\* The tasks a step of the supervisor moved.
Changed == {t \in Task : tasks'[t] # tasks[t]}

Up == power = "up"

\* Bound: another operation may drop its first lock.  None does once a write
\* went astray: what follows is left to the operations under way and to a boot.
Room == Cardinality(half) < MaxHalf /\ astray = {}

Alone == UNCHANGED <<power, crashes, attachment>>

-----------------------------------------------------------------------------
(* Spawning, starting, and the operations of clients.                      *)

\* spawn_child_with_objective, up to the end of the supervisor's lock
SpawnChild(p, c) ==
    /\ Up /\ ~draining /\ Room
    /\ HasRow(p) /\ ~Settles(row[p].state) /\ ~HasRow(c)
    /\ Spawn(p, c)
    /\ half' = half \cup {[op |-> "spawn", task |-> c, attempt |-> 1]}
    /\ UNCHANGED <<row, leaseRow, draining, resident, gate, batch, astray>> /\ Alone

\* start_worker is waiting for the supervisor's lock.
Starting(t) == [op |-> "start", task |-> t, attempt |-> 0]

\* ... and create_child_task_with_attempt_and_objective.  A cascade in between
\* found no row to cancel.
InsertChild(h) ==
    /\ Up /\ h \in half /\ h.op = "spawn"
    /\ row' = [row EXCEPT ![h.task] = NewRow(parent[h.task])]
    /\ half' = (half \ {h}) \cup {Starting(h.task)}
    /\ astray' = IF tasks[h.task] = NewTask THEN astray ELSE astray \cup {h.task}
    /\ UNCHANGED <<vars, leaseRow, draining, resident, gate, batch>> /\ Alone

\* start_worker has the lock, past every check that refuses without an effect.
\* The resident lease is granted; that it may be refused is ResourceCoordinator's.
Startable(h) ==
    /\ Up /\ Unlocked /\ h \in half /\ h.op = "start" /\ ~draining
    /\ ~HasWorker(h.task) /\ gate[h.task] # "required"
    /\ half' = half \ {h}

\* A root takes no resident lease.
Admit(S)  == S \ {Root}

\* The row is what the start expects: of the same attempt and, at a recovery
\* gate, the gated one that attest_recovery_gate asks for.
RowReady(t) ==
    Matches(t, tasks[t].attempt) /\ (gate[t] = "gated" => row[t].state = "RecoveryGated")

\* start_worker: the row says "running", with its leases, then the worker runs
StartChild(h) ==
    LET t == h.task IN
    /\ Startable(h) /\ RowReady(t)
    /\ StartWorker(t)
    /\ row' = [row EXCEPT ![t].state = "Running", ![t].context = TRUE]
    /\ leaseRow' = [leaseRow EXCEPT ![t] = IF t = Root THEN {"workspace"} ELSE LeaseKind]
    /\ resident' = resident \cup Admit({t})
    /\ gate' = [gate EXCEPT ![t] = "none"]
    /\ UNCHANGED <<draining, batch, astray>> /\ Alone

\* start_worker: the factory fails, after the row said "running"
StartChildFails(h) ==
    /\ Startable(h) /\ RowReady(h.task)
    /\ StartWorkerFails(h.task)
    /\ PersistSettled(h.task, "Failed")
    /\ gate' = [gate EXCEPT ![h.task] = "none"]
    /\ UNCHANGED <<draining, batch>> /\ Alone

\* start_worker: the position is not usable.  The row is failed first; a queued
\* task cannot fail, and stays queued.
StartUnprovisioned(h) ==
    LET t == h.task
        a == Applied(t, Event("WorkerFailed", tasks[t]))
    IN  /\ Startable(h) /\ Matches(t, tasks[t].attempt)
        /\ tasks' = a.tasks /\ worker' = CancelWorkers(a.victims)
        /\ UNCHANGED <<parent, depth, report, pass, strays>>
        /\ IF a.ok THEN PersistSettled(t, "Failed")
           ELSE Set({t}, "Failed") /\ UNCHANGED resident /\ astray' = astray \cup {t}
        /\ UNCHANGED <<draining, gate, batch>> /\ Alone

\* start_worker on a task that is no longer queued: the supervisor refuses after
\* the row said "running", and the row is failed while the task stays as it was
StartRefused(h) ==
    LET t == h.task IN
    /\ Startable(h) /\ RowReady(t)
    /\ ~Applied(t, Event("AdmissionGranted", tasks[t])).ok
    /\ Set({t}, "Failed")
    /\ resident' = resident \ {t}
    /\ gate' = [gate EXCEPT ![t] = "none"]
    /\ astray' = astray \cup {t}
    /\ UNCHANGED <<vars, draining, batch>> /\ Alone

\* start_worker finds another row than it needs: nothing is written, and at a
\* recovery gate the resident lease stays
StartMissed(h) ==
    LET t == h.task IN
    /\ Startable(h) /\ ~RowReady(t)
    /\ resident' = IF gate[t] = "gated" THEN resident \cup Admit({t}) ELSE resident \ {t}
    /\ astray' = IF gate[t] = "gated" THEN astray \cup {t} ELSE astray
    /\ UNCHANGED <<vars, row, leaseRow, draining, gate, batch>> /\ Alone

\* start_worker is refused without an effect.
StartDenied(h) ==
    /\ Up /\ Unlocked /\ h \in half /\ h.op = "start"
    /\ draining \/ HasWorker(h.task) \/ gate[h.task] = "required"
    /\ half' = half \ {h}
    /\ UNCHANGED <<vars, row, leaseRow, draining, resident, gate, batch, astray>> /\ Alone

\* start_worker finds that the workspace changed since the checkpoint
StartConflicts(h) ==
    LET t == h.task IN
    /\ Startable(h) /\ gate[t] = "gated"
    /\ RecordRecoveryConflict(t)
    /\ IF Matches(t, tasks[t].attempt)
       THEN PersistSettled(t, "Blocked") /\ gate' = [gate EXCEPT ![t] = "none"]
       ELSE /\ resident' = resident \cup Admit({t}) /\ astray' = astray \cup Changed
            /\ UNCHANGED <<row, leaseRow, gate>>
    /\ UNCHANGED <<draining, batch>> /\ Alone

\* A loop that writes the rows of S in any order and ends at the first one that
\* belongs to another attempt: what it has written by then.
Writable(S) ==
    LET bad == {d \in S : ~Matches(d, tasks[d].attempt)}
    IN  IF bad = {} THEN {S} ELSE SUBSET (S \ bad)

\* cancel_task, under the supervisor's and the repository's lock
CancelTask(t, recursive) ==
    /\ Up /\ CancelTaskTree(t, recursive)
    /\ \E written \in Writable(Changed) :
          /\ Set(written, "Cancelled")
          /\ resident' = resident \ written
          /\ astray' = astray \cup (Changed \ written)
    /\ UNCHANGED <<draining, gate, batch, half>> /\ Alone

\* pause_task: the row follows when the worker has paused
Pause(t) ==
    /\ Up /\ PauseTask(t)
    /\ UNCHANGED <<row, leaseRow, memory, astray>> /\ Alone

\* resume_task of a paused task, first half
Resume(t) ==
    /\ Up /\ ~draining /\ Room /\ gate[t] \notin {"gated", "attested"}
    /\ Exists(t) /\ tasks[t].state # "RecoveryRequired"
    /\ ResumeTask(t)
    /\ half' = half \cup {[op |-> "resume", task |-> t, attempt |-> tasks[t].attempt]}
    /\ UNCHANGED <<row, leaseRow, draining, resident, gate, batch, astray>> /\ Alone

\* ... and transition_task, which looks neither at the state nor the attempt
ResumeRow(h) ==
    /\ Up /\ h \in half /\ h.op = "resume" /\ HasRow(h.task)
    /\ row' = [row EXCEPT ![h.task].state = "Queued"]
    /\ half' = (half \ {h}) \cup {Starting(h.task)}
    /\ astray' = IF tasks[h.task].state = "Queued" /\ Matches(h.task, tasks[h.task].attempt)
                 THEN astray \ {h.task} ELSE astray \cup {h.task}
    /\ UNCHANGED <<vars, leaseRow, draining, resident, gate, batch>> /\ Alone

\* resume_task of a task that was prepared before: only the worker is started
ResumePrepared(t) ==
    /\ Up /\ ~draining /\ Room /\ Exists(t) /\ gate[t] \in {"gated", "attested"}
    /\ half' = half \cup {Starting(t)}
    /\ UNCHANGED <<vars, row, leaseRow, draining, resident, gate, batch, astray>> /\ Alone

\* retry_task, and resume_task across a recovery boundary: the successor
\* attempt is opened in memory
Reopen(t) ==
    /\ Up /\ ~draining /\ Room /\ t \in Reopened
    /\ RetryTask(t)
    /\ \E op \in {"retry", "recover"} :
          /\ op = "recover" => tasks[t].state = "RecoveryRequired"
                               /\ gate[t] \notin {"gated", "attested"}
          /\ half' = half \cup {[op |-> op, task |-> t, attempt |-> tasks[t].attempt + 1]}
    /\ UNCHANGED <<row, leaseRow, draining, resident, gate, batch, astray>> /\ Alone

\* ... and in the database
ReopenRow(h) ==
    /\ Up /\ h \in half /\ h.op \in {"retry", "recover"} /\ HasRow(h.task)
    /\ Activate(h.task, h.attempt, IF h.op = "recover" THEN "RecoveryGated" ELSE "Queued")
    /\ gate' = IF h.op = "recover" THEN [gate EXCEPT ![h.task] = "gated"] ELSE gate
    /\ half' = (half \ {h}) \cup {Starting(h.task)}
    /\ astray' = IF tasks[h.task].state = "Queued" /\ tasks[h.task].attempt = h.attempt
                 THEN astray \ {h.task} ELSE astray \cup {h.task}
    /\ UNCHANGED <<vars, leaseRow, draining, resident, batch>> /\ Alone

\* Either finds no row: the child was reopened before its row was inserted.
RowMissing(h) ==
    /\ Up /\ h \in half /\ h.op \in {"resume", "retry", "recover"} /\ ~HasRow(h.task)
    /\ half' = half \ {h}
    /\ astray' = astray \cup {h.task}
    /\ UNCHANGED <<vars, row, leaseRow, draining, resident, gate, batch>> /\ Alone

\* evaluate_watchdogs and record_watchdog_terminal: the row decides, and its
\* transaction comes first
WatchdogFires(t, kind) ==
    /\ Up /\ Exists(t) /\ Matches(t, tasks[t].attempt)
    /\ row[t].state \in {"Queued"} \cup InFlight
    /\ Watchdog(t, kind)
    /\ IF Applied(t, Event(kind, tasks[t])).ok
       THEN PersistSettled(t, Target(kind))
       ELSE Set({t}, Target(kind)) /\ UNCHANGED resident /\ astray' = astray \cup {t}
    /\ UNCHANGED <<draining, gate, batch, half>> /\ Alone

-----------------------------------------------------------------------------
(* Reconciliation.                                                         *)

\* The worker's events are applied under the supervisor's lock; nothing is
\* written yet.  A pass that is aborted forgets what it changed.
ReconcileStep ==
    /\ Up /\ (pass.active \/ batch = {})
    /\ \/ /\ \/ ReconcileBegin
             \/ \E t \in Task, e \in FinalEvents : ReconcileSkip(t, e) \/ ReconcileApply(t, e)
          /\ UNCHANGED <<batch, astray>>
       \/ /\ \E t \in Task, e \in FinalEvents : ReconcileAbort(t, e)
          /\ astray' = astray \cup pass.changed
          /\ UNCHANGED batch
       \/ /\ ReconcileReturn
          /\ batch' = {[task |-> t, attempt |-> tasks[t].attempt, state |-> tasks[t].state]
                         : t \in pass.changed}
          /\ UNCHANGED astray
    /\ UNCHANGED <<row, leaseRow, draining, resident, gate, half>> /\ Alone

\* A collected transition is written: the attempt is compared, the state the
\* task has by now is not.  The resident lease goes with it.
Persist(w) ==
    /\ Up /\ w \in batch /\ Matches(w.task, w.attempt)
    /\ Set({w.task}, w.state)
    /\ resident' = resident \ {w.task}
    /\ batch' = batch \ {w}
    /\ astray' = IF tasks[w.task].state = w.state THEN astray ELSE astray \cup {w.task}
    /\ UNCHANGED <<vars, draining, gate, half>> /\ Alone

\* A write that is refused ends the loop: the rest of the batch is forgotten.
PersistStops(w) ==
    /\ Up /\ w \in batch /\ ~Matches(w.task, w.attempt)
    /\ batch' = {}
    /\ astray' = astray \cup {u.task : u \in batch}
    /\ UNCHANGED <<vars, row, leaseRow, draining, resident, gate, half>> /\ Alone

-----------------------------------------------------------------------------
(* The application root.                                                   *)

\* activate_application_root is waiting for the supervisor's lock.
Activating == [op |-> "activate", task |-> Root, attempt |-> 0]

\* activate_application_root: a queued row goes first, with no lock of the
\* supervisor (activate_application_root_once)
ActivateRow ==
    /\ Up /\ Exists(Root) /\ attachment = "attached"
    /\ Matches(Root, tasks[Root].attempt) /\ row[Root].state = "Queued"
    /\ Set({Root}, "Running")
    /\ half' = half \cup {Activating}
    /\ UNCHANGED <<vars, draining, resident, gate, batch, astray>> /\ Alone

\* ... and the root is moved under its lock, whatever happened to it meanwhile.
\* A row that was not queued is looked at, and written, under that lock.
Activated ==
    \/ /\ Activating \in half /\ half' = half \ {Activating}
       /\ UNCHANGED <<row, leaseRow>>
    \/ /\ attachment = "attached" /\ Matches(Root, tasks[Root].attempt)
       /\ row[Root].state \in {"Paused", "Running"}
       /\ Set({Root}, "Running")
       /\ UNCHANGED half

\* sync_foreground_root_running moves a queued or a paused root
ActivateRoot ==
    /\ Up /\ Unlocked /\ Exists(Root) /\ Activated
    /\ \/ tasks[Root].state = "Queued" /\ StartForegroundRoot
       \/ tasks[Root].state \in {"Running"} \cup WaitingStates /\ UNCHANGED vars
       \/ IsTerminal(tasks[Root]) /\ UNCHANGED vars
       \/ /\ tasks[Root].state = "Paused"
          /\ tasks' = [tasks EXCEPT ![Root].state = "Running", ![Root].pauseRequest = FALSE]
          /\ UNCHANGED <<parent, depth, worker, report, pass, strays>>
    /\ astray' = IF Matches(Root, tasks[Root].attempt) /\ row'[Root].state = tasks'[Root].state
                 THEN astray \ {Root} ELSE astray \cup {Root}
    /\ UNCHANGED <<draining, resident, gate, batch>> /\ Alone

\* detach_application_root, first half: the pause is requested, not taken
DetachRoot ==
    /\ Up /\ Room /\ Unlocked /\ Exists(Root) /\ attachment = "attached"
    /\ \/ PauseForegroundTask
       \/ tasks[Root].state = "Paused" /\ UNCHANGED vars
    /\ half' = half \cup {[op |-> "detach", task |-> Root, attempt |-> tasks[Root].attempt]}
    /\ UNCHANGED <<row, leaseRow, draining, resident, gate, batch, astray>> /\ Alone

\* The root is as that pause left it.
Pausing(h) ==
    /\ tasks[Root].attempt = h.attempt /\ IsLive(tasks[Root])
    /\ tasks[Root].pauseRequest \/ tasks[Root].state = "Paused"

\* ... and the row of the root, paused whatever it said, then the attachment: two
\* transactions, with the repository locked from the first to the second
DetachRow(h) ==
    /\ Up /\ h \in half /\ h.op = "detach"
    /\ half' = half \ {h}
    /\ IF Matches(Root, h.attempt)
       THEN /\ Set({Root}, "Paused") /\ attachment' = "detached"
            /\ astray' = IF Pausing(h) THEN astray ELSE astray \cup {Root}
       ELSE UNCHANGED <<row, leaseRow, attachment, astray>>
    /\ UNCHANGED <<vars, power, crashes, draining, resident, gate, batch>>

\* hydrated_application_root_state: what a row is read back as
Hydrated(s) ==
    CASE s \in {"Queued"} \cup InFlight -> "Queued"
      [] s \in RecoveryRows             -> "RecoveryRequired"
      [] OTHER                          -> s

\* A task of memory made from its row, in state s.
FromRow(t, s) ==
    [state |-> s, attempt |-> row[t].attempt, ended |-> s \in TerminalStates,
     delivered |-> s = "Completed", pauseRequest |-> FALSE, wait |-> NoRequest]

\* The tree of the tasks in S, as memory holds it.
TreeOf(S) ==
    /\ parent' = [t \in Task |-> IF t \in S THEN row[t].parent ELSE NoTask]
    /\ depth'  = [t \in Task |->
                    IF t \notin S \/ row[t].parent = NoTask THEN 0
                    ELSE IF row[row[t].parent].parent = NoTask THEN 1 ELSE 2]

\* attach_application_root by the key of an existing root.  A session this
\* process does not know is read back whole (ensure_application_root_supervisor).
AttachRoot ==
    /\ Up /\ Unlocked /\ ~draining
    /\ attachment = "detached" \/ ~Exists(Root)
    /\ attachment' = "attached"
    /\ IF Exists(Root) THEN UNCHANGED vars
       ELSE /\ tasks' = [t \in Task |-> IF HasRow(t) THEN FromRow(t, Hydrated(row[t].state))
                                        ELSE NoTask]
            /\ report' = [t \in Task |-> IF HasRow(t) /\ row[t].state = "CompletedNoChanges"
                                         THEN row[t].attempt ELSE 0]
            /\ TreeOf({t \in Task : HasRow(t)})
            /\ UNCHANGED <<worker, pass, strays>>
    /\ UNCHANGED <<power, crashes, row, leaseRow, memory, astray>>

-----------------------------------------------------------------------------
(* Draining, death and boot.                                               *)

\* begin_draining and request_safe_checkpoints
Drain ==
    /\ Up /\ ~draining /\ Unlocked
    /\ draining' = TRUE
    /\ \/ RequestSafeCheckpoints
       \/ (\A t \in Task : ~HasWorker(t)) /\ UNCHANGED vars
    /\ UNCHANGED <<row, leaseRow, resident, gate, batch, half, astray>> /\ Alone

\* interrupt_unacknowledged_workers.  A refusal returns before any row is
\* written; the first row of another attempt ends the loop that writes them.
InterruptWorkers ==
    LET handles == {t \in Task : HasWorker(t)}
        refused == {t \in handles : ~Interrupted(t).ok}
    IN  /\ Up /\ draining /\ InterruptUnacknowledgedWorkers
        /\ \E written \in (IF refused = {} THEN Writable(handles) ELSE {{}}) :
              /\ Set(written, "RecoveryRequired")
              /\ resident' = resident \ written
              /\ astray' = astray \cup (Changed \ written)
        /\ UNCHANGED <<draining, gate, batch, half>> /\ Alone

\* Bound: the daemon dies, and once more while a recovery is under way.
MayDie == crashes < MaxCrashes /\ (crashes = 0 \/ \E t \in Reopened : gate[t] = "gated")

\* What dies with the process; `left' is the task whose row it has just overwritten.
MemoryLost(left) ==
    /\ MayDie
    /\ power' = "down" /\ crashes' = crashes + 1
    /\ tasks'  = [t \in Task |-> NoTask]
    /\ parent' = [t \in Task |-> NoTask]
    /\ depth'  = [t \in Task |-> 0]
    /\ worker' = [t \in Task |-> NoWorker]
    /\ report' = [t \in Task |-> 0]
    /\ pass' = NoPass /\ strays' = {}
    /\ draining' = FALSE /\ resident' = {} /\ batch' = {} /\ half' = {}
    /\ gate' = [t \in Task |-> "none"]
    /\ astray' = left

\* The process dies, or a stop has run its course: only the rows are left.
Crash ==
    /\ power \in {"up", "swept", "reclaimed"}
    /\ MemoryLost({})
    /\ UNCHANGED store

\* It dies in start_worker, between attest_recovery_gate and the row's "running".
CrashAttested(h) ==
    /\ Up /\ Unlocked /\ h \in half /\ h.op = "start" /\ ~draining
    /\ ~HasWorker(h.task) /\ gate[h.task] = "gated" /\ RowReady(h.task)
    /\ row' = [row EXCEPT ![h.task].state = "RecoveryAttested"]
    /\ MemoryLost({})
    /\ UNCHANGED <<leaseRow, attachment>>

\* It dies in detach_application_root, between its two transactions.
CrashDetaching(h) ==
    /\ Up /\ h \in half /\ h.op = "detach" /\ Matches(Root, h.attempt)
    /\ Set({Root}, "Paused")
    /\ MemoryLost(IF Pausing(h) THEN {} ELSE {Root})
    /\ UNCHANGED attachment

\* recover_inflight_tasks, which also frees every lease row of the process
RecoverInflight ==
    /\ power = "down" /\ power' = "swept"
    /\ row' = [t \in Task |-> IF HasRow(t) /\ row[t].state \in InFlight
                              THEN [row[t] EXCEPT !.state = "RecoveryRequired"] ELSE row[t]]
    /\ leaseRow' = [t \in Task |-> leaseRow[t] \ {"resident"}]
    /\ UNCHANGED <<vars, crashes, attachment, memory, astray>>

\* Mutant of Orphans: the states of a detached root's rows are not looked at.
OrphansSettledToo ==
    {t \in Task :
        /\ attachment = "detached" /\ HasRow(t)
        /\ row[t].state = "RecoveryRequired" => ~row[t].context}

\* reclaim_orphaned_tasks: live rows of a root that has detached, and recovery
\* rows with nothing to recover from
Orphans ==
    {t \in Task :
        /\ attachment = "detached" /\ HasRow(t)
        /\ ~Settles(row[t].state)
        /\ row[t].state = "RecoveryRequired" => ~row[t].context}

Reclaim ==
    /\ power = "swept" /\ power' = "reclaimed"
    /\ Set(Orphans, "Cancelled")
    /\ UNCHANGED <<vars, crashes, attachment, memory, astray>>

Recovered == {t \in Task : HasRow(t) /\ row[t].state \in RecoveryRows}

Orphaned(t) == row[t].parent # NoTask /\ row[t].parent \notin Recovered

\* release_leases_of_settled_tasks and RuntimeCoordinator::open
Open ==
    /\ power = "reclaimed"
    /\ leaseRow' = [t \in Task |-> IF HasRow(t) /\ Settles(row[t].state) THEN {} ELSE leaseRow[t]]
    /\ IF \E t \in Recovered : Orphaned(t)
       THEN /\ power' = "refused"
            /\ UNCHANGED <<vars, memory, astray>>
       ELSE /\ power' = "up"
            /\ tasks' = [t \in Task |->
                  IF t \notin Recovered THEN NoTask
                  ELSE IF row[t].state = "RecoveryRequired" THEN FromRow(t, "RecoveryRequired")
                  ELSE FromRow(t, "Queued")]
            /\ TreeOf(Recovered)
            /\ gate' = [t \in Task |->
                  IF t \notin Recovered THEN "none"
                  ELSE CASE row[t].state = "RecoveryRequired" -> "required"
                         [] row[t].state = "RecoveryGated"    -> "gated"
                         [] OTHER                             -> "attested"]
            /\ UNCHANGED astray
            /\ UNCHANGED <<worker, report, pass, strays, draining, resident, batch, half>>
    /\ UNCHANGED <<crashes, row, attachment>>

-----------------------------------------------------------------------------
Client ==
    \/ \E p, c \in Task : SpawnChild(p, c)
    \/ \E h \in half : StartChild(h) \/ StartChildFails(h) \/ StartUnprovisioned(h)
    \/ \E h \in half : StartRefused(h) \/ StartMissed(h) \/ StartDenied(h)
    \/ \E h \in half : StartConflicts(h)
    \/ \E t \in Task, recursive \in BOOLEAN : CancelTask(t, recursive)
    \/ \E t \in Task : Pause(t) \/ Resume(t) \/ ResumePrepared(t) \/ Reopen(t)
    \/ \E h \in half : InsertChild(h) \/ ResumeRow(h) \/ ReopenRow(h) \/ RowMissing(h)
    \/ \E h \in half : DetachRow(h)
    \/ ActivateRow \/ ActivateRoot \/ DetachRoot \/ AttachRoot

Daemon ==
    \/ ReconcileStep
    \/ \E w \in batch : Persist(w) \/ PersistStops(w)
    \/ \E t \in Task, kind \in WatchdogKinds : WatchdogFires(t, kind)
    \/ Drain \/ InterruptWorkers
    \/ RecoverInflight \/ Reclaim \/ Open

WorkerPosts ==
    /\ Up /\ \E t \in Task, e \in WorkerReports : WorkerReport(t, e)
    /\ UNCHANGED <<power, crashes, store, memory, astray>>

RuntimeNext ==
    \/ Client \/ Daemon \/ WorkerPosts \/ Crash
    \/ \E h \in half : CrashAttested(h) \/ CrashDetaching(h)

RuntimeSpec == RuntimeInit /\ [][RuntimeNext]_runtimeVars

-----------------------------------------------------------------------------
(* Properties.                                                             *)

RuntimeTypeOK ==
    /\ TypeOK
    /\ power \in {"up", "down", "swept", "reclaimed", "refused"}
    /\ crashes \in 0 .. MaxCrashes /\ draining \in BOOLEAN
    /\ row \in [Task -> Row \cup {NoRow}]
    /\ leaseRow \in [Task -> SUBSET LeaseKind]
    /\ attachment \in {"attached", "detached"}
    /\ resident \subseteq Task /\ astray \subseteq Task
    /\ gate \in [Task -> {"none", "required", "gated", "attested"}]
    /\ batch \subseteq Write /\ half \subseteq Half

\* Nothing on its way to the row of t.
Quiet(t) ==
    /\ Up /\ Exists(t) /\ t \notin astray
    /\ t \notin pass.changed
    /\ \A w \in batch : w.task # t
    /\ \A h \in half : h.task # t

\* The row of a task says what memory says, cascades included, whenever no
\* write of it is on its way: only writes that something overtook, or that
\* another one stopped, leave it astray.  What a restart reads is then what was.
RowFollowsMemory ==
    \A t \in Task : Quiet(t) =>
        /\ HasRow(t) /\ row[t].attempt = tasks[t].attempt
        /\ \/ row[t].state = tasks[t].state
           \/ row[t].state \in {"RecoveryGated", "RecoveryAttested"}
                /\ tasks[t].state = "Queued"
           \/ t = Root /\ row[t].state = "Paused" /\ tasks[t].pauseRequest

\* A resident lease is held for every worker, and none for a task that settled
\* or paused; nor does a settled row keep a lease row.
LeasesFollowWorkers ==
    \A t \in Task \ {Root} : Quiet(t) =>
        /\ HasWorker(t) /\ IsLive(tasks[t]) => t \in resident
        /\ IsSettled(tasks[t]) \/ tasks[t].state = "Paused" => t \notin resident
        /\ IsSettled(tasks[t]) => leaseRow[t] = {}

\* A child that can be resumed across a restart still has the lease row of its
\* workspace, which a resume needs (release_leases_of_settled_tasks).
RecoverableKeepsWorkspace ==
    \A t \in Task \ {Root} : HasRow(t) /\ row[t].state = "RecoveryRequired" /\ row[t].context
        => "workspace" \in leaseRow[t]

\* A durable outcome is changed only by an overtaken write, or for a new
\* attempt: neither a boot nor a client brings a settled row back to life.
OutcomeIsDurable ==
    [][\A t \in Task :
         /\ HasRow(t) /\ Settles(row[t].state) /\ row'[t].attempt = row[t].attempt
         /\ row'[t].state # row[t].state
         => t \in astray \cup astray']_runtimeVars

\* "After an unexpected stop/restart, running attempts become
\* `RecoveryRequired'" (subagent-architecture-design.md), so a daemon that died
\* comes up again, at least when the root of what ran had begun to work.
BootSucceeds == power = "refused" => row[Root].state = "Queued"
=============================================================================
