----------------------------- MODULE AgentTask -----------------------------
(***************************************************************************)
(* The task reducer of yi-agent-core/src/subagent/task.rs: the states of a *)
(* supervised agent task, the edges between them, and what each event does *)
(* to the task and to its active attempt.  The module has no variables;    *)
(* AgentSupervisor and the modules above it apply `Reduce' to their tasks. *)
(*                                                                         *)
(* Payloads (reasons, evidence, reports) are dropped.  An attempt is its   *)
(* number: ids are fresh, and only the active attempt is ever read back.   *)
(***************************************************************************)
EXTENDS Naturals

CONSTANTS
    Requests,       \* identifiers a wait for a permission or a resource carries
    NoRequest       \* the wait of a task that waits for neither

ASSUME NoRequestAssumption == NoRequest \notin Requests

WaitingStates ==
    {"WaitingForResource", "WaitingForPermission", "WaitingForChildren"}

LiveStates == {"Queued", "Running", "Paused"} \cup WaitingStates

\* classify_terminal: the terminals that end a task's subtree with it
SettledStates ==
    {"Completed", "CompletedNoChanges", "Blocked", "Stalled", "TimedOut",
     "BudgetExhausted", "Failed", "Cancelled"}

TerminalStates == SettledStates \cup {"RecoveryRequired"}

TaskStates == LiveStates \cup TerminalStates

WatchdogStates == {"Stalled", "TimedOut", "BudgetExhausted"}

\* Mutant of Successors: a watchdog may still stall what already finished.
SuccessorsLateWatchdog(state) ==
    CASE state = "Queued"  -> {"Running", "Paused", "Cancelled"} \cup WatchdogStates
      [] state = "Running" -> WaitingStates \cup {"Paused"} \cup TerminalStates
      [] state = "Paused"  -> {"Queued", "Cancelled", "RecoveryRequired"}
      [] OTHER -> {"Queued", "Paused", "Cancelled", "RecoveryRequired"} \cup WatchdogStates

\* can_transition_to: the states that may follow each state
Successors(state) ==
    CASE state = "Queued"  -> {"Running", "Paused", "Cancelled"} \cup WatchdogStates
      [] state = "Running" -> WaitingStates \cup {"Paused"} \cup TerminalStates
      [] state = "Paused"  -> {"Queued", "Cancelled", "RecoveryRequired"}
      [] state \in WaitingStates ->
             {"Queued", "Paused", "Cancelled", "RecoveryRequired"} \cup WatchdogStates
      [] OTHER -> {}

-----------------------------------------------------------------------------
(* The task: its state, its active attempt, and the requests it carries.   *)

AgentTask ==
    [state        : TaskStates,
     attempt      : Nat \ {0},             \* number of the active attempt
     ended        : BOOLEAN,               \* the active attempt has an end time
     delivered    : BOOLEAN,               \* ... and a delivery report
     pauseRequest : BOOLEAN,
     wait         : Requests \cup {NoRequest}]

\* Mutant of NewTask: attempts counted from zero.
NewTaskFromZero ==
    [state |-> "Queued", attempt |-> 0, ended |-> FALSE, delivered |-> FALSE,
     pauseRequest |-> FALSE, wait |-> NoRequest]

\* new_root and new_child: queued, with an open first attempt
NewTask ==
    [state |-> "Queued", attempt |-> 1, ended |-> FALSE, delivered |-> FALSE,
     pauseRequest |-> FALSE, wait |-> NoRequest]

IsTerminal(task) == task.state \in TerminalStates
IsSettled(task)  == task.state \in SettledStates
IsLive(task)     == task.state \in LiveStates

\* What a reducer call returns: whether it succeeded, and the task it leaves.
Accepted(task) == [ok |-> TRUE,  task |-> task]
Rejected(task) == [ok |-> FALSE, task |-> task]

\* transition: entering a terminal state ends the attempt and forgets the pause
TransitionTo(task, next, wait) ==
    IF next \notin Successors(task.state)
    THEN Rejected(task)
    ELSE Accepted([task EXCEPT
            !.state        = next,
            !.wait         = wait,
            !.ended        = @ \/ next \in TerminalStates,
            !.pauseRequest = @ /\ next \notin TerminalStates])

\* Mutant of StartNextAttempt: the successor is a copy that keeps its end.
StartNextAttemptKeepsEnd(task) ==
    [task EXCEPT !.state = "Queued", !.attempt = @ + 1]

\* start_next_attempt: a successor attempt, queued, with a clean record
StartNextAttempt(task) ==
    [task EXCEPT !.state = "Queued", !.attempt = @ + 1, !.ended = FALSE,
                 !.delivered = FALSE, !.wait = NoRequest]

-----------------------------------------------------------------------------
(* The events, each tagged with the attempt it is about.                   *)

\* Events whose only effect is one transition to a fixed state.
PlainEvents ==
    {"AdmissionGranted", "WorkerFailed", "WorkerCompletedNoChanges",
     "WorkerBudgetExhausted", "CancelRequested", "RuntimeInterrupted",
     "RecoveryConflict", "WatchdogStalled", "WatchdogTimedOut",
     "WatchdogBudgetExhausted"}

Target(kind) ==
    CASE kind = "AdmissionGranted"         -> "Running"
      [] kind = "WorkerFailed"             -> "Failed"
      [] kind = "WorkerCompletedNoChanges" -> "CompletedNoChanges"
      [] kind = "CancelRequested"          -> "Cancelled"
      [] kind = "RuntimeInterrupted"       -> "RecoveryRequired"
      [] kind = "RecoveryConflict"         -> "Blocked"
      [] kind = "WatchdogStalled"          -> "Stalled"
      [] kind = "WatchdogTimedOut"         -> "TimedOut"
      [] OTHER                             -> "BudgetExhausted"

\* Events that also carry the request a wait is about.
WaitEvents ==
    {"PermissionRequested", "PermissionAllowed", "PermissionDenied",
     "ResourceUnavailable", "ResourceAvailable"}

\* Events that depend on more of the task than its state.
OtherEvents ==
    {"WorkerDelivered", "WorkerDeliveredInvalid", "PauseRequested",
     "PauseAcknowledged", "ResumeRequested", "RetryRequested"}

EventKinds == PlainEvents \cup WaitEvents \cup OtherEvents

TaskEvent == [kind : EventKinds, attempt : Nat, request : Requests \cup {NoRequest}]

Event(kind, task) ==
    [kind |-> kind, attempt |-> task.attempt, request |-> NoRequest]

\* A wait ends only by the answer to the request it is about.
ResolveWait(task, state, request, next) ==
    IF task.state # state \/ task.wait # request
    THEN Rejected(task)
    ELSE TransitionTo(task, next, NoRequest)

ReduceWait(task, kind, request) ==
    CASE kind = "PermissionRequested" -> TransitionTo(task, "WaitingForPermission", request)
      [] kind = "PermissionAllowed"   ->
             ResolveWait(task, "WaitingForPermission", request, "Queued")
      [] kind = "PermissionDenied"    ->
             ResolveWait(task, "WaitingForPermission", request, "Blocked")
      [] kind = "ResourceUnavailable" -> TransitionTo(task, "WaitingForResource", request)
      [] OTHER                        ->
             ResolveWait(task, "WaitingForResource", request, "Queued")

\* The delivery is recorded before the transition is tried, and the pause
\* request is consumed before it: both stay when the transition is refused.
ReduceOther(task, kind) ==
    CASE kind = "WorkerDelivered"   ->
             TransitionTo([task EXCEPT !.delivered = TRUE], "Completed", NoRequest)
      [] kind = "WorkerDeliveredInvalid" -> Rejected(task)
      [] kind = "PauseRequested"    -> Accepted([task EXCEPT !.pauseRequest = TRUE])
      [] kind = "PauseAcknowledged" ->
             IF task.pauseRequest
             THEN TransitionTo([task EXCEPT !.pauseRequest = FALSE], "Paused", NoRequest)
             ELSE Rejected(task)
      [] kind = "ResumeRequested"   ->
             IF task.state = "Paused"
             THEN TransitionTo([task EXCEPT !.pauseRequest = FALSE], "Queued", NoRequest)
             ELSE Rejected(task)
      [] OTHER                      ->
             IF IsTerminal(task) THEN Accepted(StartNextAttempt(task)) ELSE Rejected(task)

\* reduce: an event about another attempt is refused before anything else
Reduce(task, event) ==
    CASE event.attempt # task.attempt    -> Rejected(task)
      [] event.attempt = task.attempt /\ event.kind \in PlainEvents ->
             TransitionTo(task, Target(event.kind), NoRequest)
      [] event.attempt = task.attempt /\ event.kind \in WaitEvents ->
             ReduceWait(task, event.kind, event.request)
      [] OTHER                           -> ReduceOther(task, event.kind)

=============================================================================
