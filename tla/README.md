# yi-agent: a verification project

TLA+ modules of the parts of yi-agent that decide things concurrently, the TLC
instances that check them, and TLAPS proofs about them. Paths below are relative
to `yi-agent-rs/crates/` unless they start with `docs/` or `plugins/`.

    tlc -workers 2 -config AgentSupervisor_tree.cfg MCAgentSupervisor
    tlapm AgentSupervisorProofs.tla

Contents: [the system](#the-system), [modules](#the-modules),
[runs](#the-runs), [fairness](#fairness), [proofs](#the-proofs),
[where the code and its documentation part](#where-the-code-and-its-documentation-part),
[what is not modelled](#what-is-not-modelled), [plan](#plan).

## The system

yi-agent runs a coding agent and the *subagents* it spawns. A daemon per project
owns the tasks; each worker is an OS thread with its own async runtime that runs
the agent loop against a model provider.

    client (TUI, desktop, phone, kanban runner)
        | JSON-RPC / unix socket
    app server  --- session drivers, broadcast, pairing
        | IPC
    daemon: RuntimeCoordinator --- RuntimeRepository (SQLite)
        |        |      \--------- ResourceCoordinator <--- ProviderTurnAdmissions
        |    AgentSupervisor (one per root session; reducer, mailboxes)
        |        ^ events                                   ^ acquire / drop
    worker threads --- agent loop --- provider, tools, MCP, processes

| Component | State it keeps | Operations | Interacts by | What is hard | What makes it correct |
|---|---|---|---|---|---|
| Task reducer, `yi-agent-core/src/subagent/task.rs` | state of a task and of its active attempt | `reduce`, `start_next_attempt` | pure; called by the supervisor | late and duplicated events | a terminal outcome is final, an attempt is closed exactly when its task is |
| Task supervisor, `.../subagent/supervisor.rs`, `worker.rs` | task tree, worker handles, mailboxes | spawn, start, reconcile, cancel, pause, resume, retry, watchdogs, permissions, drain | one mutex; workers post to the queue of their handle | cascades against late events; a pass that fails half way | what settles takes its subtree with it, one worker per attempt, no event is lost |
| Resource admission, `.../subagent/scheduler.rs` | queues, leases, usage, rotation cursors | enqueue, cancel, grant, release | one mutex shared by residency and provider turns | loans between pools, fairness, expiry | capacity, exclusion, rotation, nobody starves |
| Provider turn admissions, `yi-agent-store/src/runtime.rs` 3395-3835 | who is queued, who was assigned a lease | acquire loop, cancel, RAII release | three mutexes and a `Notify`, one thread per worker | interleavings, cancellation at an await, lost wake-ups, lock order | a lease serves one task; a sleeper can be reached |
| Runtime coordinator, `yi-agent-store/src/runtime.rs` | supervisors, resident leases, recovery contexts | spawn and admit, start, reconcile and persist, cancel, retry, drain, open | locks the supervisors, the repository and the resources in turn | memory, rows and leases change in separate steps; crashes | a restart reads what was; leases go with the work |
| Durable store, `yi-agent-store/src/repository.rs` | SQLite rows | guarded transitions, deliveries, recovery | transactions | a row guarded by an attempt that is over | idempotent recovery |
| Mailbox, `.../subagent/mailbox.rs` | messages, user overrides | push, stage, acknowledge | supervisor and agent loop | at-least-once overrides | an override is neither lost nor applied twice |
| Daemon, `yi-agent-store/src/ipc.rs`, `resident.rs` | lock file, socket, runtime directory, idle clock | boot, accept loop, stop | files and a unix socket shared by processes | stop against start, at every system call; a directory that goes | one daemon owns a directory, and it can be reached |
| Schedules, `yi-agent-store/src/schedule.rs` | occurrences | claim, evaluate | repository | missed and overlapping fires | an occurrence fires once |
| Agent loop, `yi-agent-core/src/agent.rs`, `compact.rs` | the conversation, the inbox | think, act, observe, confirm, compact, abort | provider, tools, events, decisions | cancellation at every await | calls stay paired with results, nothing the user says vanishes |
| App server sessions, `yi-agent-app-server/src/server.rs`, `rpc/`, `thread_store.rs` | turn in progress, log and checkpoint of a thread | start, interrupt, interject, approve, session commands, resume | channels between main loop and driver, files | a main loop that awaits a driver that awaits a client | each turn on disk once, an answer allows its own call, a stop ends the turn |
| App server fan-out, `.../broadcast.rs`, `ws.rs` | registered clients, outbound queues | register, fan out, reply, evict, disconnect | bounded channels, one pump per client | a slow client against a loop that serves all | no gaps in a client's feed, nobody blocks everybody |
| Kanban, `plugins/superpowers-kanban/crates/` and `.../session_driver.rs` | board file, observations, merge holder; leases and merge lock in memory | driver step, launch, merge, verbs, adopt | files and locks across processes, one request per tick of the host | memories that die at different times | one merge at a time, a slot for every live session |
| MCP manager, process manager, supervisors daemon, power, relay, pairing | connections, processes, desired state | connect, reload, kill, restart | async tasks, OS | reload against use, exit against kill | listed in `PROJECT.json` |
| Clients, settings, models, file tools, providers | little or sequential | | | | not planned |

`PROJECT.json` lists every component with its status, and the hazards of the
code, each at its line with the properties that would catch it.

## The modules

| Module | Models | Composes |
|---|---|---|
| `AgentTask` | the reducer: states, events, `Reduce(task, event)` | |
| `AgentSupervisor` | one session's supervisor: one action per operation, the pass split by event | extends `AgentTask` |
| `TaskRuntime` | the coordinator around it: rows, leases, boot, crash | extends `AgentSupervisor` |
| `ResourceCoordinator` | queues, leases, loans, rotation, ageing, deadlines | |
| `ProviderTurns` | the gates of all workers, step by step between locks | extends `ResourceCoordinator` |
| `DaemonInstance` | which process owns a runtime directory, one action per system call | |
| `FrameFeed` | what a connected client is promised | |
| `Broadcaster` | the fan-out centre with connections, pumps and the main loop | implements `FrameFeed` |
| `AgentRun` | the agent's run loop and its transcript | |
| `ThreadTurns` | a conversation: main loop, driver, log, checkpoint | extends `AgentRun` |
| `KanbanRunner` | plugin daemon, host, sessions, writers of the board | |
| `AgentSupervisorProofs`, `ResourceCoordinatorProofs`, `DaemonInstanceProofs`, `KanbanRunnerProofs`, `ThreadTurnsProofs`, `BroadcasterProofs` | theorems | extend the module they are about |
| `ProviderTurnsProofs` | theorems | extends `ProviderTurns` and `ResourceCoordinatorProofs` |
| `TaskRuntimeProofs` | theorems | extends `TaskRuntime` and `AgentSupervisorProofs` |
| `MC...` | the instances | |

**AgentTask.** A task is its state, its active attempt's number, whether that
attempt has ended and what it delivered. `Reduce` returns the task and whether
the event was accepted, with the code's order of checks: the attempt id, the
terminal state, the wait's request, the edge. Some of the code's refusals leave
the task changed; `Reduce` keeps that.

**AgentSupervisor.** Operations run under the supervisor's mutex and are single
steps, cascade included (`settle_terminal`). A reconciliation pass drains every
worker's queue first and then applies the events in the order of a hash map;
it is split into `ReconcileBegin`, one step per event in any order, and
`ReconcileReturn`, or `ReconcileAbort` where the code returns at a refusal,
because workers post during a pass. `pass.active` is the mutex. `strays` and the
handle's `attempt` are history variables: the first remembers threads whose
handle was dropped while they worked, the second what a handle was started for.

**ResourceCoordinator.** Requests have identities and a constant record of what
they ask for, so a request queued twice is told apart. The position in the queue
is the sequence number. Waiting time is the points it earns (`boost`, of the set
`Boosts`) and whether a deadline has passed (`expired`); older entries of a queue
are never behind younger ones. `Cursor` is what a restart restored. `IsSelected` says which request `select_fair_request`
returns: of roots, then of subtrees, the one with the best score that comes first
after the cursor (`Ahead`), then the first request.

**ProviderTurns.** A gate's `at` is where its thread stands. `acquire_now` takes
the assignment under one lock and queues and selects under another, so other
gates run in between. Two places hold a lock and need another one: `Yield` and
`Drop` hold `assigned` and need `resources`; `Assign` holds `resources` and
needs `assigned`. (The guard of a mutex locked in the head of an `if let` lives
to the end of its body.) `queued` is locked inside `resources` or alone, so it
needs no lock of its own in the model. `Notified` sets `woken` on every gate whose
`Notified` future exists, which tokio guarantees for `notify_waiters` even before
the future is polled. `Mail` changes the priority a coordinator's gate will read
at the top of its loop. `lost` is a history variable: the
tasks whose request a failed write dropped.

**TaskRuntime.** One session over three memories: the supervisor's, the tables
`tasks` and `resource_leases` (`row`, `leaseRow`), and the coordinator's
(`resident`, `gate`). The root is an application root: its turns run in a client,
so it owns no worker until it is recovered. A transaction is one step. Where an
operation drops the supervisor's lock before it writes, it is two: the second
half waits in `half`, or in `batch` for what a reconciliation pass collected, and
anything may happen before it, a `Crash` included. The activation of the root is the
other way round: a queued row is set running first (`ActivateRow`), the root in memory
later (`ActivateRoot`). A detachment is two transactions under the repository's mutex,
which only a death of the daemon comes between (`CrashDetaching`). The boot is `RecoverInflight`,
`Reclaim`, `Open`, in the order of `ipc.rs`, and may be cut short like everything
else. `astray` is a history variable: the tasks whose row an overtaken write set
or missed, or whose lease an operation that failed kept. The properties except
them and nothing else, so they say which writes can go wrong.

**DaemonInstance.** A file is its inode: `lockFile` and `socket` are what the paths
name, `lock[p]`, `bound[p]` and `identity[p]` what a process has open or remembers.
Each `open`, `flock`, `unlink`, `bind` and `stat` of `start_with_factory`, the
accept loop's end and `remove_socket_if_same_inode` is an action of its own, and a
process may `Stop` or `Die` between any two. `RemoveDir` is somebody else's.
`unlinked` and `raced` are histories: the lock file went while another process had
it open; two daemons met.

**FrameFeed** and **Broadcaster.** The abstract module knows emitters, clients and
frames: a client is owed what it follows, gets it in order and without a gap, and
does not stay when a frame was lost on it; the desktop stays and loses only frames
that carry no state. The detailed one has queues, pumps, read loops, tasks that
await room in a queue and the eviction that follows. The abstract module tells the two kinds of frames apart
by what may become of them: a `FanOut` may be lost on some, a `Promise` is owed to
everybody until its emitter has settled it (`keeping`), and only a client that is
sent away before that may do without (`holes`). The refinement maps a client's
`standing` to where its pump and its registration are (`Standing`), what it is
`owed` to the numbers in its queue and the frame an emitter is still sending it
(`Owed`), and `holes` to the removals an emitter has in hand (`Holes`);
`FeedIsKept == Feed!FeedSpec` is checked as a property of the detailed one, and proved.

**AgentRun** and **ThreadTurns.** A message of the transcript is its kind (`user`,
`text`, `calls`, `results`), which is what pairing and truncation look at. What the
model replies, when a compaction is due and whether a checkpoint is dirty are
choices; the provider's lease is `ProviderTurns`'s matter. `AgentRun` has the phases
of `run_loop` with their cancellation points, `ThreadTurns` the main loop, the
driver's `select`, the approval wait, session commands and the disk. Two things are
left behind and go on. A driver that gives its turn up (`DriverGone`, `DriverReturns`)
leaves its run *deaf*: nobody reads its events or answers it, and the calls it cannot
announce are missing from its message of results (a `shortfall`). A resume waits five
seconds for the turn that runs (`WaitEnds`); after that it promotes the checkpoint and
replaces a driver that still has the rest of its turn to do (`old`), on the same
files. The new agent shares no memory with the old one, so of the old one only what it
does to the files is modelled. Histories: `fate` of each interjection, `allowed`
confirmations, turns `started`, turns the disk was made to forget (`lost`, `behind`),
turns whose driver was replaced before they ended (`outlived`), interjections no event
will tell of (`unheard`), a transcript that has calls without results (`spoiled`).

**KanbanRunner.** Three kinds of memory with three lifetimes: files (`board`,
`observed`, `holder`), the plugin's (`leases`, `gate`, `pending`, `minted`) and the
host's (`session`, `result`). `driver/next` is split where other processes can
write the board in between: what is reported is consumed, the world is observed
and the merge queue looked at, a tree is prepared, a card is launched. `holder.of`
stands for the pid on record, so a record of a dead process is one whose `of` is
not `life`. A verb of a user or a session is one read-change-write under
`board.lock`, and takes place whatever the card is in the middle of. Histories: the
cards somebody settled, or cleared the record of, while a session merged them
(`overruled`), and the records that could not be written though the lock was taken
(`unnamed`; `let _ = write_holder`, `merge_lock.rs:116`). Both let a second merge start
beside the first, which no test in the code prevents; the properties except them.

## The runs

| Run | Instance | Shows |
|---|---|---|
| `tree` | root and two tasks, chain or siblings, one retry | the cascade, the tree, handles: `SettlingStopsTheSubtree`, `LiveUnderSettledWasRevived`, `WorkerServesActiveAttempt`, `NoUnattendedWorker`, `RecoveryKeepsTheSubtree` |
| `lifecycle` | root and child, six kinds of worker event, watchdog, permission wait, one retry | `TerminalOutcomeIsFinal`, `EvidenceMatchesOutcome`, `PassReportsEveryChange` |
| `progress` | root and child, deliveries of both, pauses, a permission wait, fair | `PostedEventTakesEffect` |
| `pools` | two roots, five requests, a permit and a reserve of two | `InUseCountsLeases`, `CombinedCapacity`, `ExclusiveIsAlone`, `BorrowingYields`, `RootsTakeTurns` |
| `leaf_saturation` | three requests, two ages, fair | `NobodyStarves` |
| `gates` | three gates, a permit and a reserve of one, writes that fail | `TurnsAreBacked`, `OneRequestPerTask`, `NoSleeperForgotten` |
| `durable` | root and child, a retry, a watchdog, a drain, deaths of the daemon | `RowFollowsMemory`, `LeasesFollowWorkers`, `RecoverableKeepsWorkspace`, `OutcomeIsDurable` |
| `instance` | two processes, two stops or kills, the directory removed once | `OneOwnerUnlessUnlinked`, `Reachable`, `StaleFilesBlockNobody` |
| `fanout` | desktop and phone, one turn and the main loop, fair | `FeedIsKept` (refinement), `RemovedIsDisconnected`, `RequestsAreTaken` |
| `kanban` | a feature card and a merge card, two slots, fair | `OneMergeAtATime`, `GateIsNamed`, `ThreadServesItsCard`, `SlotFollowsSession`, `GateComesBack` |
| `turns` | two turns, two confirmations, any two of twelve mishaps, fair | `RequestsArePaired`, `InterjectionsSettle`, `DiskHoldsTheConversation`, `AllowedByItsOwnAnswer`, `InterruptEndsTurn` |
| `boot` | root and child, a client that leaves, one death | fails: `BootSucceeds`, a sentence of the documentation that the code does not keep |

Bounds, and why they suffice. *Depth*: the code allows three generations
(`TaskDepth`), which `tree` has as a chain; two siblings are enough for an event
of one task to touch another. *Attempts* (`MaxAttempts`, `MaxRetried`): a retry
matters by what the second attempt inherits and by what it revives; a third adds
nothing new. *Worker reports*: `tree` takes the completing report, which is what
settles a task by itself, `lifecycle` the others; the reducer does not tell `Failed` from
`BudgetExhausted` in anything but the state. *Requests and leases*: capacity 1
and a reserve of 1 or 2 make every pool full, borrowable and borrowed; the
request of two units is the smallest that does not fit what is left. *Boosts*:
`leaf_saturation` has two ages, so an old request overtakes; in `pools` and in
`ProviderTurns` age is constant because the properties there are about leases,
and a selection by score is already made among unequal roots. *Gates*: one that
selects, one that is selected and one that changes pools or holds the permit.
Writes may fail at any time. *TaskRuntime*: one operation at a time is between its
two locks (`MaxHalf`), which everything else may overtake; no further one starts
once a task is astray (`Room`), as one stray row is already excepted; tasks of
`Reopened` are retried or recovered; the daemon dies twice only when the second
death meets a recovery (`MayDie`). *DaemonInstance*: two processes are what a race
over a path takes; six files let each of them make a lock and a socket, and once
more after the directory went. *Broadcaster*: queues of one are full at the first
unread frame; two frames in all and three requests let a client be slow, refused
and removed while both emitters wait. *KanbanRunner*: the merge card starts in the
merge queue and the feature card may get there, so merges compete; two sessions,
one verb that queues a card again, one fault (a restart of either side, a lost
answer, a closed merge, a record that is not written); with a limit of two the pool can be full or free.
*ThreadTurns*: one call of the model and one batch of calls per turn; two
confirmations in all, so that an answer to the first can meet the second; channels
and inbox of one, so that each is full at the second message; each mishap once and any
two together, a resume that waits in vain being two. Symmetry is taken over spawned task ids, lease
ids and the two gates without mail, and only in runs without liveness.

Deadlock is not checked: a session whose tasks have all settled may stop, idle
gates need not ask, budgets of mishaps run out, and the real deadlock of the gates
is stated as a property (`LocksAreOrdered`). Every module states a type invariant;
only the supervisor's is in a run, the others were checked on the same instances,
and `InstanceTypeOK` and the shape of `KanbanRunner`'s state are proved.

## Fairness

* `progress`: weak fairness of `Reconcile`, the supervisor's part of the daemon's
  accept loop, which calls it at every tick (`yi-agent-store/src/ipc.rs` 927-1045).
  Workers owe nothing: the property starts when an event is posted. The instance has
  the events that abort a pass, a delivery of the root and a result of a task that
  waits; the property excepts an event that was drained together with one of these
  (`Refusable`), because the code loses it (`NoStrandedTask`).
* `leaf_saturation`: `Release` is weakly fair, as leases are dropped by RAII, and
  `GrantNext` is, as a lease that is dropped notifies every gate and each asks
  for a grant again. What the property says is that the policy of selection and
  loans starves nobody who keeps asking; whether the gates do is the question of
  `ProviderTurns`, where `CoordinationIsServed` fails in a window in which they do not. The
  condition is written `[]<>~Grantable(k) \/ []<><<GrantNext(k)>>_resources`,
  with the enabling condition spelled out, which TLC evaluates faster.
* `instance`: clients start a daemon where none is (`Starts`), and a process that is
  started, or is on its way out, takes its next system call (`Ends`). Nobody is
  obliged to stop, to die or to leave the directory alone; once files run out the
  property asks for nothing.
* `fanout`: the runtime polls every task that can go on. Nothing is assumed of the
  pumps, as nothing makes a peer read: one that stops may hold the main loop up for
  ever, in `reply` or, the desktop, in a fan-out (`HeldUp`). `RequestsAreTaken` and
  `RemovedIsDisconnected` are claimed of behaviours in which it does not; the first
  without that condition, and the second without it for a client whose read loop waits
  for the main loop, are refuted [below](#where-the-code-and-its-documentation-part).
  Clients owe no request.
* `kanban`: the host asks every three seconds and its query returns (`Tick`), and
  the session of a merge says some day what came of it (`RecordMerge`): the lock is
  meant to be kept that long. Once it has spoken, the session is taken to be finished
  with merging. `GateComesBack` is claimed only when nothing fails, because a record
  left by a dead process is cleared by a user, and a record that was not written by
  nobody.
* `turns`: the runtime polls the run (`AgentSteps`), the driver (`DriverSteps`) and the
  main loop's handling of a turn that is over (`HandleFinished`), and the timer of an
  approval runs out. Nothing is assumed of the provider, the tools, the clients and a
  driver that was replaced: a stop must work without them.

## The proofs

All for every value of the constants, under the named assumptions of the modules.

Everything that the passing runs claim is proved, but for the liveness.

`AgentSupervisorProofs`:
`TypeCorrect`, `TreeShapeCorrect`, `SettlingStopsTheSubtreeCorrect`,
`TerminalOutcomeIsFinalCorrect`, `OutcomesAreSound`,
`LiveUnderSettledWasRevivedCorrect`, `WorkerServesActiveAttemptCorrect`,
`NoUnattendedWorkerCorrect`, `EvidenceMatchesOutcomeCorrect`,
`RecoveryKeepsTheSubtreeCorrect`, `PassReportsEveryChangeCorrect` (which says also
what an aborted pass loses: all it had collected, and only after an event that is
`Refused`). The argument:
`ReduceFacts` says once what an
event can do to a task; nearly every action is `Harmless` (it applies events to
existing tasks, cascades included, and keeps the tree), proved action by action;
only `Spawn` extends the tree and only a retry opens an attempt. `TypeOK` is not
inductive alone: `Descendants` unfolds the parent relation twice, so that it is
everything below a task needs `TreeShape` (parents exist, depth grows by one,
the leaf has depth two), hence `TreeCorrect` proves both together.
`LiveUnderSettledWasRevived` needs that a settling step cancels all live
descendants and that excuses (a retried or recovering task above) never vanish
by a harmless step (`HarmlessKeepsExcuses`).
What the operations do to handles is a second classification, `Careful`: a handle
that stays serves the attempt it served and was told when its task ended
(`Attended`), a report stays with the active attempt (`Reported`), who is parked
takes nobody along (`Parked`), a pass tells what it moved (`Told`).
`WorkerServesActiveAttempt` is inductive with `Collected`: the events of a pass that
wait to be applied were taken from the handles of their tasks, so a retry, which
drops the handle, cannot have them credited to the next attempt. `strays` stays
empty (`TendedCorrect`) because wherever a handle is dropped its worker has either
posted its final event or been told to stop, for which `Tended` is needed.
`Credited` adds to `EvidenceMatchesOutcome` the bound that lets the report of an
earlier attempt be told from the present one's.

`TaskRuntimeProofs`: `RuntimeTypeCorrect`, `RowFollowsMemoryCorrect`,
`LeasesFollowWorkersCorrect`, `RecoverableKeepsWorkspaceCorrect`,
`OutcomeIsDurableCorrect`, for any number of tasks, of operations between their two
locks, and of deaths. All follow from one inductive invariant (`RuntimeCorrect`).
While the daemon is down or boots, memory is empty and the rows are a tree
(`Booting`, `RowTree`); when it is up it either has no session and rows fit to be
read (`Blank`, `Readable`), or serves one (`Serving`). Of a task that is served,
`Kept` says what holds whatever else is under way:
its row is never of a later attempt than memory (`Attempts`), an attempt that memory
opened and the row lacks is the one a retry or a recovery is bringing, by one
operation alone, has no worker yet, and unless astray its task is queued or settled
(`Unopened`); what a pass collected for it is
what memory settled it to (`Collects`); a row that settled agrees with memory, and
with every write still under way (`Recorded`). It is these that make `RowFollowsMemory`
inductive: when the last write on its way to a row arrives, it must find that memory
still says the same. `astray` (see the bounds) marks the tasks of which the code does
not keep this. `Sheltered` holds of every row, served or not.
Each part of the invariant is about one task, so the steps are proved locally: of the
tasks a step is not about, each idles (`Idle`) or ends in the cascade (`Ends`), and
then keeps its part (`EndsHeld`); a task that is rewritten keeps it if what is written
is what memory moves it to (`RewriteKeeps`, `MoveHeld`). The steps of a pass and of a
worker are the supervisor's, so `Harmless` of `AgentSupervisorProofs` serves again.
A boot makes the sweeps pass by `BootStage`, and what is read from the rows by
`ReadBackInv`: a closed set of rows, with the states in which they are read
(`ReadAs`), is a session that is served. TLC checked the invariant with two tasks and
two operations under way at once, and with two deaths, before it was proved.

`ResourceCoordinatorProofs`: `CoordinatorTypeCorrect`, `InUseCountsLeasesCorrect`,
`CombinedCapacityCorrect`, `ExclusiveIsAloneCorrect`, `BorrowingYieldsCorrect`,
`RootsTakeTurnsCorrect`. Sums, and what is retained of a queue, are recursive
functions; their equations are derived from their definitions by induction along a
set of numbers (`LeastNumber`, `CountingUp`, `SetInduction`: a set of numbers
without a least member is empty, so no theorem with an operator for a parameter is
cited). `HeldRemove` then says that a lease adds its units to the sum of the others',
which is what `CountInv` takes (with it, that the leases that are out are finitely
many, which no constant has to promise), and `IsKept` that `Retained` keeps the others, in
order. `CombinedCapacity` is inductive because it carries the
reserve's own bound: a grant of the regular pool is bounded by what `Available`
computes from both pools, a grant of the coordination pool by what is left after
the loan, and `MonusFacts` replaces saturating subtraction by the two cases. From
the same invariant a step that makes the loan larger is a grant that found
`CoordinationWaits` false (`BorrowsOnlyIdleUnits`). The
inductive form of `ExclusiveIsAlone` adds that active leases are those of requests.
`RootsTakeTurns` rests on the order that `Ahead` makes of roots: the root granted last
is ahead of another one only by its best score (`AheadFacts`), so a step grants it
again only for that (`TurnPassesOn`); that a root has a first request and a best
score takes the typing of queues and finitely many leases.

`ProviderTurnsProofs`: `TurnsTypeCorrect`, `OneRequestPerTaskCorrect`,
`TurnsAreBackedCorrect`, `NoSleeperForgottenCorrect`, and `GatesKeepTheLimit`, which
carries the coordinator's capacity and counter over to the steps of the gates.
`TurnInv` says that `queued` and the queues agree both ways (`Matched`), except on
the tasks whose request a failed write dropped. `LeaseInv` follows a lease from hand
to hand: a gate that has selected another task (`Assigning`) holds a lease that
nobody is entitled to yet, and a gate about to take its own assignment has none in
hand. That a second selection of the same task overwrites its assignment
(`NoLeaseLeaks`) does not disturb it: the overwritten lease belongs to nobody.
`ReachInv` strengthens `NoSleeperForgotten` to gates that are still assigning
and will sleep afterwards.

`ThreadTurnsProofs`: `ThreadTypeCorrect`, `AllowedByItsOwnAnswerCorrect`,
`InterjectionsSettleCorrect`, `RequestsArePairedCorrect`,
`DiskHoldsTheConversationCorrect`, for any number of turns, interjections, calls,
confirmations and mishaps. Each invariant has one lemma for the steps of the run, one
for those of main loop, driver and disk, and one for the step that is either.
`AnswersInv`: no answer or question under way is of a later confirmation than the
last one asked, and a yes that waits for that one was said by a client, so an answer
that comes late is never taken for the next question's, not even by a run that is
deaf. `InterjectionsInv`: an interjection that was accepted is in the
inbox of a run that a driver drives, or an event of it is under way (`Accounted`); one
that was only sent is in the channel, or went with it;
and events of a run exist only while the driver drives (`RunIsDriven`), as a run is
deaf exactly when its driver has returned.
`PairingInv`: between a reply with calls and its results, and only then, the
transcript ends in open calls (`OpenCalls`), also in what the checkpoint holds, or
it is spoiled, as it is by every shortfall. `TurnsInv`: a turn is given to one driver, once, and it is the
main loop's active one. `RecordsInv`: the log has a turn once, and the turn in the
driver's hands not yet (`OncePerTurn`), so that the append of a turn cannot repeat
one, but for the turns a replaced driver may append too (`Excused`); what was started
is in the log, in the checkpoint, or among the `lost` (`Kept`), whichever of the two
drivers writes, clears or promotes the checkpoint. `TranscriptInv`: between turns the
`Latest` transcript of the log is the one in memory, unless the disk is `behind`, as
it is from the first write of a driver that was replaced; a turn's transcript holds
what the user said, so what is appended is never taken for an empty record.

`DaemonInstanceProofs`: `InstanceTypeCorrect`, `OneOwnerUnlessUnlinkedCorrect`,
`ReachableCorrect`, for any number of processes. That two owners need an unlinked
lock file does not follow from `flock` alone, because a lock is on an inode and
ownership is of a path: the invariant (`LockInv`) adds that whoever has opened the
file and has not begun to leave has the one that is at the path (`LockIsCurrent`),
so that holders of one file (`OneHolder`) are holders of one directory. For the
socket (`SocketInv`) the exit compares an identity read earlier: inodes must never
be shared (`SocketsDiffer`), and nobody may be about to unlink what a living daemon
bound (`SocketIsKept`).

`KanbanRunnerProofs`: `OneMergeAtATimeCorrect`, `GateIsNamedCorrect`,
`ThreadServesItsCardCorrect`, `SlotFollowsSessionCorrect`, for any number of cards,
sessions, restarts and lost answers. `Shape` types the state. `Named` strengthens `GateIsNamed` to the time in
which a tree is prepared, when the lock is held but `gate` is not yet set.
`ThreadServesItsCard` rests on numbers that are given out once (`Ids`): a pending
action, an answer and a result with the same number are of the same card, also
after a restart, because a number names the process that minted it. For
`OneMergeAtATime` the lock does not suffice, since it dies with the plugin while
the session of the merge goes on; `Merges` says that a merge under way is on
record, that its card is running while the lock is held, and that no second
session owes the card a word, for the cards that are not excused (`Excused`), wherever its next turn may be: among the candidates,
in the answer, or in a failed launch that has yet to be reported.
`SlotFollowsSession` looks back from the answer to the look at the sessions that made
room for it: what was seen dead stays so, and while slots are given out every session
there is has been looked at, because none starts before the answer is delivered
(`Watched`).

`BroadcasterProofs`: `HubCorrect` and `FeedIsKeptCorrect`, the refinement of
`FrameFeed`, for any number of connections, emitters and threads and for queues of any
length. It needs an invariant of the queues (`HubInv`): nothing is sent to, or queued
for, who has not connected or has gone (`Wired`), and a queue holds the frames of each
emitter in the order of their numbers, all older than the one it has yet to send
(`InOrder`), so that the head of a queue is the oldest frame owed of its emitter, and
one given up the newest. Each action has a lemma that says which step of the abstract
module it is, or that it is hidden, from what it changes for the clients it concerns
(`Same`, `Unconcerned`): a reply, a request and the send of a promised frame are
hidden; the end of a connection is a `Part` unless its pump had died before.

Assumptions the proofs use, each named in the module that declares the constant and
evaluated by TLC on every run: capacities, units and weights are natural numbers,
"nobody" is none of the requests, leases or roots, and bounds are natural numbers
(`LimitAssumption`, `BoundAssumption`, `RuntimeBoundAssumption`). "No row" is none of
the rows (`NoRowAssumption`): a task whose insertion failed has none. Sets of tasks, requests, leases and
confirmations may be of any size.

Only model-checked: everything under fairness and `ENABLED` (`PostedEventTakesEffect`,
`NobodyStarves`, `StaleFilesBlockNobody`, `RemovedIsDisconnected`,
`RequestsAreTaken`, `GateComesBack`, `InterruptEndsTurn`). `BootSucceeds` is refuted,
not proved.

## Where the code and its documentation part

One is a run that fails, quoted in `PROJECT.json`: in `boot` a client leaves, the
daemon dies while a child works, and no later daemon starts: the root's row says
paused, so it is not recovered (and is cancelled, once it has detached), and `open`
refuses a recovered child whose root is not.

Some are stated as formulas of a module, and TLC refutes them on the instance named
when they are put into its configuration:

| Formula | Instance | What the code does |
|---|---|---|
| `NoLiveTaskUnderSettled` | `tree` | retrying a child whose parent has settled leaves live work below it |
| `InterruptRemovesEveryHandle` | `tree` | the grace deadline stops at the first worker whose task refuses |
| `NoStrandedTask` | `lifecycle` | a root that delivers ends the pass and loses every event drained |
| `OnePoolPerTask` | `gates` | a gate that changes pools can be assigned a lease of the first between its look and its request: it holds both |
| `NoLeaseLeaks` | `gates` | a lease is assigned to a gate that has just found nothing and is about to queue again; selected a second time, it has the first lease overwritten (`insert` at `runtime.rs:3704`), which nobody gives back |
| `LocksAreOrdered` | `gates` | `acquire_now` and `cancel_task` lock `assigned` and inside it `resources`, selection the other way round: two worker threads can block each other for ever |
| `CoordinationIsServed` | `gates` under `TFairSpec`, writes that do not fail | a gate that is assigned a lease just after it looked for one sleeps on it; a task of high priority gives back a coordination assignment as if it were a normal one |
| `OneMergeAtATime` without `Excused`: `\A s, t \in Merging : s = t` | `kanban` | a user settles the card, or clears its record (`service.rs` 1121, 1182), while a session merges it, or the record was not written (`merge_lock.rs:116`): the gate is given back, or no record keeps the next merge out, and a second session merges |
| `RequestsAreTaken`, `RemovedIsDisconnected` without their condition on `HeldUp` | `fanout` | the main loop waits in `reply` for room in the queue of a peer that does not read (`broadcast.rs:247`), with no timeout: nobody's request is taken; a removed client that hands on a line meanwhile (`ws.rs:516`) does not look at its kick |
| `RequestsArePaired` with a spoiled transcript | `turns` | see the agent, below |
| `InterjectionsSettle` with `fate = "sent"` impossible when quiet | `turns` | an interjection that was answered ok arrives after the driver left the turn (`server.rs:5513`): it waits, unread, until another turn starts |
| `DiskHoldsTheConversation` over all of `started` | `turns` | after five seconds a resume promotes the checkpoint of a turn whose driver goes on and appends it again (`server.rs:4420`) |
| `InterruptEndsTurn` without `Jammed` and `Stranded` | `turns` | a driver waits for room in `decision_tx` (16, `bootstrap.rs:387`) that a run whose batch was stopped leaves unread; or a turn is sent to a driver that is about to return, and stays active: `start_turn_core` takes the active mark back only when the send fails ("so that later turns do not report `turn_in_progress` for ever", `server.rs:7469`) |
| `OneDaemonPerDirectory` | `instance` | `ipc.rs:1036` unlinks the lock file, which the comment at 1218 says is left in place: a process that has just opened it locks a file nobody else will find |

Others were met while modelling:

* The supervisor: `retry_task` does not count live siblings, so the limit on direct
  children can be exceeded. The age boost is capped at 20 points against a critical
  request's 40, so background work can starve under critical work although
  `docs/superpowers/specs/2026-08-09-runtime-scheduling-design.md:50` says "Aged
  background work eventually admits" (no caller uses either class today).
* Locks and rows: `acquire_now` locks the repository inside the resources
  (`runtime.rs:3664`), `cancel_task` and the reconciliation pass the resources inside
  the repository (2437, 3138): a second cycle, outside `ProviderTurns`. A failed
  write of a grant drops another task's request, which `queued` still remembers
  (`NoSleeperForgotten` excepts the tasks in `lost`). The rows that `TaskRuntime`
  puts into `astray` are each a write that something overtook.
* Kanban: a card that is withdrawn while its tree is prepared is set running and
  merged, although the comment at `service.rs:1089` rules that window out. That "at
  most one merge" runs (`merge_lock.rs:1`) holds with the two exceptions in the table
  (`overruled`, `unnamed`); a lock without a record is not given back either
  (`service.rs:1158`). A record left by a dead process stops every later merge until a
  user settles that card. A failed launch of a merge card that was started from the shelf gives back
  the lock of another card's merge. A launch whose answer is lost keeps its card
  running and its slot taken until a restart.
* The agent: a reply that is cut short is pushed as it is, finished calls included
  (`agent.rs:1216-1284`), and `thread/resume` takes a checkpoint that ends in calls
  as it is (`rpc/thread.rs`, about 443) where the CLI truncates it
  (`forkable_messages`): the next request holds calls without results (`spoiled`).
  So does the request of a run whose driver has returned: refused confirmations cannot
  be announced, and their calls are left out of the results (`agent.rs` 1423, 1549).
  Error exits of `think_phase` do not flush the inbox, against the comment of
  `flush_unconsumed`, and an inbox still takes what comes after the last flush
  (`unheard`). A stop during a batch does not end the questions of the calls that
  are left: the driver waits for a client or for `permission_timeout`.
* The app server: a command that waits when a turn ends keeps the turn from being
  recorded; the comment at `server.rs:5676`, that the command has appended the
  final state already, is not so of `SetModel`, `SetReasoningEffort` and
  `ReloadMcp`. When the client that opened a thread is gone, an approval ends the
  driver, against the comment at 5363-5366. The main loop awaits the answer of a
  session command, and serves nobody meanwhile. A driver that was replaced removes
  the checkpoint of its successor and may write over it, and a failed append still
  removes its own (`lost`, `behind`).

## What is not modelled

In the modelled components:

* Supervisor: mailboxes, message delivery and waits. Scheduler: `set_capacity` after
  start, `try_enqueue`'s bound. Provider turns: their lease rows.
* Coordinator and store: permission waits in rows, deliveries and their
  acknowledgement, the residency queue (a slot is there or not), several sessions
  in one database, the provisioning of workspaces beyond its failure, SQLite itself.
* Daemon: framing, request handlers (they call the coordinator), the registry of
  resident projects, plugin routes, the idle clock.
* Fan-out: authentication and pairing, encoding; a frame always serialises.
* Conversation: a promotion whose append fails; a resume of a thread another process
  writes (its lock is shared within a process); a stop that `try_send` drops because
  an earlier one is still in the channel, which `InterruptEndsTurn` does not start
  from; what a deaf run does to its own transcript once a resume has put it out of
  sight; channels other than those of interrupts and decisions never fill; `start_run`
  does not fail; the append of a turn and the notice that it is finished are one step;
  attachments, usage, lead replies, several conversations; listing, naming,
  deleting and forking threads.
* Kanban: prequeued cards, priorities, archive and purge; the calendar's numbers (that
  there is room is a choice of each tick); git (a tree can be prepared or not).

Payloads, ids and wording are abstracted everywhere. Not planned: parsing and
framing (IPC, JSON-RPC, SSE), rendering, settings and migrations, file and image
tools: sequential code around I/O, where a model would restate the code. Everything
else is in the plan.

## Plan

1. `AgentTask`, `AgentSupervisor` and proofs. *Done.*
2. `ResourceCoordinator` and proofs. *Done.*
3. `ProviderTurns` and proofs. *Done.*
4. `TaskRuntime` and proofs. *Done*; next, its composition with the residency queue
   (a queued child is started when a slot comes free).
5. `DaemonInstance` and proofs, `KanbanRunner` and proofs. *Done.*
6. `AgentRun`, `ThreadTurns`, `FrameFeed`, `Broadcaster` and proofs. *Done.*
7. A module of the lock graph: supervisors, repository, resources, assignments.
8. `Mailbox`: overrides persisted, staged, consumed; at least once across a
   restart, in order of priority.
9. Lead sessions and worktrees, on top of `KanbanRunner`'s driver.
10. `Schedule`, `McpManager`, `ProcessManager`, `SupervisorsDaemon`, `Power`.
