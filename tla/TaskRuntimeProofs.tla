-------------------------- MODULE TaskRuntimeProofs --------------------------
(***************************************************************************)
(* What the runtime coordinator guarantees for every set of tasks, every   *)
(* number of operations between their two locks, and every moment at which *)
(* the daemon dies: rows follow memory, leases follow workers, a           *)
(* recoverable child keeps its workspace, and an outcome is durable.       *)
(*                                                                         *)
(* The invariant is local: each of its parts is about one task, its row,   *)
(* its leases and what is under way for it.  So the proof asks of each     *)
(* action what it does to the task it is about, and shows that every other *)
(* task idles (Idle) or ends in the cascade (Ends).                        *)
(***************************************************************************)
EXTENDS TaskRuntime, AgentSupervisorProofs

-----------------------------------------------------------------------------
(* What is on its way to the row of a task.                                *)

\* What a pass leaves a task it moves in.
LeftByPass == SettledStates \cup {"Paused"}

Reopening(h) == h.op \in {"retry", "recover"}

\* The operations under way that write the row of d, and the writes collected for it.
HalvesOf(d) ==
    {h \in half : h.task = d /\ h.op \in {"spawn", "resume", "retry", "recover", "activate"}}
WritesOf(d) == {w \in batch : w.task = d}

Writing(d) == d \in pass.changed \/ WritesOf(d) # {} \/ HalvesOf(d) # {}

\* An attempt of d that memory has opened and the row has not.
Unopened(d) == \E h \in HalvesOf(d) : Reopening(h) /\ h.attempt = tasks[d].attempt

-----------------------------------------------------------------------------
(* What holds of one task.                                                 *)

\* In memory: no worker serves a task that is queued or paused, and a pass moves
\* tasks to where it says.
InMemory(d) ==
    /\ tasks[d].state \notin WaitingStates
    /\ HasWorker(d) => HasRow(d) /\ tasks[d].state \in {"Running"} \cup TerminalStates
    /\ \A p \in pass.pending : p[1] = d => tasks[d].state \in {"Running", "Paused"} \cup TerminalStates
    /\ d \in pass.changed => tasks[d].state \in LeftByPass

\* Of the attempts: a row is never ahead; what is under way was begun for an
\* attempt that was, and an attempt the row does not have yet is not worked on.
Attempts(d) ==
    /\ HasRow(d) => row[d].attempt <= tasks[d].attempt
    /\ \A h \in HalvesOf(d) :
          /\ h.op = "spawn" => h.attempt = 1 /\ ~HasRow(d)
          /\ Reopening(h) => h.attempt \in 2 .. tasks[d].attempt
          /\ \A g \in HalvesOf(d) : Reopening(g) /\ Reopening(h) /\ g.attempt = h.attempt => g = h
    /\ Unopened(d) => /\ HasRow(d) => row[d].attempt # tasks[d].attempt
                      /\ ~HasWorker(d)
                      /\ d \notin astray => tasks[d].state \in {"Queued"} \cup SettledStates

\* Of the writes a pass collected.
Collects(d) ==
    \A w \in WritesOf(d) :
        /\ w.state \in LeftByPass /\ w.attempt <= tasks[d].attempt
        /\ WritesOf(d) = {w}
        /\ Settles(w.state) /\ w.attempt = tasks[d].attempt => tasks[d].state = w.state

\* A worker at work has the workspace it was started in.
Housed(d) ==
    d # Root /\ HasWorker(d) /\ ~IsTerminal(tasks[d]) /\ Matches(d, tasks[d].attempt)
        => "workspace" \in leaseRow[d]

\* The row says what memory says.
Agrees(d) ==
    /\ Matches(d, tasks[d].attempt)
    /\ \/ row[d].state = tasks[d].state
       \/ row[d].state \in {"RecoveryGated", "RecoveryAttested"} /\ tasks[d].state = "Queued"
       \/ d = Root /\ row[d].state = "Paused" /\ tasks[d].pauseRequest

\* Of the row of a task that is not astray: it agrees when nothing is on its way;
\* it is behind only while it is being reopened; and it does not settle alone, nor
\* otherwise than what was collected.
Recorded(d) ==
    d \notin astray =>
        /\ ~Writing(d) => Agrees(d)
        /\ HasRow(d) /\ row[d].attempt # tasks[d].attempt => Unopened(d)
        /\ HasRow(d) /\ Settles(row[d].state) =>
              /\ row[d].attempt = tasks[d].attempt => tasks[d].state = row[d].state
              /\ \A w \in WritesOf(d) :
                    w.attempt = row[d].attempt /\ Settles(w.state) => w.state = row[d].state

Leased(d) ==
    d # Root /\ d \notin astray /\ ~Writing(d) =>
        /\ HasWorker(d) /\ IsLive(tasks[d]) => d \in resident
        /\ IsSettled(tasks[d]) \/ tasks[d].state = "Paused" => d \notin resident
        /\ IsSettled(tasks[d]) => leaseRow[d] = {}

Kept(d) ==
    /\ InMemory(d) /\ Attempts(d) /\ Collects(d) /\ Housed(d) /\ Recorded(d) /\ Leased(d)
    /\ HasRow(d) => row[d].parent = parent[d]

\* Nothing is under way for a task that memory does not have.
Absent(d) ==
    /\ ~HasWorker(d) /\ HalvesOf(d) = {} /\ WritesOf(d) = {}
    /\ d \notin pass.changed /\ \A p \in pass.pending : p[1] # d

\* A row in flight or to be recovered names a workspace that is still leased.
Sheltered(d) ==
    d # Root /\ HasRow(d) /\ row[d].context /\ row[d].state \in {"RecoveryRequired"} \cup InFlight
        => "workspace" \in leaseRow[d]

\* The rows are a closed tree of three generations.
RowTree ==
    /\ HasRow(Root) /\ row[Root].parent = NoTask
    /\ \A d \in Task \ {Root} : HasRow(d) =>
          /\ row[d].parent \in Task /\ HasRow(row[d].parent)
          /\ row[row[d].parent].parent # NoTask => row[row[row[d].parent].parent].parent = NoTask

\* Memory without a session.
Blank ==
    /\ \A d \in Task : ~Exists(d) /\ ~HasWorker(d) /\ parent[d] = NoTask
    /\ pass = NoPass /\ resident = {} /\ batch = {} /\ half = {}

\* What is ready to be read: nothing in flight, nothing to recover.
Readable ==
    \A d \in Task : HasRow(d) =>
        /\ row[d].state \notin InFlight \cup RecoveryRows
        /\ Settles(row[d].state) => leaseRow[d] = {}

Booting ==
    /\ Blank
    /\ power \in {"swept", "reclaimed"} =>
          \A d \in Task : HasRow(d) => row[d].state \notin InFlight

Serving ==
    /\ TreeShape
    /\ ~pass.active => pass = NoPass
    /\ pass.active => batch = {}
    /\ \A d \in Task : IF Exists(d) THEN Kept(d) ELSE Absent(d)
    /\ \A h \in half : Exists(h.task)
    /\ \A h \in half : h.op = "spawn" => h.task # Root /\ HasRow(parent[h.task])

RuntimeInv ==
    /\ RuntimeTypeOK
    /\ RowTree
    /\ \A d \in Task : Sheltered(d)
    /\ IF ~Up THEN Booting ELSE Serving \/ (Blank /\ Readable)

-----------------------------------------------------------------------------
(* Steps as one task sees them.                                            *)

\* The row of d and its leases are not written.
SameRow(d) == row'[d] = row[d] /\ leaseRow'[d] = leaseRow[d]

\* The row of d is given state s, and keeps everything else.
RowSet(d, s) ==
    /\ HasRow(d) /\ HasRow(d)'
    /\ row'[d].state = s /\ row'[d].attempt = row[d].attempt
    /\ row'[d].parent = row[d].parent

\* What is under way for d stays under way, a pass moves it no further, and no
\* worker of it starts.
Carried(d) ==
    /\ HalvesOf(d)' = HalvesOf(d) /\ WritesOf(d)' = WritesOf(d)
    /\ parent'[d] = parent[d]
    /\ HasWorker(d)' => HasWorker(d)
    /\ d \in astray => d \in astray'
    /\ d \in pass'.changed => d \in pass.changed
    /\ d \in pass.changed => d \in pass'.changed \/ d \in astray'
    /\ \A p \in pass'.pending : p[1] = d => p \in pass.pending \/ HasWorker(d)

\* d stays in its state, and its row says what it said.
Idle(d) ==
    /\ Carried(d) /\ SameRow(d)
    /\ tasks'[d].state = tasks[d].state /\ tasks'[d].attempt = tasks[d].attempt
    /\ tasks[d].pauseRequest => tasks'[d].pauseRequest \/ tasks[d].state = "Paused"
    /\ d \in resident' <=> d \in resident

\* d settles; its row follows and its leases are given back, unless the row is
\* left to an astray task.
Ends(d) ==
    /\ Carried(d)
    /\ ~IsTerminal(tasks[d]) /\ IsSettled(tasks'[d])
    /\ tasks'[d].attempt = tasks[d].attempt
    /\ \/ SameRow(d) /\ d \in astray'
       \/ /\ RowSet(d, tasks'[d].state)
          /\ leaseRow'[d] = {} /\ d \notin resident'
          /\ Matches(d, tasks[d].attempt) \/ d \in astray'

\* The step does not change a settled row of d, but for an overtaken write.
Durable(d) ==
    /\ HasRow(d) /\ Settles(row[d].state) /\ row'[d].attempt = row[d].attempt
    /\ row'[d].state # row[d].state
    => d \in astray \cup astray'

\* The states a worker, a pass and a cascade deal in are told apart.
LEMMA StateFacts ==
    /\ SettledStates \subseteq TerminalStates
    /\ "RecoveryRequired" \in TerminalStates \ SettledStates
    /\ {"Queued", "Running", "Paused"} \cap TerminalStates = {}
    /\ {"Queued", "Running", "Paused"} \cap WaitingStates = {}
    /\ {"RecoveryGated", "RecoveryAttested"} \cap (TerminalStates \cup WaitingStates) = {}
    /\ WaitingStates \cap TerminalStates = {}
    /\ LiveStates = {"Queued", "Running", "Paused"} \cup WaitingStates
    /\ LiveStates \cap TerminalStates = {}
    /\ LeftByPass = SettledStates \cup {"Paused"}
    /\ \A s : Settles(s) <=> s \in SettledStates
    /\ InFlight = {"Running"} \cup WaitingStates
BY DEF SettledStates, TerminalStates, WaitingStates, LiveStates, LeftByPass, Settles, InFlight

\* A row that agrees with a task is settled no otherwise than what was collected.
LEMMA AgreesRecords ==
    ASSUME NEW d \in Task, Agrees(d)', Collects(d)'
    PROVE  Recorded(d)'
BY StateFacts DEF Agrees, Collects, Recorded, Matches

\* A task that idles keeps what held of it.
LEMMA IdleKeeps ==
    ASSUME NEW d \in Task, Kept(d), Idle(d)
    PROVE  Kept(d)' /\ Durable(d)
<1>1. InMemory(d)'
    BY DEF Kept, InMemory, Idle, Carried, SameRow, HasRow, IsTerminal
<1>2. Attempts(d)'
    BY DEF Kept, Attempts, Idle, Carried, SameRow, HasRow, Unopened
<1>3. Collects(d)'
    BY DEF Kept, Collects, Idle, Carried
<1>4. Housed(d)'
    BY DEF Kept, Housed, Idle, Carried, SameRow, HasRow, Matches, IsTerminal
<1>5. Recorded(d)'
    BY DEF Kept, Recorded, Idle, Carried, SameRow, HasRow, Matches, Agrees, Writing, Unopened
<1>6. Leased(d)'
    BY DEF Kept, Leased, Idle, Carried, SameRow, Writing, IsLive, IsSettled
<1>7. HasRow(d)' => row'[d].parent = parent'[d]
    BY DEF Kept, Idle, Carried, SameRow, HasRow
<1>8. Durable(d)
    BY DEF Durable, Idle, SameRow
<1> QED BY <1>1, <1>2, <1>3, <1>4, <1>5, <1>6, <1>7, <1>8 DEF Kept

\* So does a task that ends.
LEMMA EndsKeeps ==
    ASSUME NEW d \in Task, Kept(d), Ends(d)
    PROVE  Kept(d)' /\ Durable(d)
<1>1. InMemory(d)'
    BY StateFacts DEF Kept, InMemory, Ends, Carried, SameRow, RowSet, HasRow, IsSettled
<1>2. Attempts(d)'
    BY StateFacts DEF Kept, Attempts, Ends, Carried, SameRow, RowSet, HasRow, Unopened, IsSettled
<1>3. \A w \in WritesOf(d) : w.attempt = tasks[d].attempt => ~Settles(w.state)
    BY StateFacts DEF Kept, Collects, Ends, IsTerminal
<1>4. Collects(d)'
    BY <1>3 DEF Kept, Collects, Ends, Carried
<1>5. Housed(d)'
    BY StateFacts DEF Housed, Ends, IsTerminal, IsSettled
<1>6. Recorded(d)'
  <2>1. CASE d \in astray'
    BY <2>1 DEF Recorded
  <2>2. CASE d \notin astray'
    <3>1. Agrees(d)'
        BY <2>2 DEF Ends, Agrees, Matches, RowSet
    <3> QED BY <1>4, <3>1, AgreesRecords
  <2> QED BY <2>1, <2>2
<1>7. Leased(d)'
    BY StateFacts DEF Leased, Ends, Carried, IsLive, IsSettled
<1>8. HasRow(d)' => row'[d].parent = parent'[d]
    BY DEF Kept, Ends, Carried, SameRow, RowSet, HasRow
<1>9. Durable(d)
    BY StateFacts DEF Durable, Ends, SameRow, Kept, Recorded, Matches, IsTerminal
<1> QED BY <1>1, <1>2, <1>4, <1>5, <1>6, <1>7, <1>8, <1>9 DEF Kept

-----------------------------------------------------------------------------
(* How the parts make the whole.                                           *)

RowsTyped ==
    /\ row \in [Task -> Row \cup {NoRow}]
    /\ leaseRow \in [Task -> SUBSET LeaseKind]
    /\ attachment \in {"attached", "detached"}

MemoryTyped ==
    /\ draining \in BOOLEAN
    /\ resident \subseteq Task /\ astray \subseteq Task
    /\ gate \in [Task -> {"none", "required", "gated", "attested"}]
    /\ batch \subseteq Write /\ half \subseteq Half

\* A session is served, and the invariant holds.
Served == RuntimeInv /\ Up /\ Serving

\* What an action owes each task.
Fine(d) ==
    /\ Exists(d) => Kept(d)'
    /\ ~Exists(d) => Absent(d)'
    /\ Sheltered(d)'
    /\ Durable(d)
    /\ HasRow(d) => HasRow(d)' /\ row'[d].parent = row[d].parent

\* What the step as a whole leaves: the invariant, and durable outcomes.
Held == RuntimeInv' /\ \A d \in Task : Durable(d)

\* The parts of the type invariant.
LEMMA ServedTypes ==
    ASSUME Served
    PROVE  /\ TypeOK /\ TreeShape /\ RowsTyped /\ MemoryTyped /\ RowTree
           /\ \A d \in Task : Sheltered(d)
           /\ \A d \in Task : Exists(d) => Kept(d)
           /\ \A d \in Task : ~Exists(d) => Absent(d)
           /\ \A h \in half : h \in Half /\ h.task \in Task /\ Exists(h.task)
           /\ \A w \in batch : w \in Write /\ w.task \in Task
BY DEF Served, RuntimeInv, RuntimeTypeOK, RowsTyped, MemoryTyped, Serving, Half, Write

\* A row that is there is well formed.
LEMMA RowFacts ==
    ASSUME RowsTyped, NEW d \in Task
    PROVE  /\ HasRow(d) <=> row[d] \in Row
           /\ HasRow(d) => /\ row[d].state \in RowStates /\ row[d].attempt \in Nat \ {0}
                           /\ row[d].parent \in Task \cup {NoTask}
                           /\ row[d].context \in BOOLEAN
BY NoRowAssumption DEF RowsTyped, HasRow, Row

\* The tree of the rows stays while no row appears and none changes its parent.
LEMMA RowTreeStays ==
    ASSUME RowTree,
           \A d \in Task : /\ HasRow(d)' <=> HasRow(d)
                           /\ HasRow(d) => row'[d].parent = row[d].parent
    PROVE  RowTree'
<1>1. HasRow(Root)' /\ row'[Root].parent = NoTask
    BY TaskAssumption DEF RowTree
<1>2. ASSUME NEW d \in Task \ {Root}, HasRow(d)'
      PROVE  /\ row'[d].parent \in Task /\ HasRow(row[d].parent)'
             /\ row'[d].parent = row[d].parent
             /\ row'[row[d].parent].parent # NoTask =>
                    row'[row'[row'[d].parent].parent].parent = NoTask
  <2>1. /\ row'[d].parent = row[d].parent /\ HasRow(d)
        /\ row[d].parent \in Task /\ HasRow(row[d].parent)
    BY <1>2 DEF RowTree
  <2>2. row'[row[d].parent].parent = row[row[d].parent].parent
    BY <2>1
  <2>3. CASE row[d].parent = Root
    BY <2>1, <2>2, <2>3 DEF RowTree
  <2>4. CASE row[d].parent # Root
    <3>1. /\ row[row[d].parent].parent \in Task
          /\ HasRow(row[row[d].parent].parent)
        BY <2>1, <2>4 DEF RowTree
    <3> QED BY <1>2, <2>1, <2>2, <3>1 DEF RowTree
  <2> QED BY <2>3, <2>4
<1> QED BY <1>1, <1>2 DEF RowTree, HasRow

\* A step that the tree survives, that is fine for every task, and that begins
\* nothing for a task that is not there, keeps the invariant.
LEMMA Assembled ==
    ASSUME Served, Harmless,
           power' = power, crashes' = crashes, RowsTyped', MemoryTyped', RowTree',
           \A d \in Task : Fine(d),
           ~pass'.active => pass' = NoPass,
           pass'.active => batch' = {},
           \A h \in half' : h \in half \/ (Exists(h.task) /\ h.op # "spawn")
    PROVE  Held
<1>1. RuntimeTypeOK'
    BY DEF Harmless, RuntimeTypeOK, RowsTyped, MemoryTyped, Served, RuntimeInv
<1>2. TreeShape' /\ parent' = parent
    BY ServedTypes, HarmlessKeepsTree DEF Harmless
<1>3. \A d \in Task : Exists(d)' <=> Exists(d)
    BY DEF Harmless, Evolution, Exists
<1>4. ASSUME NEW h \in half'
      PROVE  /\ h.task \in Task /\ Exists(h.task)
             /\ h.op = "spawn" => h.task # Root /\ HasRow(parent[h.task])
    BY <1>4 DEF MemoryTyped, Half, Served, Serving
<1>5. ASSUME NEW h \in half', h.op = "spawn" PROVE HasRow(parent[h.task])'
  <2>1. h.task # Root /\ HasRow(parent[h.task]) /\ h.task \in Task /\ Exists(h.task)
    BY <1>4, <1>5
  <2>2. parent[h.task] \in Task
    BY <2>1, ServedTypes DEF TreeShape, TypeOK
  <2> QED BY <1>2, <2>1, <2>2 DEF Fine
<1>6. Serving'
    BY <1>2, <1>3, <1>4, <1>5 DEF Serving, Fine
<1>7. Up' /\ \A d \in Task : Sheltered(d)'
    BY DEF Served, Up, Fine
<1>8. \A d \in Task : Durable(d)
    BY DEF Fine
<1> QED BY <1>1, <1>6, <1>7, <1>8 DEF Held, RuntimeInv

\* A task that idles is fine, whether it is there or not.
LEMMA IdleFine ==
    ASSUME Served, NEW d \in Task, Idle(d)
    PROVE  Fine(d)
<1>1. Exists(d) => Kept(d)' /\ Durable(d)
    BY IdleKeeps, ServedTypes
<1>2. ~Exists(d) => Absent(d)'
    BY ServedTypes DEF Absent, Idle, Carried
<1>3. Sheltered(d)'
    BY ServedTypes DEF Sheltered, Idle, SameRow, HasRow
<1>4. Durable(d)
    BY DEF Durable, Idle, SameRow
<1> QED BY <1>1, <1>2, <1>3, <1>4 DEF Fine, Idle, SameRow, HasRow

\* A task that ends is fine.
LEMMA EndsFine ==
    ASSUME Served, NEW d \in Task, Exists(d), Ends(d)
    PROVE  Fine(d)
<1>1. Kept(d)' /\ Durable(d)
    BY EndsKeeps, ServedTypes
<1>2. Sheltered(d)'
  <2>1. CASE SameRow(d)
    BY <2>1, ServedTypes DEF Sheltered, SameRow, HasRow
  <2>2. CASE RowSet(d, tasks'[d].state)
    BY <2>2, StateFacts DEF Sheltered, RowSet, Ends, IsSettled
  <2> QED BY <2>1, <2>2 DEF Ends
<1> QED BY <1>1, <1>2 DEF Fine, Ends, SameRow, RowSet, HasRow

-----------------------------------------------------------------------------
(* What the operators of the two modules do to one task.                   *)

\* The rest of the tasks: untouched, or cancelled in the cascade.
Cascades(t) ==
    \A d \in Task \ {t} :
        tasks'[d] = tasks[d] \/ (Exists(d) /\ ~IsTerminal(tasks[d]) /\ Struck(d, tasks'[d]))

\* An event that is applied cascades, and changes its own task as the reducer says.
LEMMA AppliedCascades ==
    ASSUME TypeOK, TreeShape, NEW t \in Task, Exists(t), NEW event \in TaskEvent,
           tasks' = Applied(t, event).tasks
    PROVE  /\ Cascades(t) /\ tasks'[t] = Reduce(tasks[t], event).task
           /\ Applied(t, event).ok = Reduce(tasks[t], event).ok
           /\ ~Reduce(tasks[t], event).ok \/ ~IsSettled(tasks'[t]) =>
                  \A d \in Task \ {t} : tasks'[d] = tasks[d]
<1> DEFINE a == Applied(t, event)
<1>1. tasks[t] \in AgentTask /\ Reduce(tasks[t], event).task \in AgentTask
    BY ReduceFacts DEF TypeOK, Exists
<1>2. /\ a.tasks[t] = Reduce(tasks[t], event).task
      /\ a.ok = Reduce(tasks[t], event).ok
      /\ ~a.ok => a.victims = {}
      /\ a.victims # {} => IsSettled(a.tasks[t])
      /\ \A d \in Task \ {t} :
            IF d \in a.victims THEN Struck(d, a.tasks[d]) ELSE a.tasks[d] = tasks[d]
    BY <1>1, AppliedOthers
<1>3. \A d \in a.victims : Exists(d)
    BY AppliedFacts, DescendantsFacts
<1> HIDE DEF a
<1>4. ASSUME NEW d \in Task, Struck(d, a.tasks[d]) PROVE ~IsTerminal(tasks[d])
    BY <1>4, StateFacts DEF Struck, IsLive, IsTerminal
<1>5. Cascades(t)
    BY <1>2, <1>3, <1>4 DEF Cascades, a
<1> QED BY <1>2, <1>5 DEF a

\* The same for a task that is replaced and takes its victims with it.
LEMMA ReplacedCascades ==
    ASSUME TypeOK, TreeShape, NEW t \in Task, NEW new \in AgentTask,
           tasks' = CancelAll([tasks EXCEPT ![t] = new], Victims([tasks EXCEPT ![t] = new], t))
    PROVE  Cascades(t) /\ tasks'[t] = new
<1> DEFINE ts == [tasks EXCEPT ![t] = new]
           vs == Victims(ts, t)
<1>1. Replaces(ts, t, new)
    BY ReplacedFacts
<1>2. \A d \in vs : d \in Task /\ d \in Descendants(t)
    BY DEF Victims, LiveIn, Descendants
<1>3. tasks' = CancelAll(ts, vs) /\ vs = Victims(ts, t)
    OBVIOUS
<1> HIDE DEF ts, vs
<1>4. /\ tasks'[t] = new
      /\ \A d \in Task \ {t} :
            IF d \in vs THEN Struck(d, tasks'[d]) ELSE tasks'[d] = tasks[d]
  <2>1. /\ CancelAll(ts, vs)[t] = new
        /\ \A d \in Task \ {t} :
              IF d \in vs THEN Struck(d, CancelAll(ts, vs)[d])
                          ELSE CancelAll(ts, vs)[d] = tasks[d]
    BY <1>1, <1>3, CascadeOthers
  <2> QED BY <1>3, <2>1
<1>5. \A d \in vs : Exists(d)
    BY <1>2, DescendantsFacts
<1>6. ASSUME NEW d \in Task, Struck(d, tasks'[d]) PROVE ~IsTerminal(tasks[d])
    BY <1>6, StateFacts DEF Struck, IsLive, IsTerminal
<1> QED BY <1>4, <1>5, <1>6 DEF Cascades

\* A plain event takes an edge to its target, or is refused without a trace.
LEMMA PlainFacts ==
    ASSUME NEW task \in AgentTask, NEW kind \in PlainEvents
    PROVE  LET r == Reduce(task, Event(kind, task))
           IN  /\ Event(kind, task) \in TaskEvent
               /\ r.task \in AgentTask /\ r.task.attempt = task.attempt
               /\ r.ok <=> Target(kind) \in Successors(task.state)
               /\ r.ok => r.task.state = Target(kind) /\ ~IsTerminal(task)
               /\ ~r.ok => r.task = task
<1>1. Event(kind, task) \in TaskEvent
    BY EventType DEF EventKinds
<1>2. Reduce(task, Event(kind, task)) = TransitionTo(task, Target(kind), NoRequest)
    BY DEF Reduce, Event, PlainEvents, WaitEvents
<1>3. LET r == TransitionTo(task, Target(kind), NoRequest)
      IN  /\ r.task \in AgentTask /\ r.task.attempt = task.attempt
          /\ r.ok => Target(kind) \in Successors(task.state) /\ r.task.state = Target(kind)
          /\ ~r.ok => r.task = task
          /\ IsTerminal(task) => ~r.ok
    BY TransitionFacts, TargetIsState
<1>4. Target(kind) \in Successors(task.state) => TransitionTo(task, Target(kind), NoRequest).ok
    BY DEF TransitionTo, Accepted
<1> QED BY <1>1, <1>2, <1>3, <1>4

\* A transaction that sets the rows of S.
LEMMA SetFacts ==
    ASSUME RowsTyped, NEW S, NEW s \in RowStates, Set(S, s)
    PROVE  /\ row' \in [Task -> Row \cup {NoRow}]
           /\ leaseRow' \in [Task -> SUBSET LeaseKind]
           /\ \A d \in Task :
                /\ HasRow(d)' <=> HasRow(d)
                /\ d \notin S \/ ~HasRow(d) => SameRow(d)
                /\ d \in S /\ HasRow(d) =>
                     /\ RowSet(d, s) /\ row'[d].context = row[d].context
                     /\ leaseRow'[d] = IF Settles(s) THEN {} ELSE leaseRow[d]
<1>1. ASSUME NEW d \in Task, HasRow(d)
      PROVE  /\ [row[d] EXCEPT !.state = s] \in Row
             /\ [row[d] EXCEPT !.state = s].state = s
             /\ [row[d] EXCEPT !.state = s].attempt = row[d].attempt
             /\ [row[d] EXCEPT !.state = s].parent = row[d].parent
             /\ [row[d] EXCEPT !.state = s].context = row[d].context
    BY <1>1, NoRowAssumption DEF RowsTyped, HasRow, Row
<1>2. row' \in [Task -> Row \cup {NoRow}] /\ leaseRow' \in [Task -> SUBSET LeaseKind]
    BY <1>1 DEF Set, RowsTyped
<1>3. ASSUME NEW d \in Task
      PROVE  /\ d \notin S \/ ~HasRow(d) => SameRow(d)
             /\ d \in S /\ HasRow(d) =>
                  /\ row'[d] = [row[d] EXCEPT !.state = s]
                  /\ leaseRow'[d] = IF Settles(s) THEN {} ELSE leaseRow[d]
    BY DEF Set, SameRow
<1>4. ASSUME NEW d \in Task, d \notin S \/ ~HasRow(d)
      PROVE  SameRow(d) /\ (HasRow(d)' <=> HasRow(d))
    BY <1>3, <1>4 DEF SameRow, HasRow
<1>5. ASSUME NEW d \in Task, d \in S, HasRow(d)
      PROVE  /\ RowSet(d, s) /\ row'[d].context = row[d].context
             /\ leaseRow'[d] = IF Settles(s) THEN {} ELSE leaseRow[d]
  <2>1. row'[d] = [row[d] EXCEPT !.state = s]
    BY <1>3, <1>5
  <2>2. row'[d] # NoRow
    BY <1>1, <1>5, <2>1, NoRowAssumption
  <2> QED BY <1>1, <1>3, <1>5, <2>1, <2>2 DEF RowSet, HasRow
<1>6. \A d \in Task : HasRow(d)' <=> HasRow(d)
    BY <1>4, <1>5 DEF RowSet
<1> QED BY <1>2, <1>4, <1>5, <1>6

\* What follows a step that settled t in state s and cascaded.
LEMMA PersistSettledFacts ==
    ASSUME RowsTyped, NEW t \in Task, NEW s \in SettledStates, PersistSettled(t, s)
    PROVE  /\ row' \in [Task -> Row \cup {NoRow}]
           /\ leaseRow' \in [Task -> SUBSET LeaseKind]
           /\ \A d \in Task : HasRow(d)' <=> HasRow(d)
           /\ HasRow(t) => RowSet(t, s) /\ leaseRow'[t] = {} /\ t \notin resident'
           /\ \A d \in Task \ {t} :
                IF tasks'[d] = tasks[d]
                THEN SameRow(d) /\ (d \in resident' <=> d \in resident)
                                /\ (d \in astray' <=> d \in astray)
                ELSE /\ d \notin resident'
                     /\ d \in astray \/ ~Matches(d, tasks[d].attempt) <=> d \in astray'
                     /\ HasRow(d) => RowSet(d, "Cancelled") /\ leaseRow'[d] = {}
                     /\ ~HasRow(d) => SameRow(d)
           /\ t \in astray => t \in astray'
           /\ resident' \subseteq resident /\ astray' \subseteq astray \cup Task
<1> DEFINE victims == {d \in Task : d # t /\ tasks'[d] # tasks[d]}
           RowIn(d, x) == [row[d] EXCEPT !.state = x]
<1>1. ASSUME NEW d \in Task, HasRow(d), NEW x \in {s, "Cancelled"}
      PROVE  /\ RowIn(d, x) \in Row /\ RowIn(d, x).state = x
             /\ RowIn(d, x).attempt = row[d].attempt /\ RowIn(d, x).parent = row[d].parent
  <2>1. x \in RowStates
    BY DEF RowStates, TaskStates, TerminalStates, SettledStates
  <2> QED BY <1>1, <2>1, NoRowAssumption DEF RowsTyped, HasRow, Row
<1>2. ASSUME NEW d \in Task
      PROVE  /\ d = t /\ HasRow(d) => row'[d] = RowIn(d, s)
             /\ d \in victims /\ HasRow(d) => row'[d] = RowIn(d, "Cancelled")
             /\ d \notin victims \cup {t} \/ ~HasRow(d) => SameRow(d)
             /\ d \in victims \cup {t} /\ HasRow(d) => leaseRow'[d] = {}
    BY DEF PersistSettled, SameRow
<1>3. /\ resident' = resident \ (victims \cup {t})
      /\ astray' = astray \cup {d \in victims : ~Matches(d, tasks[d].attempt)}
    BY DEF PersistSettled
<1> HIDE DEF RowIn
<1>4. row' \in [Task -> Row \cup {NoRow}]
  <2>1. \A d \in Task : row'[d] \in Row \cup {NoRow}
    BY <1>1, <1>2 DEF RowsTyped, SameRow
  <2>2. row' = [d \in Task |-> row'[d]]
    BY DEF PersistSettled
  <2> QED BY <2>1, <2>2
<1>5. leaseRow' \in [Task -> SUBSET LeaseKind]
    BY DEF PersistSettled, RowsTyped
<1>6. ASSUME NEW d \in Task
      PROVE  /\ HasRow(d)' <=> HasRow(d)
             /\ d = t /\ HasRow(d) => RowSet(d, s)
             /\ d \in victims /\ HasRow(d) => RowSet(d, "Cancelled")
    BY <1>1, <1>2, NoRowAssumption DEF RowSet, HasRow, SameRow
<1> QED BY <1>2, <1>3, <1>4, <1>5, <1>6

-----------------------------------------------------------------------------
(* Operations that write no row and move no task.                          *)

\* No half that writes a row begins or ends.
SameHalves == \A h : h.op \notin {"start", "detach"} => (h \in half' <=> h \in half)

\* The rest of memory is carried over.
LEMMA CarriedAll ==
    ASSUME UNCHANGED <<parent, pass, batch>>, SameHalves, astray \subseteq astray',
           \A d \in Task : HasWorker(d)' => HasWorker(d)
    PROVE  \A d \in Task : Carried(d)
<1>1. \A d \in Task : HalvesOf(d)' = HalvesOf(d) /\ WritesOf(d)' = WritesOf(d)
    BY DEF HalvesOf, WritesOf, SameHalves
<1> QED BY <1>1 DEF Carried

\* A step in which every task idles.
LEMMA IdleHeld ==
    ASSUME Served, Harmless, UNCHANGED <<power, crashes, store>>, MemoryTyped',
           \A d \in Task : Idle(d),
           ~pass'.active => pass' = NoPass,
           pass'.active => batch' = {},
           \A h \in half' : h \in half \/ (Exists(h.task) /\ h.op # "spawn")
    PROVE  Held
<1>1. RowsTyped'
    BY ServedTypes DEF RowsTyped, store
<1>2. RowTree'
    BY ServedTypes, RowTreeStays DEF store, HasRow
<1>3. \A d \in Task : Fine(d)
    BY IdleFine
<1> QED BY <1>1, <1>2, <1>3, Assembled

\* The same when the operation leaves the pass and the collected writes alone.
LEMMA OperationHeld ==
    ASSUME Served, Harmless, UNCHANGED <<power, crashes, store, pass, batch, resident, astray>>,
           MemoryTyped', SameHalves,
           \A d \in Task :
              /\ tasks'[d].state = tasks[d].state /\ tasks'[d].attempt = tasks[d].attempt
              /\ tasks[d].pauseRequest => tasks'[d].pauseRequest
              /\ HasWorker(d)' => HasWorker(d),
           \A h \in half' : h \in half \/ (Exists(h.task) /\ h.op # "spawn")
    PROVE  Held
<1>1. \A d \in Task : Carried(d)
    BY CarriedAll DEF Harmless
<1>2. \A d \in Task : Idle(d)
    BY <1>1 DEF Idle, SameRow, store
<1>3. /\ ~pass'.active => pass' = NoPass
      /\ pass'.active => batch' = {}
    BY DEF Served, Serving
<1> QED BY <1>2, <1>3, IdleHeld

\* A step of the coordinator alone.
LEMMA StutterHarmless ==
    ASSUME TypeOK, TreeShape, UNCHANGED vars
    PROVE  Harmless
<1>1. worker' \in HandleFunction /\ \A t \in Task : worker'[t] # NoWorker => Exists(t)
    BY DEF vars, TypeOK, HandleFunction, TreeShape, HasWorker
<1> QED BY <1>1, NoEvolution, HarmlessFromParts DEF vars

\* A pause is only asked for.
LEMMA PausesFacts ==
    ASSUME TypeOK, TreeShape, NEW S \in SUBSET {t \in Task : HasWorker(t)}, RequestPauses(S)
    PROVE  /\ \A d \in Task :
                /\ tasks'[d].state = tasks[d].state /\ tasks'[d].attempt = tasks[d].attempt
                /\ tasks[d].pauseRequest => tasks'[d].pauseRequest
                /\ HasWorker(d)' => HasWorker(d)
           /\ UNCHANGED pass
<1>1. ASSUME NEW d \in S
      PROVE  /\ tasks[d] \in AgentTask
             /\ tasks'[d] = [tasks[d] EXCEPT !.pauseRequest = TRUE]
  <2> DEFINE paused == [tasks[d] EXCEPT !.pauseRequest = TRUE]
  <2>1. d \in Task /\ tasks[d] \in AgentTask
    BY <1>1 DEF TypeOK, TreeShape, Exists
  <2>2. Reduce(tasks[d], Event("PauseRequested", tasks[d])).task = paused
    BY DEF Reduce, Event, PlainEvents, WaitEvents, ReduceOther, Accepted
  <2>3. tasks'[d] = Reduce(tasks[d], Event("PauseRequested", tasks[d])).task
    BY <1>1, <2>1 DEF RequestPauses
  <2> HIDE DEF paused
  <2>4. tasks'[d] = paused
    BY <2>2, <2>3
  <2> QED BY <2>1, <2>4 DEF paused
<1>2. \A d \in Task \ S : tasks'[d] = tasks[d] /\ worker'[d] = worker[d]
    BY DEF RequestPauses
<1>3. ASSUME NEW d \in Task
      PROVE  /\ tasks'[d].state = tasks[d].state /\ tasks'[d].attempt = tasks[d].attempt
             /\ tasks[d].pauseRequest => tasks'[d].pauseRequest
  <2>1. CASE d \in S
    BY <1>1, <2>1 DEF AgentTask
  <2>2. CASE d \notin S
    BY <1>2, <2>2
  <2> QED BY <2>1, <2>2
<1>4. \A d \in Task : HasWorker(d)' => HasWorker(d)
    BY <1>2 DEF HasWorker
<1> QED BY <1>3, <1>4 DEF RequestPauses

\* A pause is a request to one worker: nothing else moves.
LEMMA PauseHeld ==
    ASSUME Served, NEW t \in Task, Pause(t)
    PROVE  Held
<1>1. /\ PauseTask(t)
      /\ UNCHANGED <<power, crashes, store, draining, resident, gate, batch, half, astray>>
    BY DEF Pause, Alone, memory, store
<1>2. /\ TypeOK /\ TreeShape
      /\ {t} \in SUBSET {d \in Task : HasWorker(d)} /\ RequestPauses({t})
    BY <1>1, ServedTypes DEF PauseTask
<1>3. Harmless
    BY <1>1, <1>2, DrainHarmless
<1>4. MemoryTyped' /\ SameHalves
    BY <1>1, ServedTypes DEF MemoryTyped, SameHalves
<1> QED BY <1>1, <1>2, <1>3, <1>4, PausesFacts, OperationHeld

\* A worker puts a report in the mailbox of its handle, and no row knows.
LEMMA WorkerPostsHeld ==
    ASSUME Served, WorkerPosts
    PROVE  Held
<1>1. PICK t \in Task, e \in WorkerReports : WorkerReport(t, e)
    BY DEF WorkerPosts
<1>2. UNCHANGED <<power, crashes, store, draining, resident, gate, batch, half, astray>>
    BY DEF WorkerPosts, memory
<1>3. Harmless
    BY <1>1, ServedTypes, WorkerReportHarmless
<1>4. MemoryTyped' /\ SameHalves
    BY <1>2, ServedTypes DEF MemoryTyped, SameHalves
<1>5. \A d \in Task : HasWorker(d)' => HasWorker(d)
    BY <1>1, ServedTypes DEF WorkerReport, HasWorker, TypeOK
<1> QED BY <1>1, <1>2, <1>3, <1>4, <1>5, OperationHeld DEF WorkerReport

\* A drain asks the workers for a checkpoint and writes nothing.
LEMMA DrainHeld ==
    ASSUME Served, Drain
    PROVE  Held
<1>1. /\ UNCHANGED <<power, crashes, store, resident, gate, batch, half, astray>>
      /\ draining' = TRUE
    BY DEF Drain, Alone, store
<1>2. TypeOK /\ TreeShape
    BY ServedTypes
<1>3. MemoryTyped' /\ SameHalves
    BY <1>1, ServedTypes DEF MemoryTyped, SameHalves
<1>4. CASE RequestSafeCheckpoints
  <2>1. RequestPauses({d \in Task : HasWorker(d)})
    BY <1>4 DEF RequestSafeCheckpoints
  <2>2. Harmless
    BY <1>2, <1>4, DrainHarmless
  <2> QED BY <1>1, <1>2, <1>3, <2>1, <2>2, PausesFacts, OperationHeld
<1>5. CASE UNCHANGED vars
  <2>1. Harmless
    BY <1>2, <1>5, StutterHarmless
  <2> QED BY <1>1, <1>3, <1>5, <2>1, OperationHeld DEF vars, HasWorker
<1> QED BY <1>4, <1>5 DEF Drain

\* A prepared child is handed to the start: an operation that writes no row yet.
LEMMA ResumePreparedHeld ==
    ASSUME Served, NEW t \in Task, ResumePrepared(t)
    PROVE  Held
<1>1. /\ UNCHANGED <<vars, power, crashes, store, draining, resident, gate, batch, astray>>
      /\ Exists(t) /\ half' = half \cup {Starting(t)}
    BY DEF ResumePrepared, Alone, store
<1>2. Harmless
    BY <1>1, ServedTypes, StutterHarmless
<1>3. Starting(t) \in Half /\ Starting(t).op = "start" /\ Starting(t).task = t
    BY DEF Starting, Half
<1>4. MemoryTyped' /\ SameHalves
    BY <1>1, <1>3, ServedTypes DEF MemoryTyped, SameHalves
<1>5. \A h \in half' : h \in half \/ (Exists(h.task) /\ h.op # "spawn")
    BY <1>1, <1>3
<1> QED BY <1>1, <1>2, <1>4, <1>5, OperationHeld DEF vars, HasWorker

\* A start that admission denies leaves the task as it was.
LEMMA StartDeniedHeld ==
    ASSUME Served, NEW h \in half, StartDenied(h)
    PROVE  Held
<1>1. /\ UNCHANGED <<vars, power, crashes, store, draining, resident, gate, batch, astray>>
      /\ h.op = "start" /\ half' = half \ {h}
    BY DEF StartDenied, Alone, store
<1>2. Harmless
    BY <1>1, ServedTypes, StutterHarmless
<1>3. MemoryTyped' /\ SameHalves
    BY <1>1, ServedTypes DEF MemoryTyped, SameHalves
<1> QED BY <1>1, <1>2, <1>3, OperationHeld DEF vars, HasWorker

\* The root is asked to pause before its row is written.
LEMMA DetachRootHeld ==
    ASSUME Served, DetachRoot
    PROVE  Held
<1> DEFINE h == [op |-> "detach", task |-> Root, attempt |-> tasks[Root].attempt]
<1>1. /\ UNCHANGED <<power, crashes, store, draining, resident, gate, batch, astray>>
      /\ Exists(Root) /\ half' = half \cup {h}
      /\ PauseForegroundTask \/ UNCHANGED vars
    BY DEF DetachRoot, Alone, store
<1>2. TypeOK /\ TreeShape /\ tasks[Root] \in AgentTask
    BY <1>1, ServedTypes, TaskAssumption DEF TypeOK, Exists
<1>3. h \in Half /\ h.op = "detach" /\ h.task = Root
    BY <1>2, TaskAssumption DEF Half, AgentTask
<1> HIDE DEF h
<1>4. MemoryTyped' /\ SameHalves
    BY <1>1, <1>3, ServedTypes DEF MemoryTyped, SameHalves
<1>5. \A g \in half' : g \in half \/ (Exists(g.task) /\ g.op # "spawn")
    BY <1>1, <1>3
<1>6. CASE PauseForegroundTask
  <2> DEFINE event == Event("PauseRequested", tasks[Root])
             paused == [tasks[Root] EXCEPT !.pauseRequest = TRUE]
  <2>1. event \in TaskEvent
    BY <1>2, EventType DEF EventKinds, OtherEvents
  <2>2. Reduce(tasks[Root], event).task = paused
    BY DEF Reduce, Event, PlainEvents, WaitEvents, ReduceOther, Accepted
  <2>3. /\ paused.state = tasks[Root].state /\ paused.attempt = tasks[Root].attempt
        /\ paused.pauseRequest
    BY <1>2 DEF AgentTask
  <2>4. ~IsSettled(paused)
    BY <1>6, <2>3, StateFacts DEF PauseForegroundTask, IsLive, IsSettled
  <2>5. /\ tasks' = Applied(Root, event).tasks
        /\ worker' = CancelWorkers(Applied(Root, event).victims)
        /\ UNCHANGED pass
    BY <1>6 DEF PauseForegroundTask, Transition
  <2> HIDE DEF event, paused
  <2>6. tasks'[Root] = paused /\ \A d \in Task \ {Root} : tasks'[d] = tasks[d]
    BY <1>1, <1>2, <2>1, <2>2, <2>4, <2>5, AppliedCascades, TaskAssumption
  <2>7. \A d \in Task : HasWorker(d)' => HasWorker(d)
    BY <1>2, <2>5, CancelWorkersFacts DEF HasWorker
  <2>8. Harmless
    BY <1>2, <1>6, ForegroundHarmless
  <2> QED BY <1>1, <1>4, <1>5, <2>3, <2>5, <2>6, <2>7, <2>8, OperationHeld
<1>7. CASE UNCHANGED vars
  <2>1. Harmless
    BY <1>2, <1>7, StutterHarmless
  <2> QED BY <1>1, <1>4, <1>5, <1>7, <2>1, OperationHeld DEF vars, HasWorker
<1> QED BY <1>1, <1>6, <1>7

-----------------------------------------------------------------------------
(* Reconciliation.                                                         *)

\* What all steps of a pass leave alone.
PassStep ==
    /\ UNCHANGED <<power, crashes, store, draining, resident, gate, half>>
    /\ pass.active \/ batch = {}

\* A pass begins: what it takes, it takes from the workers.
LEMMA PassBegins ==
    ASSUME Served, PassStep, ReconcileBegin, UNCHANGED <<batch, astray>>
    PROVE  Held
<1>1. /\ Unlocked /\ UNCHANGED <<tasks, parent, depth, report, strays>>
      /\ pass' = [active  |-> TRUE,
                  pending |-> {<<t, worker[t].event>> : t \in Posted},
                  changed |-> {}]
      /\ worker' = [t \in Task |-> IF t \in Posted
                                   THEN [worker[t] EXCEPT !.event = "Taken"]
                                   ELSE worker[t]]
    BY DEF ReconcileBegin
<1>2. Harmless
    BY ServedTypes, ReconcileBeginHarmless
<1>3. \A d \in Task : HasWorker(d)' => HasWorker(d)
    BY <1>1 DEF HasWorker, Posted
<1>4. \A p \in pass'.pending : HasWorker(p[1])
    BY <1>1 DEF Posted
<1>5. pass.changed = {} /\ pass'.changed = {} /\ pass'.active /\ batch = {}
    BY <1>1 DEF Served, Serving, NoPass, Unlocked, PassStep
<1>6. \A d \in Task : HalvesOf(d)' = HalvesOf(d) /\ WritesOf(d)' = WritesOf(d)
    BY DEF HalvesOf, WritesOf, PassStep
<1>7. \A d \in Task : Carried(d)
    BY <1>1, <1>3, <1>4, <1>5, <1>6 DEF Carried
<1>8. \A d \in Task : Idle(d)
    BY <1>1, <1>7 DEF Idle, SameRow, PassStep, store
<1>9. MemoryTyped'
    BY ServedTypes DEF MemoryTyped, PassStep
<1> QED BY <1>2, <1>5, <1>8, <1>9, IdleHeld DEF PassStep

\* An event of a task that ended is dropped.
LEMMA PassSkips ==
    ASSUME Served, PassStep, NEW t \in Task, NEW e \in FinalEvents, ReconcileSkip(t, e),
           UNCHANGED <<batch, astray>>
    PROVE  Held
<1>1. /\ UNCHANGED <<tasks, parent, depth, worker, report, strays>>
      /\ <<t, e>> \in pass.pending
      /\ pass' = [pass EXCEPT !.pending = @ \ {<<t, e>>}]
    BY DEF ReconcileSkip
<1>2. Harmless
    BY ServedTypes, ReconcileEventHarmless
<1>3. /\ pass'.pending \subseteq pass.pending
      /\ pass'.changed = pass.changed /\ pass'.active = pass.active
    BY <1>1, ServedTypes DEF TypeOK, Pass
<1>4. pass.active /\ batch = {}
    BY <1>1 DEF Served, Serving, NoPass
<1>5. \A d \in Task : HalvesOf(d)' = HalvesOf(d) /\ WritesOf(d)' = WritesOf(d)
    BY DEF HalvesOf, WritesOf, PassStep
<1>6. \A d \in Task : Carried(d)
    BY <1>1, <1>3, <1>5 DEF Carried, HasWorker
<1>7. \A d \in Task : Idle(d)
    BY <1>1, <1>6 DEF Idle, SameRow, PassStep, store
<1>8. MemoryTyped'
    BY ServedTypes DEF MemoryTyped, PassStep
<1> QED BY <1>2, <1>3, <1>4, <1>7, <1>8, IdleHeld DEF PassStep

\* A refused event leaves its task asked to pause, unless it has paused.
LEMMA RefusalKeepsRequest ==
    ASSUME NEW task \in AgentTask, ~IsTerminal(task), NEW e \in FinalEvents,
           ~Reduce(task, Event(TaskEventOf(e), task)).ok
    PROVE  LET new == Reduce(task, Event(TaskEventOf(e), task)).task
           IN  /\ new.state = task.state /\ new.attempt = task.attempt
               /\ task.pauseRequest => new.pauseRequest \/ task.state = "Paused"
<1> DEFINE kind == TaskEventOf(e)
           r    == Reduce(task, Event(kind, task))
           handed   == [task EXCEPT !.delivered = TRUE]
           unpaused == [task EXCEPT !.pauseRequest = FALSE]
<1>1. /\ kind \in PlainEvents \cup {"WorkerDelivered", "WorkerDeliveredInvalid",
                                    "PauseAcknowledged"}
      /\ kind # "RetryRequested" /\ kind \notin WaitEvents
    BY DEF TaskEventOf, PlainEvents, WaitEvents
<1>2. Event(kind, task) \in TaskEvent /\ Event(kind, task).kind = kind
    BY <1>1, EventType DEF EventKinds, OtherEvents
<1> HIDE DEF kind
<1>3. r.task.state = task.state /\ r.task.attempt = task.attempt
    BY <1>1, <1>2, ReduceFacts DEF kind
<1>4. task.pauseRequest => r.task.pauseRequest \/ task.state = "Paused"
  <2>1. CASE kind \in PlainEvents
    BY <2>1, PlainFacts DEF kind
  <2>2. CASE kind \in {"WorkerDelivered", "WorkerDeliveredInvalid", "PauseAcknowledged"}
    <3>1. r = ReduceOther(task, kind)
        BY <2>2 DEF Reduce, Event, PlainEvents, WaitEvents
    <3>2. CASE kind = "WorkerDelivered"
        <4>1. r = TransitionTo(handed, "Completed", NoRequest)
            BY <3>1, <3>2 DEF ReduceOther
        <4>2. r.task = handed
            BY <4>1 DEF TransitionTo, Rejected, Accepted, kind
        <4>3. handed.pauseRequest = task.pauseRequest
            BY DEF AgentTask
        <4> QED BY <4>2, <4>3
    <3>3. CASE kind = "WorkerDeliveredInvalid"
        <4>1. r.task = task
            BY <3>1, <3>3 DEF ReduceOther, Rejected
        <4> QED BY <4>1
    <3>4. CASE kind = "PauseAcknowledged" /\ task.pauseRequest
        <4>1. r = TransitionTo(unpaused, "Paused", NoRequest)
            BY <3>1, <3>4 DEF ReduceOther
        <4>2. "Paused" \notin Successors(unpaused.state)
            BY <4>1 DEF TransitionTo, Accepted, kind
        <4>3. unpaused.state = task.state /\ task.state \in TaskStates
            BY DEF AgentTask
        <4>4. "Paused" \notin Successors(task.state)
            BY <4>2, <4>3
        <4>5. task.state \in LiveStates
            BY <4>3 DEF TaskStates, IsTerminal
        <4> QED BY <4>4, <4>5 DEF LiveStates, Successors, WaitingStates
    <3> QED BY <2>2, <3>2, <3>3, <3>4
  <2> QED BY <1>1, <2>1, <2>2
<1> QED BY <1>3, <1>4 DEF kind

\* A refused event ends the pass: what it has collected goes astray.
LEMMA PassAborts ==
    ASSUME Served, PassStep, NEW t \in Task, NEW e \in FinalEvents, ReconcileAbort(t, e),
           astray' = astray \cup pass.changed, UNCHANGED batch
    PROVE  Held
<1> DEFINE event == Event(TaskEventOf(e), tasks[t])
           a     == Applied(t, event)
<1>1. /\ UNCHANGED <<parent, depth, worker, report, strays>>
      /\ <<t, e>> \in pass.pending
      /\ ~IsTerminal(tasks[t])
      /\ ~(Deliverable(t, e) /\ a.ok)
      /\ tasks' = IF Deliverable(t, e) THEN a.tasks ELSE tasks
      /\ pass' = NoPass
    BY DEF ReconcileAbort
<1>2. Harmless
    BY ServedTypes, ReconcileEventHarmless
<1>3. Exists(t) /\ tasks[t] \in AgentTask /\ event \in TaskEvent
    BY <1>1, ServedTypes, PendingFacts, ReportedEvent
<1>4. \A d \in Task :
        /\ tasks'[d].state = tasks[d].state /\ tasks'[d].attempt = tasks[d].attempt
        /\ tasks[d].pauseRequest => tasks'[d].pauseRequest \/ tasks[d].state = "Paused"
  <2>1. CASE Deliverable(t, e)
    <3>1. tasks' = a.tasks /\ ~a.ok
        BY <1>1, <2>1
    <3>2. /\ tasks'[t] = Reduce(tasks[t], event).task /\ ~Reduce(tasks[t], event).ok
          /\ \A d \in Task \ {t} : tasks'[d] = tasks[d]
        BY <1>3, <3>1, ServedTypes, AppliedCascades
    <3> QED BY <1>1, <1>3, <3>2, RefusalKeepsRequest
  <2>2. CASE ~Deliverable(t, e)
    BY <1>1, <2>2
  <2> QED BY <2>1, <2>2
<1>5. pass'.pending = {} /\ pass'.changed = {} /\ ~pass'.active
    BY <1>1 DEF NoPass
<1>6. \A d \in Task : HalvesOf(d)' = HalvesOf(d) /\ WritesOf(d)' = WritesOf(d)
    BY DEF HalvesOf, WritesOf, PassStep
<1>7. \A d \in Task : Carried(d)
    BY <1>1, <1>5, <1>6 DEF Carried, HasWorker
<1>8. \A d \in Task : Idle(d)
    BY <1>4, <1>7 DEF Idle, SameRow, PassStep, store
<1>9. MemoryTyped'
    BY ServedTypes DEF MemoryTyped, PassStep, TypeOK, Pass
<1> QED BY <1>1, <1>2, <1>5, <1>8, <1>9, IdleHeld DEF PassStep

\* A task that a pass moves is reported; its row follows later.
LEMMA PassedKeeps ==
    ASSUME NEW d \in Task, Kept(d), ~IsTerminal(tasks[d]), SameRow(d),
           tasks'[d].state \in LeftByPass, tasks'[d].attempt = tasks[d].attempt,
           tasks'[d].state = "Paused" => tasks[d].state \in {"Running", "Paused"},
           parent'[d] = parent[d], ~HasWorker(d)', HalvesOf(d)' = HalvesOf(d),
           WritesOf(d) = {}, WritesOf(d)' = {}, d \in pass'.changed,
           d \in astray => d \in astray'
    PROVE  Kept(d)' /\ Durable(d)
<1>1. InMemory(d)'
    BY StateFacts DEF InMemory
<1>2. Attempts(d)'
    BY StateFacts DEF Kept, Attempts, SameRow, HasRow, Unopened
<1>3. Collects(d)'
    BY DEF Collects
<1>4. Housed(d)'
    BY DEF Housed
<1>5. Recorded(d)'
    BY StateFacts DEF Kept, Recorded, SameRow, HasRow, Writing, Unopened, IsTerminal
<1>6. Leased(d)'
    BY DEF Leased, Writing
<1>7. HasRow(d)' => row'[d].parent = parent'[d]
    BY DEF Kept, SameRow, HasRow
<1>8. Durable(d)
    BY DEF Durable, SameRow
<1> QED BY <1>1, <1>2, <1>3, <1>4, <1>5, <1>6, <1>7, <1>8 DEF Kept

\* An event is applied: exactly the tasks it moves are reported.
LEMMA PassApplies ==
    ASSUME Served, PassStep, NEW t \in Task, NEW e \in FinalEvents, ReconcileApply(t, e),
           UNCHANGED <<batch, astray>>
    PROVE  Held
<1> DEFINE event == Event(TaskEventOf(e), tasks[t])
           a     == Applied(t, event)
           w     == CancelWorkers(a.victims)
           moved == Moved(t, a)
<1>1. /\ <<t, e>> \in pass.pending
      /\ ~IsTerminal(tasks[t]) /\ a.ok
      /\ tasks' = a.tasks /\ worker' = Drop(w, moved)
      /\ pass' = [pass EXCEPT !.pending = @ \ {<<t, e>>}, !.changed = @ \cup moved]
      /\ UNCHANGED <<parent, depth>>
    BY DEF ReconcileApply
<1>2. Harmless
    BY ServedTypes, ReconcileEventHarmless
<1>3. /\ Exists(t) /\ tasks[t] \in AgentTask /\ event \in TaskEvent
      /\ event.kind = TaskEventOf(e)
      /\ a.victims \subseteq Descendants(t)
    BY <1>1, ServedTypes, PendingFacts, ReportedEvent DEF Event
<1>4. /\ Reduce(tasks[t], event).task \in AgentTask
      /\ Reduce(tasks[t], event).task.attempt = tasks[t].attempt
    BY <1>3, ReduceFacts, ReportedOutcomes
<1>5. /\ a.tasks[t] = Reduce(tasks[t], event).task
      /\ a.ok = Reduce(tasks[t], event).ok
      /\ t \notin a.victims /\ a.victims \subseteq Task
      /\ \A d \in Task \ {t} :
            IF d \in a.victims THEN Struck(d, a.tasks[d]) ELSE a.tasks[d] = tasks[d]
    BY <1>4, ServedTypes, AppliedOthers
<1>6. a.tasks[t].state \in Outcomes(tasks[t], TaskEventOf(e))
    BY <1>1, <1>3, <1>5, OutcomeFacts
<1>7. a.tasks[t].state \in {"Completed", "CompletedNoChanges", "BudgetExhausted", "Paused",
                            "Cancelled", "Blocked", "Failed"}
    BY <1>3, <1>6, ReportedOutcomes
<1>8. \A d \in a.victims : Exists(d)
    BY <1>3, ServedTypes, DescendantsFacts
<1> HIDE DEF event, a
<1>9. moved = {t} \cup a.victims
    BY <1>5, <1>7 DEF Moved, IsTerminal, TerminalStates, SettledStates, Struck
<1>10. /\ \A d \in moved : ~HasWorker(d)'
       /\ \A d \in Task : HasWorker(d)' => HasWorker(d)
    BY <1>1, <1>5, <1>9 DEF Drop, CancelWorkers, HasWorker
<1> HIDE DEF moved, w
<1>11. /\ pass'.pending \subseteq pass.pending
       /\ pass'.changed = pass.changed \cup moved /\ pass'.active = pass.active
    BY <1>1, ServedTypes DEF TypeOK, Pass
<1>12. pass.active /\ batch = {}
    BY <1>1 DEF Served, Serving, NoPass
<1>13. \A d \in Task : HalvesOf(d)' = HalvesOf(d) /\ WritesOf(d)' = {} /\ WritesOf(d) = {}
    BY <1>12 DEF HalvesOf, WritesOf, PassStep
<1>14. \A d \in Task : SameRow(d)
    BY DEF SameRow, PassStep, store
<1>15. tasks[t].state \in {"Running", "Paused"}
  <2>1. Kept(t)
    BY <1>3, ServedTypes
  <2>2. <<t, e>>[1] = t
    OBVIOUS
  <2> QED BY <1>1, <2>1, <2>2 DEF Kept, InMemory, IsTerminal
<1>16. ASSUME NEW d \in moved
       PROVE  /\ d \in Task /\ Exists(d) /\ ~IsTerminal(tasks[d])
              /\ tasks'[d].state \in LeftByPass /\ tasks'[d].attempt = tasks[d].attempt
              /\ tasks'[d].state = "Paused" => tasks[d].state \in {"Running", "Paused"}
  <2>1. CASE d = t
    BY <1>1, <1>3, <1>4, <1>5, <1>7, <1>15, <2>1 DEF LeftByPass, SettledStates
  <2>2. CASE d \in a.victims
    <3>1. d \in Task /\ Exists(d) /\ Struck(d, tasks'[d])
        BY <1>1, <1>5, <1>8, <2>2
    <3> QED BY <3>1, StateFacts DEF Struck, LeftByPass, SettledStates, IsLive, IsTerminal
  <2> QED BY <1>9, <2>1, <2>2
<1>17. ASSUME NEW d \in Task PROVE Fine(d)
  <2>1. CASE d \in moved
    <3>1. Exists(d) /\ Kept(d) /\ Sheltered(d)
        BY <1>16, <2>1, ServedTypes
    <3>2. Kept(d)' /\ Durable(d)
        BY <1>1, <1>10, <1>11, <1>13, <1>14, <1>16, <2>1, <3>1, PassedKeeps
    <3> QED BY <1>14, <3>1, <3>2 DEF Fine, Sheltered, SameRow, HasRow
  <2>2. CASE d \notin moved
    <3>1. tasks'[d] = tasks[d]
        BY <1>1, <1>5, <1>9, <2>2
    <3>2. Carried(d)
        BY <1>1, <1>10, <1>11, <1>13, <2>2 DEF Carried
    <3>3. Idle(d)
        BY <1>14, <3>1, <3>2 DEF Idle, PassStep
    <3> QED BY <3>3, IdleFine
  <2> QED BY <2>1, <2>2
<1>18. MemoryTyped' /\ RowsTyped'
    BY ServedTypes DEF MemoryTyped, RowsTyped, PassStep, store
<1>19. RowTree'
    BY ServedTypes, RowTreeStays DEF PassStep, store, HasRow
<1> QED BY <1>2, <1>11, <1>12, <1>17, <1>18, <1>19, Assembled DEF PassStep

\* A pass returns: what it reports is collected as it is now.
LEMMA PassReturns ==
    ASSUME Served, PassStep, ReconcileReturn, UNCHANGED astray,
           batch' = {[task |-> t, attempt |-> tasks[t].attempt, state |-> tasks[t].state]
                       : t \in pass.changed}
    PROVE  Held
<1>1. /\ pass.active /\ pass' = NoPass
      /\ UNCHANGED <<tasks, parent, depth, worker, report, strays>>
    BY DEF ReconcileReturn
<1>2. Harmless
    BY ServedTypes, ReconcileReturnHarmless
<1>3. batch = {} /\ pass'.changed = {} /\ pass'.pending = {} /\ ~pass'.active
    BY <1>1 DEF Served, Serving, NoPass
<1>4. \A d \in Task : SameRow(d) /\ HalvesOf(d)' = HalvesOf(d) /\ WritesOf(d) = {}
    BY <1>3 DEF SameRow, HalvesOf, WritesOf, PassStep, store
<1>5. ASSUME NEW d \in pass.changed
      PROVE  d \in Task /\ Exists(d) /\ Kept(d) /\ tasks[d] \in AgentTask
  <2>1. d \in Task
    BY ServedTypes DEF TypeOK, Pass
  <2>2. Exists(d)
    BY <2>1, ServedTypes DEF Absent
  <2> QED BY <2>1, <2>2, ServedTypes DEF TypeOK, Exists
<1>6. batch' \subseteq Write
    BY <1>5 DEF Write, AgentTask
<1>7. ASSUME NEW d \in Task PROVE Fine(d)
  <2>1. CASE d \notin pass.changed
    <3>1. WritesOf(d)' = {}
        BY <2>1 DEF WritesOf
    <3>2. Carried(d)
        BY <1>1, <1>3, <1>4, <2>1, <3>1 DEF Carried, HasWorker
    <3>3. Idle(d)
        BY <1>1, <1>4, <3>2 DEF Idle, PassStep
    <3> QED BY <3>3, IdleFine
  <2>2. CASE d \in pass.changed
    <3> DEFINE w == [task |-> d, attempt |-> tasks[d].attempt, state |-> tasks[d].state]
    <3>1. WritesOf(d)' = {w}
        BY <2>2 DEF WritesOf
    <3>2. w.attempt = tasks[d].attempt /\ w.state = tasks[d].state
        OBVIOUS
    <3>3. Kept(d) /\ Exists(d) /\ tasks[d].attempt \in Nat /\ Sheltered(d)
        BY <1>5, <2>2, ServedTypes DEF AgentTask
    <3> HIDE DEF w
    <3>4. InMemory(d)'
        BY <1>1, <1>3, <1>4, <3>3 DEF Kept, InMemory, HasWorker, SameRow, HasRow, IsTerminal
    <3>5. Attempts(d)'
        BY <1>1, <1>4, <3>3 DEF Kept, Attempts, SameRow, HasRow, Unopened, HasWorker
    <3>6. Collects(d)'
        BY <1>1, <2>2, <3>1, <3>2, <3>3 DEF Kept, Collects, InMemory
    <3>7. Housed(d)'
        BY <1>1, <1>4, <3>3 DEF Kept, Housed, SameRow, HasRow, Matches, HasWorker, IsTerminal
    <3>8. Recorded(d)'
        BY <1>1, <1>4, <3>1, <3>2, <3>3
        DEF Kept, Recorded, SameRow, HasRow, Writing, Unopened
    <3>9. Leased(d)'
        BY <3>1 DEF Leased, Writing
    <3>10. HasRow(d)' => row'[d].parent = parent'[d]
        BY <1>1, <1>4, <3>3 DEF Kept, SameRow, HasRow
    <3>11. Kept(d)'
        BY <3>4, <3>5, <3>6, <3>7, <3>8, <3>9, <3>10 DEF Kept
    <3> QED BY <1>4, <3>3, <3>11 DEF Fine, Sheltered, SameRow, HasRow, Durable
  <2> QED BY <2>1, <2>2
<1>8. MemoryTyped' /\ RowsTyped'
    BY <1>6, ServedTypes DEF MemoryTyped, RowsTyped, PassStep, store
<1>9. RowTree'
    BY ServedTypes, RowTreeStays DEF PassStep, store, HasRow
<1> QED BY <1>1, <1>2, <1>3, <1>7, <1>8, <1>9, Assembled DEF PassStep

\* Every step of a reconciliation pass is a step of the supervisor and of no row.
LEMMA ReconcileHeld ==
    ASSUME Served, ReconcileStep
    PROVE  Held
<1>1. PassStep
    BY DEF ReconcileStep, PassStep, Alone, store
<1> QED BY <1>1, PassBegins, PassSkips, PassApplies, PassAborts, PassReturns DEF ReconcileStep

-----------------------------------------------------------------------------
(* Second halves, and other writes to one row while no task moves.         *)

\* The step is about t: the rest of the rows and of what is under way stays.
OnlyAbout(t) ==
    \A d \in Task \ {t} :
        /\ SameRow(d)
        /\ d \in resident' <=> d \in resident
        /\ d \in astray => d \in astray'
        /\ HalvesOf(d)' = HalvesOf(d) /\ WritesOf(d)' = WritesOf(d)

\* The row of d was overtaken, or it is in order.
Ordered(d) == d \in astray' \/ ((Agrees(d)' \/ Recorded(d)') /\ Leased(d)')

\* No task moves, and no worker comes or goes.
Calm == UNCHANGED <<tasks, parent, pass>> /\ \A d \in Task : HasWorker(d)' <=> HasWorker(d)

\* As when the supervisor is left alone.
LEMMA CalmStep ==
    ASSUME UNCHANGED vars
    PROVE  Calm
BY DEF Calm, vars, HasWorker

\* A row that is written while its task does not move: it is astray, or agrees; and
\* one that is no longer astray has no half left that opens the attempt of its task.
LEMMA RewriteKeeps ==
    ASSUME NEW d \in Task, Kept(d), Calm,
           WritesOf(d)' \subseteq WritesOf(d), HalvesOf(d)' \subseteq HalvesOf(d),
           \/ SameRow(d)
           \/ /\ HasRow(d)' /\ row'[d].parent = parent[d]
              /\ row'[d].attempt <= tasks[d].attempt
              /\ \A h \in HalvesOf(d)' :
                    /\ h.op # "spawn"
                    /\ Reopening(h) /\ h.attempt = tasks[d].attempt
                       => row'[d].attempt # tasks[d].attempt,
           Housed(d)', Ordered(d),
           d \in astray => d \in astray' \/ ~Unopened(d)'
    PROVE  Kept(d)'
<1>1. /\ tasks' = tasks /\ parent' = parent /\ pass' = pass
      /\ HasWorker(d)' <=> HasWorker(d)
    BY DEF Calm
<1>2. InMemory(d)'
    BY <1>1 DEF Kept, InMemory, SameRow, HasRow, IsTerminal
<1>3. Attempts(d)'
  <2>1. CASE SameRow(d)
    BY <1>1, <2>1 DEF Kept, Attempts, Unopened, SameRow, HasRow
  <2>2. CASE ~SameRow(d)
    BY <1>1, <2>2 DEF Kept, Attempts, Unopened
  <2> QED BY <2>1, <2>2
<1>4. Collects(d)'
    BY <1>1 DEF Kept, Collects
<1>5. Recorded(d)' /\ Leased(d)'
    BY <1>4, AgreesRecords DEF Ordered, Recorded, Leased
<1>6. HasRow(d)' => row'[d].parent = parent'[d]
    BY <1>1 DEF Kept, SameRow, HasRow
<1> QED BY <1>2, <1>3, <1>4, <1>5, <1>6 DEF Kept

\* The step as a whole.
LEMMA CalmHeld ==
    ASSUME Served, NEW t \in Task, Exists(t), Harmless, Calm, UNCHANGED <<power, crashes>>,
           OnlyAbout(t),
           RowsTyped', MemoryTyped', RowTree',
           Kept(t)', Sheltered(t)', Durable(t),
           HasRow(t) => HasRow(t)' /\ row'[t].parent = row[t].parent,
           batch' \subseteq batch,
           \A h \in half' : h \in half \/ (Exists(h.task) /\ h.op # "spawn")
    PROVE  Held
<1>1. Fine(t)
    BY DEF Fine
<1>2. ASSUME NEW d \in Task \ {t} PROVE Fine(d)
  <2>1. Idle(d)
    BY <1>2 DEF Idle, Carried, OnlyAbout, Calm
  <2> QED BY <2>1, IdleFine
<1>3. /\ ~pass'.active => pass' = NoPass
      /\ pass'.active => batch' = {}
    BY DEF Served, Serving, Calm
<1> QED BY <1>1, <1>2, <1>3, Assembled

\* The same when the supervisor is left alone.
LEMMA RewriteHeld ==
    ASSUME Served, NEW t \in Task, Exists(t), UNCHANGED <<vars, power, crashes>>, OnlyAbout(t),
           RowsTyped', MemoryTyped', RowTree',
           Kept(t)', Sheltered(t)', Durable(t),
           HasRow(t) => HasRow(t)' /\ row'[t].parent = row[t].parent,
           batch' \subseteq batch,
           \A h \in half' : h \in half \/ (Exists(h.task) /\ h.op # "spawn")
    PROVE  Held
BY CalmStep, CalmHeld, StutterHarmless, ServedTypes

\* One row is written, with what a write may change of it.
LEMMA RowWritten ==
    ASSUME RowsTyped, NEW t \in Task, HasRow(t), NEW s \in RowStates, NEW n \in Nat \ {0},
           row' = [row EXCEPT ![t].state = s, ![t].attempt = n]
    PROVE  /\ row' \in [Task -> Row \cup {NoRow}]
           /\ HasRow(t)' /\ row'[t].state = s /\ row'[t].attempt = n
           /\ row'[t].parent = row[t].parent /\ row'[t].context = row[t].context
           /\ \A d \in Task \ {t} : row'[d] = row[d]
<1> DEFINE new == [[row[t] EXCEPT !.state = s] EXCEPT !.attempt = n]
<1>1. /\ new \in Row /\ new.state = s /\ new.attempt = n
      /\ new.parent = row[t].parent /\ new.context = row[t].context
    BY NoRowAssumption DEF RowsTyped, HasRow, Row
<1>2. row' = [row EXCEPT ![t] = new]
    BY DEF RowsTyped
<1> HIDE DEF new
<1>3. row'[t] = new /\ \A d \in Task \ {t} : row'[d] = row[d]
    BY <1>2 DEF RowsTyped
<1> QED BY <1>1, <1>2, <1>3, NoRowAssumption DEF RowsTyped, HasRow

\* The state of one row is written: the row keeps its attempt, parent and context.
LEMMA StateWritten ==
    ASSUME RowsTyped, NEW t \in Task, HasRow(t), NEW s \in RowStates,
           row' = [row EXCEPT ![t].state = s]
    PROVE  /\ row' \in [Task -> Row \cup {NoRow}]
           /\ RowSet(t, s) /\ row'[t].context = row[t].context
           /\ \A d \in Task \ {t} : row'[d] = row[d]
<1> DEFINE new == [row[t] EXCEPT !.state = s]
<1>1. /\ new \in Row /\ new.state = s /\ new.attempt = row[t].attempt
      /\ new.parent = row[t].parent /\ new.context = row[t].context
    BY NoRowAssumption DEF RowsTyped, HasRow, Row
<1>2. row' = [row EXCEPT ![t] = new]
    BY DEF RowsTyped
<1> HIDE DEF new
<1>3. row'[t] = new /\ \A d \in Task \ {t} : row'[d] = row[d]
    BY <1>2 DEF RowsTyped
<1> QED BY <1>1, <1>2, <1>3, NoRowAssumption DEF RowsTyped, HasRow, RowSet

\* The tree of the rows stays when one row is written over.
LEMMA OneRowTree ==
    ASSUME RowTree, NEW t \in Task, HasRow(t), HasRow(t)', row'[t].parent = row[t].parent,
           \A d \in Task \ {t} : row'[d] = row[d]
    PROVE  RowTree'
BY RowTreeStays DEF HasRow

\* A half that writes no row is done, and no other is.
LEMMA StarterGone ==
    ASSUME NEW h \in half, h.op \in {"start", "detach"}, half' = half \ {h}
    PROVE  \A d \in Task : HalvesOf(d)' = HalvesOf(d)
BY DEF HalvesOf

\* A half that is done makes way for the start of its task.
LEMMA HalfDone ==
    ASSUME Served, NEW h \in half, half' = (half \ {h}) \cup {Starting(h.task)}
    PROVE  /\ half' \subseteq Half
           /\ \A g \in half' : g \in half \/ (Exists(g.task) /\ g.op # "spawn")
           /\ \A d \in Task \ {h.task} : HalvesOf(d)' = HalvesOf(d)
           /\ HalvesOf(h.task)' = HalvesOf(h.task) \ {h}
<1>1. Starting(h.task) \in Half /\ Starting(h.task).op = "start" /\ Starting(h.task).task = h.task
    BY ServedTypes DEF Starting, Half
<1>2. half' \subseteq Half
    BY <1>1, ServedTypes DEF MemoryTyped
<1>3. \A g \in half' : g \in half \/ (Exists(g.task) /\ g.op # "spawn")
    BY <1>1, ServedTypes
<1> QED BY <1>1, <1>2, <1>3 DEF HalvesOf

\* A collected transition is written.
LEMMA PersistHeld ==
    ASSUME Served, NEW w \in batch, Persist(w)
    PROVE  Held
<1> DEFINE d == w.task
<1>1. /\ d \in Task /\ w \in Write /\ Matches(d, w.attempt)
      /\ Set({d}, w.state)
      /\ resident' = resident \ {d} /\ batch' = batch \ {w}
      /\ astray' = IF tasks[d].state = w.state THEN astray ELSE astray \cup {d}
      /\ UNCHANGED <<vars, power, crashes, attachment, draining, gate, half>>
    BY ServedTypes DEF Persist, Alone
<1>2. w \in WritesOf(d) /\ Exists(d)
  <2>1. w \in WritesOf(d)
    BY DEF WritesOf
  <2> QED BY <1>1, <2>1, ServedTypes DEF Absent
<1>3. Kept(d) /\ Sheltered(d) /\ RowsTyped /\ MemoryTyped /\ RowTree
    BY <1>1, <1>2, ServedTypes
<1>4. w.state \in LeftByPass /\ w.state \in RowStates /\ WritesOf(d) = {w}
    BY <1>1, <1>2, <1>3 DEF Kept, Collects, Write, RowStates
<1>5. HasRow(d) /\ row[d].attempt = w.attempt
    BY <1>1 DEF Matches
<1>6. /\ row' \in [Task -> Row \cup {NoRow}] /\ leaseRow' \in [Task -> SUBSET LeaseKind]
      /\ \A c \in Task : (HasRow(c)' <=> HasRow(c))
      /\ \A c \in Task \ {d} : SameRow(c)
      /\ RowSet(d, w.state)
      /\ leaseRow'[d] = IF Settles(w.state) THEN {} ELSE leaseRow[d]
    BY <1>1, <1>3, <1>4, <1>5, SetFacts
<1>7. WritesOf(d)' = {} /\ HalvesOf(d)' = HalvesOf(d)
    BY <1>1, <1>4 DEF WritesOf, HalvesOf
<1>8. OnlyAbout(d)
    BY <1>1, <1>6 DEF OnlyAbout, WritesOf, HalvesOf
<1>9. /\ tasks' = tasks /\ parent' = parent
      /\ HasWorker(d)' <=> HasWorker(d)
    BY <1>1 DEF vars, HasWorker
<1> HIDE DEF d
<1>10. Housed(d)'
    BY <1>2, <1>3, <1>4, <1>5, <1>6, <1>9, StateFacts
    DEF Kept, Housed, Collects, Matches, RowSet, IsTerminal
<1>11. ASSUME tasks[d].state = w.state, d \notin astray
       PROVE  ~Writing(d)' => Agrees(d)' /\ Leased(d)'
  <2>1. ASSUME ~Writing(d)' PROVE Agrees(d)'
    <3>1. HalvesOf(d) = {}
        BY <1>7, <2>1 DEF Writing
    <3>2. row[d].attempt = tasks[d].attempt
        BY <1>3, <1>5, <1>11, <3>1 DEF Kept, Recorded, Unopened
    <3> QED BY <1>6, <1>9, <1>11, <3>2 DEF Agrees, Matches, RowSet
  <2>2. Leased(d)'
    BY <1>1, <1>3, <1>4, <1>6, <1>9, <1>11, StateFacts
    DEF Leased, Kept, InMemory, IsLive, IsSettled, d
  <2> QED BY <2>1, <2>2
<1>12. /\ tasks'[d] = tasks[d] /\ parent'[d] = parent[d] /\ pass' = pass
    BY <1>1 DEF vars
<1>13. Kept(d)'
  <2>1. InMemory(d)'
    BY <1>3, <1>6, <1>9, <1>12 DEF Kept, InMemory, RowSet, IsTerminal
  <2>2. Attempts(d)'
    <3>1. d \in astray => d \in astray'
        BY <1>1
    <3> QED BY <1>3, <1>5, <1>6, <1>7, <1>9, <1>12, <3>1 DEF Kept, Attempts, Unopened, RowSet
  <2>3. Collects(d)'
    BY <1>7 DEF Collects
  <2>4. Recorded(d)' /\ Leased(d)'
    <3>1. CASE d \in astray'
        BY <3>1 DEF Recorded, Leased
    <3>2. CASE d \notin astray'
        <4>1. tasks[d].state = w.state /\ d \notin astray
            BY <1>1, <3>2 DEF d
        <4>2. ~Writing(d)' => Agrees(d)' /\ Leased(d)'
            BY <1>11, <4>1
        <4>3. HasRow(d)' /\ row'[d].attempt # tasks'[d].attempt => Unopened(d)'
            BY <1>3, <1>5, <1>6, <1>7, <1>12, <4>1 DEF Kept, Recorded, Unopened, RowSet
        <4>4. row'[d].state = tasks'[d].state
            BY <1>6, <1>12, <4>1 DEF RowSet
        <4> QED BY <1>7, <4>2, <4>3, <4>4 DEF Recorded, Leased
    <3> QED BY <3>1, <3>2
  <2>5. HasRow(d)' => row'[d].parent = parent'[d]
    BY <1>3, <1>6, <1>12 DEF Kept, RowSet
  <2> QED BY <1>10, <2>1, <2>2, <2>3, <2>4, <2>5 DEF Kept
<1>14. Sheltered(d)'
    BY <1>4, <1>6, StateFacts DEF Sheltered, RowSet
<1>15. Durable(d)
  <2> SUFFICES ASSUME HasRow(d), Settles(row[d].state), w.state # row[d].state,
                      d \notin astray, d \notin astray'
               PROVE  FALSE
    BY <1>6 DEF Durable, RowSet
  <2>1. tasks[d].state = w.state
    BY <1>1 DEF d
  <2>2. w.state = "Paused"
    BY <1>2, <1>3, <1>4, <1>5, StateFacts DEF Kept, Recorded
  <2>3. row[d].attempt # tasks[d].attempt
    BY <1>3, <2>1 DEF Kept, Recorded
  <2> QED BY <1>3, <1>5, <2>1, <2>2, <2>3, StateFacts DEF Kept, Recorded, Attempts
<1>16. RowsTyped' /\ MemoryTyped'
    BY <1>1, <1>3, <1>6 DEF RowsTyped, MemoryTyped, d
<1>17. RowTree'
    BY <1>3, <1>6, RowTreeStays DEF SameRow, RowSet
<1> QED BY <1>1, <1>2, <1>6, <1>8, <1>13, <1>14, <1>15, <1>16, <1>17, RewriteHeld DEF d, RowSet

\* A refused write: the rest of what was collected goes astray.
LEMMA PersistStopsHeld ==
    ASSUME Served, NEW w \in batch, PersistStops(w)
    PROVE  Held
<1>1. /\ batch' = {} /\ astray' = astray \cup {u.task : u \in batch}
      /\ UNCHANGED <<vars, power, crashes, store, draining, resident, gate, half>>
    BY DEF PersistStops, Alone, store
<1>2. \A d \in Task : SameRow(d) /\ HalvesOf(d)' = HalvesOf(d) /\ WritesOf(d)' = {}
    BY <1>1 DEF SameRow, HalvesOf, WritesOf, store
<1>3. ASSUME NEW d \in Task PROVE Fine(d)
  <2>1. CASE WritesOf(d) = {}
    <3>1. Idle(d)
        BY <1>1, <1>2, <2>1 DEF Idle, Carried, vars, HasWorker
    <3> QED BY <3>1, IdleFine
  <2>2. CASE WritesOf(d) # {}
    <3>1. d \in astray'
        BY <1>1, <2>2 DEF WritesOf
    <3>2. Exists(d) /\ Kept(d) /\ Sheltered(d)
        BY <2>2, ServedTypes DEF Absent
    <3>3. Housed(d)'
        BY <1>1, <1>2, <3>2 DEF Kept, Housed, SameRow, HasRow, Matches, HasWorker, vars
    <3>4. Kept(d)'
        BY <1>1, <1>2, <3>1, <3>2, <3>3, CalmStep, RewriteKeeps DEF Ordered
    <3> QED BY <1>2, <3>2, <3>4 DEF Fine, Sheltered, SameRow, HasRow, Durable
  <2> QED BY <2>1, <2>2
<1>4. MemoryTyped' /\ RowsTyped'
    BY <1>1, ServedTypes DEF MemoryTyped, RowsTyped, store
<1>5. RowTree'
    BY <1>1, ServedTypes, RowTreeStays DEF store, HasRow
<1>6. Harmless
    BY <1>1, ServedTypes, StutterHarmless
<1>7. /\ ~pass'.active => pass' = NoPass
      /\ pass'.active => batch' = {}
    BY <1>1 DEF Served, Serving, vars
<1> QED BY <1>1, <1>3, <1>4, <1>5, <1>6, <1>7, Assembled

\* A child gets its row, unless a cascade was faster.
LEMMA InsertChildHeld ==
    ASSUME Served, NEW h \in half, InsertChild(h)
    PROVE  Held
<1> DEFINE t == h.task
<1>1. /\ h.op = "spawn"
      /\ row' = [row EXCEPT ![t] = NewRow(parent[t])]
      /\ half' = (half \ {h}) \cup {Starting(t)}
      /\ astray' = IF tasks[t] = NewTask THEN astray ELSE astray \cup {t}
      /\ UNCHANGED <<vars, power, crashes, attachment, leaseRow, draining, resident, gate, batch>>
    BY DEF InsertChild, Alone
<1>2. t \in Task /\ Exists(t) /\ Kept(t) /\ h \in Half
    BY ServedTypes
<1>3. t # Root /\ HasRow(parent[t])
    BY <1>1 DEF Served, Serving
<1>4. h \in HalvesOf(t)
    BY <1>1 DEF HalvesOf
<1>5. ~HasRow(t) /\ h.attempt = 1 /\ tasks[t].attempt \in Nat \ {0}
    BY <1>1, <1>2, <1>4, ServedTypes DEF Kept, Attempts, TypeOK, Exists, AgentTask
<1>6. parent[t] \in Task /\ parent[t] # NoTask
    BY <1>2, <1>3, ServedTypes DEF TypeOK, TreeShape
<1>7. /\ NewRow(parent[t]) \in Row
      /\ NewRow(parent[t]).state = "Queued" /\ NewRow(parent[t]).attempt = 1
      /\ NewRow(parent[t]).parent = parent[t]
    BY <1>6 DEF NewRow, Row, RowStates, TaskStates, LiveStates
<1>8. row'[t] = NewRow(parent[t]) /\ \A d \in Task \ {t} : row'[d] = row[d]
    BY <1>1, <1>2, ServedTypes DEF RowsTyped
<1>9. /\ half' \subseteq Half
      /\ \A g \in half' : g \in half \/ (Exists(g.task) /\ g.op # "spawn")
      /\ \A d \in Task \ {t} : HalvesOf(d)' = HalvesOf(d)
      /\ HalvesOf(t)' = HalvesOf(t) \ {h}
    BY <1>1, HalfDone
<1>10. WritesOf(t)' = WritesOf(t) /\ \A d \in Task : WritesOf(d)' = WritesOf(d)
    BY <1>1 DEF WritesOf
<1> HIDE DEF t
<1>11. HasRow(t)' /\ \A d \in Task \ {t} : HasRow(d)' <=> HasRow(d)
    BY <1>7, <1>8, NoRowAssumption DEF HasRow
<1>12. OnlyAbout(t)
    BY <1>1, <1>8, <1>9, <1>10 DEF OnlyAbout, SameRow
<1>13. ~HasWorker(t) /\ ~HasWorker(t)'
    BY <1>1, <1>2, <1>5 DEF Kept, InMemory, HasWorker, vars
<1>14. ASSUME NEW g \in HalvesOf(t)'
       PROVE  g.op # "spawn" /\ (Reopening(g) /\ g.attempt = tasks[t].attempt
                                 => row'[t].attempt # tasks[t].attempt)
  <2>1. g \in HalvesOf(t) /\ g # h
    BY <1>9, <1>14
  <2>2. g \in half /\ g \in Half /\ g.task = t
    BY <2>1, ServedTypes DEF HalvesOf
  <2>3. ASSUME g.op = "spawn" PROVE FALSE
    <3>1. g.attempt = 1
        BY <1>2, <2>1, <2>3 DEF Kept, Attempts
    <3> QED BY <1>1, <1>2, <1>5, <2>1, <2>2, <2>3, <3>1 DEF Half, t
  <2>4. Reopening(g) => g.attempt \in 2 .. tasks[t].attempt
    BY <1>2, <2>1 DEF Kept, Attempts
  <2> QED BY <1>5, <1>7, <1>8, <2>3, <2>4
<1>15. Ordered(t)
  <2> SUFFICES ASSUME tasks[t] = NewTask PROVE Agrees(t)' /\ Leased(t)'
    BY <1>1, <1>2 DEF Ordered, t
  <2>1. tasks'[t].state = "Queued" /\ tasks'[t].attempt = 1
    BY <1>1 DEF vars, NewTask
  <2> QED BY <1>7, <1>8, <1>11, <1>13, <2>1, StateFacts DEF Agrees, Leased, Matches, IsSettled
<1>16. Housed(t)'
    BY <1>13 DEF Housed
<1>17. Kept(t)'
    BY <1>1, <1>2, <1>5, <1>7, <1>8, <1>9, <1>10, <1>11, <1>14, <1>15, <1>16, CalmStep, RewriteKeeps
<1>18. Sheltered(t)' /\ Durable(t)
    BY <1>5, <1>7, <1>8, StateFacts DEF Sheltered, Durable
<1>19. RowsTyped' /\ MemoryTyped'
  <2>1. row' \in [Task -> Row \cup {NoRow}]
    BY <1>1, <1>7, ServedTypes DEF RowsTyped, t
  <2> QED BY <1>1, <1>2, <1>9, <2>1, ServedTypes DEF RowsTyped, MemoryTyped, t
<1>20. ASSUME NEW d \in Task \ {Root}, HasRow(d)'
       PROVE  /\ row'[d].parent \in Task /\ row'[row'[d].parent] # NoRow
              /\ row'[row'[d].parent].parent # NoTask
                   => row'[row'[row'[d].parent].parent].parent = NoTask
  <2> DEFINE p == row'[d].parent
             g == row[p].parent
  <2>1. CASE d = t
    <3>1. p = parent[t] /\ p \in Task /\ HasRow(p) /\ p # t /\ row'[p] = row[p] /\ row'[p] # NoRow
        BY <1>3, <1>5, <1>6, <1>7, <1>8, <2>1 DEF HasRow
    <3>2. g = parent[p] /\ Exists(p) /\ depth[t] = depth[p] + 1 /\ depth[t] <= 2
      <4>1. Exists(p) /\ depth[t] = depth[p] + 1 /\ depth[t] <= 2
        BY <1>2, <1>6, <3>1, ServedTypes DEF TreeShape, TypeOK, MaxDepth
      <4> QED BY <3>1, <4>1, ServedTypes DEF Kept
    <3>3. ASSUME g # NoTask PROVE row'[g].parent = NoTask
      <4>1. g \in Task /\ HasRow(g) /\ g # t
        <5>1. p # Root
            BY <3>3, <3>1, ServedTypes DEF RowTree
        <5> QED BY <1>5, <3>1, <5>1, ServedTypes DEF RowTree
      <4>2. Exists(g) /\ depth[p] = depth[g] + 1
        BY <3>1, <3>2, <3>3, <4>1, ServedTypes DEF TreeShape
      <4>3. parent[g] = NoTask
        <5>1. ASSUME parent[g] # NoTask PROVE FALSE
            <6>1. parent[g] \in Task
                BY <4>1, <5>1, ServedTypes DEF TypeOK
            <6>2. depth[g] = depth[parent[g]] + 1
                BY <4>1, <5>1, ServedTypes DEF TreeShape
            <6> QED BY <1>2, <3>1, <3>2, <4>1, <4>2, <6>1, <6>2, ServedTypes DEF TypeOK
        <5> QED BY <5>1
      <4>4. row[g].parent = parent[g]
        BY <4>1, <4>2, ServedTypes DEF Kept
      <4> QED BY <1>8, <4>1, <4>3, <4>4
    <3> QED BY <3>1, <3>2, <3>3
  <2>2. CASE d # t
    <3>1. row'[d] = row[d] /\ HasRow(d)
        BY <1>8, <1>11, <1>20, <2>2
    <3>2. p \in Task /\ HasRow(p) /\ p # t /\ row'[p] = row[p] /\ row'[p] # NoRow
        BY <1>5, <1>8, <1>20, <3>1, ServedTypes DEF RowTree, HasRow
    <3>3. g # NoTask => row[g].parent = NoTask
        BY <1>20, <3>1, <3>2, ServedTypes DEF RowTree
    <3>4. g # NoTask => g \in Task /\ HasRow(g)
        BY <3>2, ServedTypes, TaskAssumption DEF RowTree
    <3> QED BY <1>5, <1>8, <3>2, <3>3, <3>4
  <2> QED BY <2>1, <2>2
<1>21. RowTree'
    BY <1>3, <1>8, <1>20, ServedTypes, TaskAssumption DEF RowTree, HasRow
<1> QED BY <1>1, <1>2, <1>5, <1>9, <1>12, <1>17, <1>18, <1>19, <1>21, RewriteHeld

\* A half that writes the row of a task that has one: none is a spawn, and one
\* that opened the attempt of the task has not written it.
LEMMA RowHalves ==
    ASSUME NEW d \in Task, Kept(d), HasRow(d), NEW g \in HalvesOf(d)
    PROVE  /\ g.op # "spawn"
           /\ Reopening(g) => g.attempt \in 2 .. tasks[d].attempt
           /\ Reopening(g) /\ g.attempt = tasks[d].attempt
                => row[d].attempt # tasks[d].attempt /\ ~HasWorker(d)
BY DEF Kept, Attempts, Unopened

\* The row of a paused task is queued again.
LEMMA ResumeRowHeld ==
    ASSUME Served, NEW h \in half, ResumeRow(h)
    PROVE  Held
<1> DEFINE t == h.task
<1>1. /\ h.op = "resume" /\ HasRow(t)
      /\ row' = [row EXCEPT ![t].state = "Queued"]
      /\ half' = (half \ {h}) \cup {Starting(t)}
      /\ astray' = IF tasks[t].state = "Queued" /\ Matches(t, tasks[t].attempt)
                   THEN astray \ {t} ELSE astray \cup {t}
      /\ UNCHANGED <<vars, power, crashes, attachment, leaseRow, draining, resident, gate, batch>>
    BY DEF ResumeRow, Alone
<1>2. /\ t \in Task /\ Exists(t) /\ Kept(t) /\ h \in Half
      /\ TypeOK /\ RowsTyped /\ MemoryTyped /\ RowTree
    BY ServedTypes
<1>3. /\ half' \subseteq Half
      /\ \A g \in half' : g \in half \/ (Exists(g.task) /\ g.op # "spawn")
      /\ \A d \in Task \ {t} : HalvesOf(d)' = HalvesOf(d)
      /\ HalvesOf(t)' = HalvesOf(t) \ {h}
    BY <1>1, HalfDone
<1>4. \A d \in Task : WritesOf(d)' = WritesOf(d)
    BY <1>1 DEF WritesOf
<1>5. "Queued" \in RowStates
    BY DEF RowStates, TaskStates, LiveStates
<1> HIDE DEF t
<1>6. /\ row' \in [Task -> Row \cup {NoRow}]
      /\ RowSet(t, "Queued") /\ row'[t].context = row[t].context
      /\ \A d \in Task \ {t} : row'[d] = row[d]
    BY <1>1, <1>2, <1>5, StateWritten
<1>7. OnlyAbout(t)
    BY <1>1, <1>3, <1>4, <1>6 DEF OnlyAbout, SameRow
<1>8. row[t].attempt <= tasks[t].attempt /\ row[t].parent = parent[t]
    BY <1>1, <1>2 DEF Kept, Attempts
<1>9. tasks' = tasks /\ (HasWorker(t)' <=> HasWorker(t))
    BY <1>1 DEF vars, HasWorker
<1>10. Housed(t)'
    BY <1>1, <1>2, <1>6, <1>9 DEF Kept, Housed, Matches, RowSet, IsTerminal
<1>11. tasks[t].state = "Queued" => ~HasWorker(t)
    BY <1>2, StateFacts DEF Kept, InMemory
<1>12. Ordered(t)
  <2> SUFFICES ASSUME tasks[t].state = "Queued", Matches(t, tasks[t].attempt)
               PROVE  Agrees(t)' /\ Leased(t)'
    BY <1>1, <1>2 DEF Ordered
  <2>1. Agrees(t)'
    BY <1>6, <1>9 DEF Agrees, Matches, RowSet
  <2> QED BY <1>9, <1>11, <2>1, StateFacts DEF Leased, IsSettled
<1>12a. ASSUME t \notin astray' PROVE ~Unopened(t)'
  <2>1. row[t].attempt = tasks[t].attempt
    BY <1>1, <1>2, <1>12a DEF Matches
  <2>2. \A g \in HalvesOf(t) : ~(Reopening(g) /\ g.attempt = tasks[t].attempt)
    BY <1>1, <1>2, <2>1, RowHalves
  <2> QED BY <1>3, <1>9, <2>2 DEF Unopened
<1>13. Kept(t)'
    BY <1>1, <1>2, <1>3, <1>4, <1>6, <1>8, <1>10, <1>12, <1>12a, RowHalves, CalmStep, RewriteKeeps
    DEF RowSet
<1>14. Sheltered(t)'
    BY <1>6, StateFacts DEF Sheltered, RowSet
<1>15. Durable(t)
    BY <1>1, <1>2, StateFacts DEF Durable, Kept, Recorded, Matches
<1>16. RowsTyped' /\ MemoryTyped'
    BY <1>1, <1>2, <1>3, <1>6 DEF RowsTyped, MemoryTyped
<1>17. RowTree'
    BY <1>1, <1>2, <1>6, OneRowTree DEF RowSet
<1> QED BY <1>1, <1>2, <1>3, <1>6, <1>7, <1>13, <1>14, <1>15, <1>16, <1>17, RewriteHeld DEF RowSet

\* The row opens the attempt that memory opened.
LEMMA ReopenRowHeld ==
    ASSUME Served, NEW h \in half, ReopenRow(h)
    PROVE  Held
<1> DEFINE t == h.task
           s == IF h.op = "recover" THEN "RecoveryGated" ELSE "Queued"
<1>1. /\ h.op \in {"retry", "recover"} /\ HasRow(t)
      /\ row' = [row EXCEPT ![t].state = s, ![t].attempt = h.attempt]
      /\ gate' = IF h.op = "recover" THEN [gate EXCEPT ![t] = "gated"] ELSE gate
      /\ half' = (half \ {h}) \cup {Starting(t)}
      /\ astray' = IF tasks[t].state = "Queued" /\ tasks[t].attempt = h.attempt
                   THEN astray \ {t} ELSE astray \cup {t}
      /\ UNCHANGED <<vars, power, crashes, attachment, leaseRow, draining, resident, batch>>
    BY DEF ReopenRow, Activate, Alone
<1>2. /\ t \in Task /\ Exists(t) /\ Kept(t) /\ h \in Half
      /\ TypeOK /\ RowsTyped /\ MemoryTyped /\ RowTree
    BY ServedTypes
<1>3. /\ half' \subseteq Half
      /\ \A g \in half' : g \in half \/ (Exists(g.task) /\ g.op # "spawn")
      /\ \A d \in Task \ {t} : HalvesOf(d)' = HalvesOf(d)
      /\ HalvesOf(t)' = HalvesOf(t) \ {h}
    BY <1>1, HalfDone
<1>4. \A d \in Task : WritesOf(d)' = WritesOf(d)
    BY <1>1 DEF WritesOf
<1>5. s \in RowStates /\ s \in {"Queued", "RecoveryGated"}
    BY DEF RowStates, TaskStates, LiveStates
<1>6. h \in HalvesOf(t) /\ Reopening(h)
    BY <1>1 DEF HalvesOf, Reopening
<1> HIDE DEF t, s
<1>7. h.attempt \in Nat \ {0} /\ h.attempt <= tasks[t].attempt
  <2>1. h.attempt \in 2 .. tasks[t].attempt
    BY <1>1, <1>2, <1>6, RowHalves
  <2>2. tasks[t].attempt \in Nat
    BY <1>2 DEF TypeOK, Exists, AgentTask
  <2> QED BY <2>1, <2>2
<1>8. /\ row' \in [Task -> Row \cup {NoRow}]
      /\ HasRow(t)' /\ row'[t].state = s /\ row'[t].attempt = h.attempt
      /\ row'[t].parent = row[t].parent /\ row'[t].context = row[t].context
      /\ \A d \in Task \ {t} : row'[d] = row[d]
    BY <1>1, <1>2, <1>5, <1>7, RowWritten
<1>9. OnlyAbout(t)
    BY <1>1, <1>3, <1>4, <1>8 DEF OnlyAbout, SameRow
<1>10. tasks' = tasks /\ (HasWorker(t)' <=> HasWorker(t)) /\ row[t].parent = parent[t]
    BY <1>1, <1>2 DEF vars, HasWorker, Kept
<1>11. Housed(t)'
    BY <1>1, <1>2, <1>6, <1>8, <1>10, RowHalves DEF Housed, Matches, IsTerminal
<1>12. tasks[t].state = "Queued" => ~HasWorker(t)
    BY <1>2, StateFacts DEF Kept, InMemory
<1>13. Ordered(t)
  <2> SUFFICES ASSUME tasks[t].state = "Queued", tasks[t].attempt = h.attempt
               PROVE  Agrees(t)' /\ Leased(t)'
    BY <1>1, <1>2 DEF Ordered
  <2>1. Agrees(t)'
    BY <1>5, <1>8, <1>10 DEF Agrees, Matches
  <2> QED BY <1>10, <1>12, <2>1, StateFacts DEF Leased, IsSettled
<1>14. ASSUME NEW g \in HalvesOf(t)'
       PROVE  g.op # "spawn" /\ (Reopening(g) /\ g.attempt = tasks[t].attempt
                                 => h.attempt # tasks[t].attempt)
  <2>1. g \in HalvesOf(t) /\ g # h
    BY <1>3, <1>14
  <2>2. Reopening(g) /\ Reopening(h) => g.attempt # h.attempt
    BY <1>2, <1>6, <2>1 DEF Kept, Attempts
  <2> QED BY <1>1, <1>2, <1>6, <2>1, <2>2, RowHalves
<1>14a. ASSUME t \notin astray' PROVE ~Unopened(t)'
  <2>1. tasks[t].attempt = h.attempt
    BY <1>1, <1>2, <1>14a DEF t
  <2>2. \A g \in HalvesOf(t)' : ~(Reopening(g) /\ g.attempt = tasks[t].attempt)
    BY <1>14, <2>1
  <2> QED BY <1>10, <2>2 DEF Unopened
<1>15. Kept(t)'
    BY <1>1, <1>2, <1>3, <1>4, <1>7, <1>8, <1>10, <1>11, <1>13, <1>14, <1>14a, CalmStep, RewriteKeeps
<1>16. Sheltered(t)'
    BY <1>5, <1>8, StateFacts DEF Sheltered
<1>17. Durable(t)
    BY <1>1, <1>2, <1>8, StateFacts DEF Durable, Kept, Recorded
<1>18. RowsTyped' /\ MemoryTyped'
    BY <1>1, <1>2, <1>3, <1>8 DEF RowsTyped, MemoryTyped
<1>19. RowTree'
    BY <1>1, <1>2, <1>8, OneRowTree
<1> QED BY <1>1, <1>2, <1>3, <1>8, <1>9, <1>15, <1>16, <1>17, <1>18, <1>19, RewriteHeld

\* The row that was to follow is not there yet.
LEMMA RowMissingHeld ==
    ASSUME Served, NEW h \in half, RowMissing(h)
    PROVE  Held
<1> DEFINE t == h.task
<1>1. /\ half' = half \ {h} /\ astray' = astray \cup {t}
      /\ UNCHANGED <<vars, power, crashes, store, draining, resident, gate, batch>>
    BY DEF RowMissing, Alone, store
<1>2. /\ t \in Task /\ Exists(t) /\ Kept(t) /\ Sheltered(t)
      /\ RowsTyped /\ MemoryTyped /\ RowTree
    BY ServedTypes
<1>3. /\ \A d \in Task : SameRow(d) /\ WritesOf(d)' = WritesOf(d)
      /\ \A d \in Task \ {t} : HalvesOf(d)' = HalvesOf(d)
      /\ HalvesOf(t)' \subseteq HalvesOf(t)
    BY <1>1 DEF SameRow, WritesOf, HalvesOf, store
<1>4. t \in astray'
    BY <1>1
<1> HIDE DEF t
<1>5. OnlyAbout(t)
    BY <1>1, <1>3 DEF OnlyAbout
<1>6. Housed(t)'
    BY <1>1, <1>2, <1>3 DEF Kept, Housed, SameRow, HasRow, Matches, HasWorker, vars
<1>7. Kept(t)'
    BY <1>1, <1>2, <1>3, <1>4, <1>6, CalmStep, RewriteKeeps DEF Ordered
<1>8. Sheltered(t)' /\ Durable(t) /\ (HasRow(t) => HasRow(t)' /\ row'[t].parent = row[t].parent)
    BY <1>2, <1>3 DEF Sheltered, Durable, SameRow, HasRow
<1>9. RowsTyped' /\ MemoryTyped'
    BY <1>1, <1>2 DEF RowsTyped, MemoryTyped, store
<1>10. RowTree'
    BY <1>1, <1>2, RowTreeStays DEF store, HasRow
<1> QED BY <1>1, <1>2, <1>5, <1>7, <1>8, <1>9, <1>10, RewriteHeld

\* A row is failed while its task stays as it is: it goes astray.
LEMMA RowFailed ==
    ASSUME Served, NEW t \in Task, NEW s \in SettledStates, Exists(t), HasRow(t),
           ~HasWorker(t) \/ IsTerminal(tasks[t]),
           Harmless, Calm, UNCHANGED <<power, crashes, attachment, draining, batch>>,
           Set({t}, s), resident' \in {resident, resident \ {t}}, astray' = astray \cup {t},
           gate' \in [Task -> {"none", "required", "gated", "attested"}],
           half' \subseteq half, \A d \in Task : HalvesOf(d)' = HalvesOf(d)
    PROVE  Held
<1>1. Kept(t) /\ RowsTyped /\ MemoryTyped /\ RowTree
    BY ServedTypes
<1>2. s \in RowStates
    BY DEF RowStates, TaskStates, TerminalStates
<1>3. /\ row' \in [Task -> Row \cup {NoRow}] /\ leaseRow' \in [Task -> SUBSET LeaseKind]
      /\ \A d \in Task : (HasRow(d)' <=> HasRow(d))
      /\ \A d \in Task \ {t} : SameRow(d)
      /\ RowSet(t, s)
    BY <1>1, <1>2, SetFacts
<1>4. \A d \in Task : WritesOf(d)' = WritesOf(d)
    BY DEF WritesOf
<1>5. OnlyAbout(t)
    BY <1>3, <1>4 DEF OnlyAbout
<1>6. Housed(t)'
    BY DEF Housed, Calm, IsTerminal
<1>7. row[t].attempt <= tasks[t].attempt /\ row[t].parent = parent[t] /\ t \in astray'
    BY <1>1 DEF Kept, Attempts
<1>8. Kept(t)'
    BY <1>1, <1>3, <1>4, <1>6, <1>7, RowHalves, RewriteKeeps DEF Ordered, RowSet
<1>9. Sheltered(t)' /\ Durable(t)
    BY <1>3, <1>7, StateFacts DEF Sheltered, Durable, RowSet
<1>10. RowsTyped' /\ MemoryTyped'
    BY <1>1, <1>3 DEF RowsTyped, MemoryTyped
<1>11. RowTree'
    BY <1>1, <1>3, RowTreeStays DEF SameRow, RowSet
<1> QED BY <1>3, <1>5, <1>8, <1>9, <1>10, <1>11, CalmHeld DEF RowSet

\* The supervisor refuses to start what is no longer queued.
LEMMA StartRefusedHeld ==
    ASSUME Served, NEW h \in half, StartRefused(h)
    PROVE  Held
<1> DEFINE t == h.task
<1>1. /\ h.op = "start" /\ half' = half \ {h} /\ ~HasWorker(t) /\ HasRow(t)
      /\ Set({t}, "Failed") /\ resident' = resident \ {t} /\ astray' = astray \cup {t}
      /\ gate' = [gate EXCEPT ![t] = "none"]
      /\ UNCHANGED <<vars, power, crashes, attachment, draining, batch>>
    BY DEF StartRefused, Startable, RowReady, Matches, Alone
<1>2. t \in Task /\ Exists(t) /\ MemoryTyped /\ "Failed" \in SettledStates
    BY ServedTypes DEF SettledStates
<1>3. \A d \in Task : HalvesOf(d)' = HalvesOf(d)
    BY <1>1, StarterGone
<1>4. gate' \in [Task -> {"none", "required", "gated", "attested"}]
    BY <1>1, <1>2 DEF MemoryTyped
<1>5. half' \subseteq half
    BY <1>1
<1> HIDE DEF t
<1>6. Harmless /\ Calm
    BY <1>1, CalmStep, StutterHarmless, ServedTypes
<1> QED BY <1>1, <1>2, <1>3, <1>4, <1>5, <1>6, RowFailed

\* The row is not the one to start from, so the task was astray or on its way.
LEMMA StartMissedHeld ==
    ASSUME Served, NEW h \in half, StartMissed(h)
    PROVE  Held
<1> DEFINE t == h.task
<1>1. /\ h.op = "start" /\ half' = half \ {h} /\ ~HasWorker(t) /\ ~RowReady(t)
      /\ resident' = IF gate[t] = "gated" THEN resident \cup Admit({t}) ELSE resident \ {t}
      /\ astray' = IF gate[t] = "gated" THEN astray \cup {t} ELSE astray
      /\ UNCHANGED <<vars, power, crashes, store, draining, gate, batch>>
    BY DEF StartMissed, Startable, Alone, store
<1>2. /\ t \in Task /\ Exists(t) /\ Kept(t) /\ Sheltered(t)
      /\ RowsTyped /\ MemoryTyped /\ RowTree
    BY ServedTypes
<1>3. \A d \in Task : HalvesOf(d)' = HalvesOf(d) /\ WritesOf(d)' = WritesOf(d) /\ SameRow(d)
    BY <1>1, StarterGone DEF WritesOf, SameRow, store
<1> HIDE DEF t
<1>4. OnlyAbout(t)
    BY <1>1, <1>3 DEF OnlyAbout, Admit
<1>5. /\ tasks' = tasks /\ pass' = pass /\ ~HasWorker(t)'
    BY <1>1 DEF vars, HasWorker
<1>6. Housed(t)'
    BY <1>5 DEF Housed
<1>7. Ordered(t)
  <2>1. CASE gate[t] = "gated"
    BY <1>1, <1>2, <2>1 DEF Ordered
  <2>2. CASE gate[t] # "gated"
    <3>1. ~Matches(t, tasks[t].attempt) /\ astray' = astray
        BY <1>1, <2>2 DEF RowReady
    <3>2. t \in astray \/ Writing(t)
        BY <1>2, <3>1 DEF Kept, Recorded, Agrees
    <3>3. Writing(t)' <=> Writing(t)
        BY <1>2, <1>3, <1>5 DEF Writing
    <3>4. Leased(t)'
        BY <3>1, <3>2, <3>3 DEF Leased
    <3>5. Recorded(t)'
        BY <1>2, <1>3, <1>5, <3>1, <3>2, <3>3 DEF Kept, Recorded, SameRow, HasRow, Unopened
    <3> QED BY <3>4, <3>5 DEF Ordered
  <2> QED BY <2>1, <2>2
<1>8. Kept(t)'
    BY <1>1, <1>2, <1>3, <1>6, <1>7, CalmStep, RewriteKeeps
<1>9. Sheltered(t)' /\ Durable(t) /\ (HasRow(t) => HasRow(t)' /\ row'[t].parent = row[t].parent)
    BY <1>2, <1>3 DEF Sheltered, Durable, SameRow, HasRow
<1>10. RowsTyped' /\ MemoryTyped'
    BY <1>1, <1>2 DEF RowsTyped, MemoryTyped, store, Admit
<1>11. RowTree'
    BY <1>1, <1>2, RowTreeStays DEF store, HasRow
<1>12. half' \subseteq half /\ batch' \subseteq batch
    BY <1>1
<1> QED BY <1>1, <1>2, <1>4, <1>8, <1>9, <1>10, <1>11, <1>12, RewriteHeld

\* The root's row is paused with its attachment.
LEMMA DetachRowHeld ==
    ASSUME Served, NEW h \in half, DetachRow(h)
    PROVE  Held
<1>1. /\ h.op = "detach" /\ half' = half \ {h}
      /\ UNCHANGED <<vars, power, crashes, draining, resident, gate, batch>>
    BY DEF DetachRow
<1>2. /\ Root \in Task /\ Exists(Root) /\ Kept(Root) /\ Sheltered(Root)
      /\ RowsTyped /\ MemoryTyped /\ RowTree
    BY ServedTypes, TaskAssumption DEF TreeShape
<1>3. \A d \in Task : HalvesOf(d)' = HalvesOf(d) /\ WritesOf(d)' = WritesOf(d)
    BY <1>1, StarterGone DEF WritesOf
<1>4. half' \subseteq half /\ batch' \subseteq batch
    BY <1>1
<1>5. tasks' = tasks
    BY <1>1 DEF vars
<1>6. CASE ~Matches(Root, h.attempt)
  <2>1. UNCHANGED <<store, astray>>
    BY <1>6 DEF DetachRow, store
  <2>2. Harmless
    BY <1>1, ServedTypes, StutterHarmless
  <2>3. MemoryTyped' /\ SameHalves
    BY <1>1, <1>2, <2>1 DEF MemoryTyped, SameHalves
  <2> QED BY <1>1, <1>4, <2>1, <2>2, <2>3, OperationHeld DEF vars, HasWorker
<1>7. CASE Matches(Root, h.attempt)
  <2>1. /\ Set({Root}, "Paused") /\ attachment' = "detached"
        /\ astray' = IF Pausing(h) THEN astray ELSE astray \cup {Root}
        /\ HasRow(Root) /\ row[Root].attempt = h.attempt
    BY <1>7 DEF DetachRow, Matches
  <2>2. "Paused" \in RowStates
    BY DEF RowStates, TaskStates, LiveStates
  <2>3. /\ row' \in [Task -> Row \cup {NoRow}] /\ leaseRow' \in [Task -> SUBSET LeaseKind]
        /\ \A d \in Task : (HasRow(d)' <=> HasRow(d))
        /\ \A d \in Task \ {Root} : SameRow(d)
        /\ RowSet(Root, "Paused")
    BY <1>2, <2>1, <2>2, SetFacts
  <2>4. OnlyAbout(Root)
    BY <1>1, <1>3, <2>1, <2>3 DEF OnlyAbout
  <2>5. Housed(Root)' /\ Leased(Root)' /\ Sheltered(Root)'
    BY DEF Housed, Leased, Sheltered
  <2>6. Ordered(Root)
    BY <1>2, <1>5, <2>1, <2>3, <2>5 DEF Ordered, Agrees, Matches, RowSet, Pausing
  <2>7. row[Root].attempt <= tasks[Root].attempt /\ row[Root].parent = parent[Root]
    BY <1>2, <2>1 DEF Kept, Attempts
  <2>8. Kept(Root)'
    BY <1>1, <1>2, <1>3, <2>1, <2>3, <2>5, <2>6, <2>7, RowHalves, CalmStep, RewriteKeeps DEF RowSet
  <2>9. Durable(Root)
    BY <1>2, <2>1, StateFacts DEF Durable, Kept, Recorded, IsLive, Pausing
  <2>10. RowsTyped' /\ MemoryTyped'
    BY <1>1, <1>2, <2>1, <2>3 DEF RowsTyped, MemoryTyped
  <2>11. RowTree'
    BY <1>2, <2>3, RowTreeStays DEF SameRow, RowSet
  <2> QED BY <1>1, <1>2, <1>4, <2>3, <2>4, <2>5, <2>8, <2>9, <2>10, <2>11, RewriteHeld DEF RowSet
<1> QED BY <1>6, <1>7


-----------------------------------------------------------------------------
(* Operations that settle a task and write what they moved at once.        *)

\* A step in which every task idles or ends.
LEMMA EndsHeld ==
    ASSUME Served, Harmless, UNCHANGED <<power, crashes, pass, batch>>,
           RowsTyped', MemoryTyped', half' \subseteq half,
           \A d \in Task : Idle(d) \/ (Exists(d) /\ Ends(d))
    PROVE  Held
<1>1. \A d \in Task : Fine(d)
    BY IdleFine, EndsFine
<1>2. \A d \in Task : /\ HasRow(d)' <=> HasRow(d)
                      /\ HasRow(d) => row'[d].parent = row[d].parent
    BY DEF Idle, Ends, SameRow, RowSet, HasRow
<1>3. RowTree'
    BY <1>2, ServedTypes, RowTreeStays
<1>4. /\ ~pass'.active => pass' = NoPass
      /\ pass'.active => batch' = {}
    BY DEF Served, Serving
<1> QED BY <1>1, <1>3, <1>4, Assembled

\* Nothing is under way but what was, and no worker starts.
Continues ==
    /\ UNCHANGED <<pass, batch>>
    /\ \A d \in Task : HalvesOf(d)' = HalvesOf(d) /\ (HasWorker(d)' => HasWorker(d))

\* A task settles, and what it and its victims held is written in the same step.
LEMMA SettleHeld ==
    ASSUME Served, NEW t \in Task, NEW s \in SettledStates, Exists(t), Harmless, Cascades(t),
           ~IsTerminal(tasks[t]), tasks'[t].state = s, tasks'[t].attempt = tasks[t].attempt,
           PersistSettled(t, s), Matches(t, tasks[t].attempt), Continues,
           UNCHANGED <<power, crashes, attachment, draining>>,
           gate' \in [Task -> {"none", "required", "gated", "attested"}],
           half' \subseteq half
    PROVE  Held
<1>1. /\ row' \in [Task -> Row \cup {NoRow}]
      /\ leaseRow' \in [Task -> SUBSET LeaseKind]
      /\ \A d \in Task : HasRow(d)' <=> HasRow(d)
      /\ HasRow(t) => RowSet(t, s) /\ leaseRow'[t] = {} /\ t \notin resident'
      /\ \A d \in Task \ {t} :
           IF tasks'[d] = tasks[d]
           THEN SameRow(d) /\ (d \in resident' <=> d \in resident)
                           /\ (d \in astray' <=> d \in astray)
           ELSE /\ d \notin resident'
                /\ d \in astray \/ ~Matches(d, tasks[d].attempt) <=> d \in astray'
                /\ HasRow(d) => RowSet(d, "Cancelled") /\ leaseRow'[d] = {}
                /\ ~HasRow(d) => SameRow(d)
      /\ t \in astray => t \in astray'
      /\ resident' \subseteq resident /\ astray' \subseteq astray \cup Task
    BY ServedTypes, PersistSettledFacts
<1>2. \A d \in Task : WritesOf(d)' = WritesOf(d) /\ parent'[d] = parent[d]
    BY DEF Continues, WritesOf, Harmless
<1>3. \A d \in Task : Carried(d)
    BY <1>1, <1>2 DEF Carried, Continues
<1>4. Ends(t)
    BY <1>1, <1>3 DEF Ends, IsSettled, Matches
<1>5. ASSUME NEW d \in Task \ {t}, tasks'[d] = tasks[d] PROVE Idle(d)
    BY <1>1, <1>3, <1>5 DEF Idle
<1>6. ASSUME NEW d \in Task \ {t}, tasks'[d] # tasks[d] PROVE Exists(d) /\ Ends(d)
  <2>1. /\ Exists(d) /\ ~IsTerminal(tasks[d])
        /\ tasks'[d].state = "Cancelled" /\ tasks'[d].attempt = tasks[d].attempt
    BY <1>6 DEF Cascades, Struck
  <2>2. IsSettled(tasks'[d])
    BY <2>1 DEF IsSettled, SettledStates
  <2>3. CASE HasRow(d)
    BY <1>1, <1>3, <1>6, <2>1, <2>2, <2>3 DEF Ends
  <2>4. CASE ~HasRow(d)
    BY <1>1, <1>3, <1>6, <2>1, <2>2, <2>4 DEF Ends, Matches
  <2> QED BY <2>1, <2>3, <2>4
<1>7. RowsTyped' /\ MemoryTyped'
    BY <1>1, ServedTypes DEF RowsTyped, MemoryTyped, Continues
<1> QED BY <1>4, <1>5, <1>6, <1>7, EndsHeld DEF Continues

\* The handles of the tasks a cascade takes are told, and stay.
LEMMA ToldContinues ==
    ASSUME TypeOK, NEW S, worker' = CancelWorkers(S), UNCHANGED <<pass, batch>>,
           \A d \in Task : HalvesOf(d)' = HalvesOf(d)
    PROVE  Continues
BY CancelWorkersFacts DEF Continues, HasWorker

\* What a start finds.
LEMMA StartableFacts ==
    ASSUME Served, NEW h \in half, Startable(h)
    PROVE  /\ h.task \in Task /\ Exists(h.task) /\ Kept(h.task) /\ Sheltered(h.task)
           /\ tasks[h.task] \in AgentTask /\ ~HasWorker(h.task)
           /\ half' \subseteq half /\ \A d \in Task : HalvesOf(d)' = HalvesOf(d)
           /\ pass = NoPass
           /\ [gate EXCEPT ![h.task] = "none"] \in [Task -> {"none", "required", "gated", "attested"}]
<1>1. h.task \in Task /\ Exists(h.task) /\ Kept(h.task) /\ Sheltered(h.task)
    BY ServedTypes
<1>2. half' = half \ {h} /\ h.op = "start" /\ ~HasWorker(h.task) /\ ~pass.active
    BY DEF Startable, Unlocked
<1>3. \A d \in Task : HalvesOf(d)' = HalvesOf(d)
    BY <1>2, StarterGone
<1>4. pass = NoPass
    BY <1>2 DEF Served, Serving
<1>5. tasks[h.task] \in AgentTask
    BY <1>1, ServedTypes DEF TypeOK, Exists
<1>6. [gate EXCEPT ![h.task] = "none"] \in [Task -> {"none", "required", "gated", "attested"}]
    BY ServedTypes DEF MemoryTyped
<1> QED BY <1>1, <1>2, <1>3, <1>4, <1>5, <1>6

\* The factory of a worker fails.
LEMMA StartChildFailsHeld ==
    ASSUME Served, NEW h \in half, StartChildFails(h)
    PROVE  Held
<1> DEFINE t == h.task
           running == Reduce(tasks[t], Event("AdmissionGranted", tasks[t])).task
           failed  == Reduce(running, Event("WorkerFailed", running)).task
           ts      == [tasks EXCEPT ![t] = failed]
<1>1. /\ Startable(h) /\ Matches(t, tasks[t].attempt) /\ StartWorkerFails(t)
      /\ PersistSettled(t, "Failed")
      /\ gate' = [gate EXCEPT ![t] = "none"]
      /\ UNCHANGED <<power, crashes, attachment, draining, batch>>
    BY DEF StartChildFails, RowReady, Alone
<1>2. /\ TypeOK /\ TreeShape /\ t \in Task /\ Exists(t) /\ tasks[t] \in AgentTask
      /\ half' \subseteq half /\ \A d \in Task : HalvesOf(d)' = HalvesOf(d)
      /\ gate' \in [Task -> {"none", "required", "gated", "attested"}]
    BY <1>1, ServedTypes, StartableFacts
<1>3. /\ tasks' = CancelAll(ts, Victims(ts, t)) /\ worker' = CancelWorkers(Victims(ts, t))
      /\ pass' = pass /\ Applied(t, Event("AdmissionGranted", tasks[t])).ok
    BY <1>1 DEF StartWorkerFails, Admitted
<1> HIDE DEF t
<1>4. Reduce(tasks[t], Event("AdmissionGranted", tasks[t])).ok
    BY <1>2, <1>3 DEF Applied
<1>5. /\ running \in AgentTask /\ running.state = "Running" /\ ~IsTerminal(tasks[t])
      /\ running.attempt = tasks[t].attempt
  <2>1. "AdmissionGranted" \in PlainEvents /\ Target("AdmissionGranted") = "Running"
    BY DEF PlainEvents, Target
  <2> QED BY <1>2, <1>4, <2>1, PlainFacts
<1> HIDE DEF running
<1>6. failed \in AgentTask /\ failed.state = "Failed" /\ failed.attempt = running.attempt
  <2>1. "WorkerFailed" \in PlainEvents /\ Target("WorkerFailed") = "Failed"
    BY DEF PlainEvents, Target
  <2>2. "Failed" \in Successors("Running")
    BY DEF Successors, TerminalStates, SettledStates, WaitingStates
  <2> QED BY <1>5, <2>1, <2>2, PlainFacts
<1> HIDE DEF failed
<1>7. Cascades(t) /\ tasks'[t] = failed
    BY <1>2, <1>3, <1>6, ReplacedCascades
<1> HIDE DEF ts
<1>8. Continues
    BY <1>1, <1>2, <1>3, ToldContinues
<1>9. Harmless
    BY <1>1, <1>2, StartHarmless
<1>10. "Failed" \in SettledStates
    BY DEF SettledStates
<1> QED BY <1>1, <1>2, <1>5, <1>6, <1>7, <1>8, <1>9, <1>10, SettleHeld

\* An event that may settle its task is applied: when it is accepted the rows
\* follow, and when it is refused the row is written although the task stays.
LEMMA SettlingEventHeld ==
    ASSUME Served, NEW t \in Task, Exists(t), NEW kind \in PlainEvents,
           Target(kind) \in SettledStates, Matches(t, tasks[t].attempt),
           tasks' = Applied(t, Event(kind, tasks[t])).tasks, NEW S, worker' = CancelWorkers(S),
           UNCHANGED <<parent, depth, report, pass, strays>>,
           IF Applied(t, Event(kind, tasks[t])).ok
           THEN PersistSettled(t, Target(kind))
           ELSE /\ Set({t}, Target(kind)) /\ resident' = resident /\ astray' = astray \cup {t}
                /\ ~HasWorker(t) \/ IsTerminal(tasks[t]),
           UNCHANGED <<power, crashes, attachment, draining, gate, batch>>,
           half' \subseteq half, \A d \in Task : HalvesOf(d)' = HalvesOf(d)
    PROVE  Held
<1> DEFINE event == Event(kind, tasks[t])
<1>1. TypeOK /\ TreeShape /\ MemoryTyped /\ tasks[t] \in AgentTask
    BY ServedTypes DEF TypeOK, Exists
<1>2. /\ event \in TaskEvent
      /\ Reduce(tasks[t], event).task.attempt = tasks[t].attempt
      /\ Reduce(tasks[t], event).ok =>
            Reduce(tasks[t], event).task.state = Target(kind) /\ ~IsTerminal(tasks[t])
      /\ ~Reduce(tasks[t], event).ok => Reduce(tasks[t], event).task = tasks[t]
    BY <1>1, PlainFacts
<1> HIDE DEF event
<1>3. /\ Cascades(t) /\ tasks'[t] = Reduce(tasks[t], event).task
      /\ Applied(t, event).ok = Reduce(tasks[t], event).ok
      /\ ~Reduce(tasks[t], event).ok => \A d \in Task \ {t} : tasks'[d] = tasks[d]
    BY <1>1, <1>2, AppliedCascades DEF event
<1>4. Harmless
    BY <1>1, <1>2, EventAction DEF event
<1>5. Continues
    BY <1>1, ToldContinues
<1>6. gate' \in [Task -> {"none", "required", "gated", "attested"}]
    BY <1>1 DEF MemoryTyped
<1>7. CASE Applied(t, event).ok
    BY <1>2, <1>3, <1>4, <1>5, <1>6, <1>7, SettleHeld DEF event
<1>8. CASE ~Applied(t, event).ok
  <2>1. \A d \in Task : tasks'[d] = tasks[d]
    BY <1>2, <1>3, <1>8
  <2>2. tasks' = tasks
    BY <1>1, <1>4, <2>1 DEF Harmless, TypeOK
  <2>3. Calm
    BY <1>1, <2>2, CancelWorkersFacts DEF Calm, HasWorker
  <2>4. HasRow(t)
    BY DEF Matches
  <2> QED BY <1>4, <1>6, <1>8, <2>3, <2>4, RowFailed DEF event
<1> QED BY <1>7, <1>8

\* The position of a worker is not usable.
LEMMA StartUnprovisionedHeld ==
    ASSUME Served, NEW h \in half, StartUnprovisioned(h)
    PROVE  Held
<1> DEFINE t == h.task
           a == Applied(t, Event("WorkerFailed", tasks[t]))
<1>1. /\ Startable(h) /\ Matches(t, tasks[t].attempt)
      /\ tasks' = a.tasks /\ worker' = CancelWorkers(a.victims)
      /\ IF a.ok THEN PersistSettled(t, "Failed")
         ELSE Set({t}, "Failed") /\ resident' = resident /\ astray' = astray \cup {t}
      /\ UNCHANGED <<parent, depth, report, pass, strays>>
      /\ UNCHANGED <<power, crashes, attachment, draining, gate, batch>>
    BY DEF StartUnprovisioned, Alone
<1>2. /\ t \in Task /\ Exists(t) /\ ~HasWorker(t)
      /\ half' \subseteq half /\ \A d \in Task : HalvesOf(d)' = HalvesOf(d)
    BY <1>1, StartableFacts
<1>3. "WorkerFailed" \in PlainEvents /\ Target("WorkerFailed") = "Failed" /\ "Failed" \in SettledStates
    BY DEF PlainEvents, Target, SettledStates
<1> HIDE DEF t
<1> QED BY <1>1, <1>2, <1>3, SettlingEventHeld

\* A watchdog fires: what it finds running it may end.
LEMMA WatchdogFiresHeld ==
    ASSUME Served, NEW t \in Task, NEW kind \in WatchdogKinds, WatchdogFires(t, kind)
    PROVE  Held
<1> DEFINE a == Applied(t, Event(kind, tasks[t]))
<1>1. /\ Exists(t) /\ Matches(t, tasks[t].attempt)
      /\ Watchdog(t, kind)
      /\ IF a.ok THEN PersistSettled(t, Target(kind))
         ELSE Set({t}, Target(kind)) /\ resident' = resident /\ astray' = astray \cup {t}
      /\ UNCHANGED <<power, crashes, attachment, draining, gate, batch, half>>
    BY DEF WatchdogFires, Alone
<1>2. /\ tasks' = a.tasks /\ worker' = CancelWorkers({t} \cup a.victims)
      /\ UNCHANGED <<parent, depth, report, pass, strays>>
    BY <1>1 DEF Watchdog
<1>3. kind \in PlainEvents /\ Target(kind) \in WatchdogStates /\ Target(kind) \in SettledStates
    BY WatchdogAssumption DEF PlainEvents, Target, WatchdogStates, SettledStates
<1>4. TypeOK /\ TreeShape /\ tasks[t] \in AgentTask /\ Kept(t)
    BY <1>1, ServedTypes DEF TypeOK, Exists
<1>5. ASSUME ~a.ok PROVE ~HasWorker(t) \/ IsTerminal(tasks[t])
  <2>1. a.ok = Reduce(tasks[t], Event(kind, tasks[t])).ok
    BY DEF Applied
  <2>2. Target(kind) \notin Successors(tasks[t].state)
    BY <1>3, <1>4, <1>5, <2>1, PlainFacts
  <2>3. tasks[t].state # "Running"
    BY <1>3, <2>2 DEF Successors, TerminalStates
  <2> QED BY <1>4, <2>3 DEF Kept, InMemory, IsTerminal
<1>6. half' \subseteq half /\ \A d \in Task : HalvesOf(d)' = HalvesOf(d)
    BY <1>1 DEF HalvesOf
<1> QED BY <1>1, <1>2, <1>3, <1>5, <1>6, SettlingEventHeld

-----------------------------------------------------------------------------
(* Operations that move a task without settling it.                        *)

\* The task moves, and so may its row; every other task idles.
LEMMA MoveHeld ==
    ASSUME Served, NEW t \in Task, Exists(t), Harmless, UNCHANGED <<power, crashes, pass, batch>>,
           OnlyAbout(t),
           \A d \in Task \ {t} : tasks'[d] = tasks[d] /\ (HasWorker(d)' => HasWorker(d)),
           RowsTyped', MemoryTyped',
           Kept(t)', Sheltered(t)', Durable(t),
           HasRow(t)' <=> HasRow(t), HasRow(t) => row'[t].parent = row[t].parent,
           \A h \in half' : h \in half \/ (Exists(h.task) /\ h.op # "spawn")
    PROVE  Held
<1>1. Fine(t)
    BY DEF Fine
<1>2. ASSUME NEW d \in Task \ {t} PROVE Fine(d)
  <2>1. Idle(d)
    BY DEF Idle, Carried, OnlyAbout, Harmless
  <2> QED BY <2>1, IdleFine
<1>3. RowTree'
  <2>1. \A d \in Task \ {t} : row'[d] = row[d]
    BY DEF OnlyAbout, SameRow
  <2> QED BY <2>1, ServedTypes, RowTreeStays DEF HasRow
<1>4. /\ ~pass'.active => pass' = NoPass
      /\ pass'.active => batch' = {}
    BY DEF Served, Serving
<1> QED BY <1>1, <1>2, <1>3, <1>4, Assembled

\* Of a task that is not settled, no write that settles its attempt is collected,
\* and its row is not settled either, but for an astray one.
LEMMA OpenFacts ==
    ASSUME NEW t \in Task, Kept(t), ~IsTerminal(tasks[t])
    PROVE  /\ \A w \in WritesOf(t) : ~(Settles(w.state) /\ w.attempt = tasks[t].attempt)
           /\ t \notin astray /\ Matches(t, tasks[t].attempt) => ~Settles(row[t].state)
           /\ HasRow(t) => \A h \in HalvesOf(t) : h.op # "spawn"
           /\ Matches(t, tasks[t].attempt) => ~Unopened(t)
BY StateFacts DEF Kept, Collects, Recorded, Attempts, IsTerminal, Matches

\* A task that agrees with its row runs: what else the invariant asks follows.
LEMMA RunsKeeps ==
    ASSUME NEW t \in Task, Kept(t), Matches(t, tasks[t].attempt), ~IsTerminal(tasks[t]),
           pass = NoPass, pass' = pass, WritesOf(t)' = WritesOf(t), HalvesOf(t)' = HalvesOf(t),
           tasks'[t].state = "Running", tasks'[t].attempt = tasks[t].attempt,
           RowSet(t, "Running"), parent'[t] = parent[t], Housed(t)', Leased(t)'
    PROVE  Kept(t)' /\ Durable(t)
<1>1. InMemory(t)'
    BY StateFacts DEF InMemory, RowSet, NoPass
<1>2. Attempts(t)'
    BY OpenFacts DEF Kept, Attempts, Unopened, RowSet, Matches
<1>3. Collects(t)'
    BY OpenFacts DEF Kept, Collects
<1>4. Agrees(t)'
    BY DEF Agrees, Matches, RowSet
<1>5. Recorded(t)'
    BY <1>3, <1>4, AgreesRecords
<1>6. Durable(t)
    BY OpenFacts DEF Durable, RowSet
<1> QED BY <1>1, <1>2, <1>3, <1>5, <1>6 DEF Kept, RowSet

\* The row and the leases of a task that starts.
LEMMA RunWritten ==
    ASSUME RowsTyped, NEW t \in Task, HasRow(t), NEW S \in SUBSET LeaseKind,
           row' = [row EXCEPT ![t].state = "Running", ![t].context = TRUE],
           leaseRow' = [leaseRow EXCEPT ![t] = S]
    PROVE  /\ row' \in [Task -> Row \cup {NoRow}] /\ leaseRow' \in [Task -> SUBSET LeaseKind]
           /\ RowSet(t, "Running") /\ leaseRow'[t] = S
           /\ \A d \in Task \ {t} : SameRow(d)
<1> DEFINE new == [[row[t] EXCEPT !.state = "Running"] EXCEPT !.context = TRUE]
<1>1. /\ new \in Row /\ new.state = "Running" /\ new.attempt = row[t].attempt
      /\ new.parent = row[t].parent
    BY NoRowAssumption DEF RowsTyped, HasRow, Row, RowStates, TaskStates, LiveStates
<1>2. row' = [row EXCEPT ![t] = new]
    BY DEF RowsTyped
<1> HIDE DEF new
<1>3. row'[t] = new /\ \A d \in Task \ {t} : row'[d] = row[d]
    BY <1>2 DEF RowsTyped
<1>4. /\ leaseRow' \in [Task -> SUBSET LeaseKind] /\ leaseRow'[t] = S
      /\ \A d \in Task \ {t} : leaseRow'[d] = leaseRow[d]
    BY DEF RowsTyped
<1> QED BY <1>1, <1>2, <1>3, <1>4, NoRowAssumption DEF RowsTyped, HasRow, RowSet, SameRow

\* A worker starts.
LEMMA StartChildHeld ==
    ASSUME Served, NEW h \in half, StartChild(h)
    PROVE  Held
<1> DEFINE t == h.task
           event == Event("AdmissionGranted", tasks[t])
           S == IF t = Root THEN {"workspace"} ELSE LeaseKind
<1>1. /\ Startable(h) /\ Matches(t, tasks[t].attempt) /\ StartWorker(t)
      /\ row' = [row EXCEPT ![t].state = "Running", ![t].context = TRUE]
      /\ leaseRow' = [leaseRow EXCEPT ![t] = S]
      /\ resident' = resident \cup Admit({t}) /\ gate' = [gate EXCEPT ![t] = "none"]
      /\ UNCHANGED <<power, crashes, attachment, draining, batch, astray>>
    BY DEF StartChild, RowReady, Alone
<1>2. /\ TypeOK /\ TreeShape /\ RowsTyped /\ MemoryTyped
      /\ t \in Task /\ Exists(t) /\ Kept(t) /\ tasks[t] \in AgentTask
      /\ half' \subseteq half /\ (\A d \in Task : HalvesOf(d)' = HalvesOf(d))
      /\ pass = NoPass
      /\ gate' \in [Task -> {"none", "required", "gated", "attested"}]
    BY <1>1, ServedTypes, StartableFacts
<1>3. S \in SUBSET LeaseKind /\ "workspace" \in S
    BY DEF LeaseKind
<1>4. t # Root => t \in resident'
    BY <1>1 DEF Admit
<1> HIDE DEF t, S
<1>5. /\ tasks' = Applied(t, event).tasks /\ Applied(t, event).ok /\ pass' = pass
      /\ \A d \in Task \ {t} : worker'[d] = worker[d]
    BY <1>1, <1>2 DEF StartWorker, Admitted, TypeOK
<1>6. /\ event \in TaskEvent
      /\ Reduce(tasks[t], event).task.attempt = tasks[t].attempt
      /\ Reduce(tasks[t], event).ok =>
            Reduce(tasks[t], event).task.state = "Running" /\ ~IsTerminal(tasks[t])
  <2>1. "AdmissionGranted" \in PlainEvents /\ Target("AdmissionGranted") = "Running"
    BY DEF PlainEvents, Target
  <2> QED BY <1>2, <2>1, PlainFacts
<1> HIDE DEF event
<1>7. /\ tasks'[t].state = "Running" /\ tasks'[t].attempt = tasks[t].attempt
      /\ ~IsTerminal(tasks[t])
      /\ \A d \in Task \ {t} : tasks'[d] = tasks[d]
  <2>1. /\ tasks'[t] = Reduce(tasks[t], event).task
        /\ Applied(t, event).ok = Reduce(tasks[t], event).ok
        /\ ~IsSettled(tasks'[t]) => \A d \in Task \ {t} : tasks'[d] = tasks[d]
    BY <1>2, <1>5, <1>6, AppliedCascades
  <2> QED BY <1>5, <1>6, <2>1, StateFacts DEF IsSettled
<1>8. Harmless
    BY <1>1, <1>2, StartHarmless
<1>9. HasRow(t)
    BY <1>1 DEF Matches
<1>10. /\ row' \in [Task -> Row \cup {NoRow}] /\ leaseRow' \in [Task -> SUBSET LeaseKind]
       /\ RowSet(t, "Running") /\ leaseRow'[t] = S
       /\ \A d \in Task \ {t} : SameRow(d)
    BY <1>1, <1>2, <1>3, <1>9, RunWritten
<1>11. \A d \in Task : WritesOf(d)' = WritesOf(d)
    BY <1>1 DEF WritesOf
<1>12. OnlyAbout(t)
    BY <1>1, <1>2, <1>10, <1>11 DEF OnlyAbout, Admit, t
<1>13. Housed(t)' /\ Leased(t)' /\ Sheltered(t)'
    BY <1>3, <1>4, <1>7, <1>10, StateFacts DEF Housed, Leased, Sheltered, IsSettled
<1>14. Kept(t)' /\ Durable(t)
    BY <1>1, <1>2, <1>5, <1>7, <1>8, <1>10, <1>11, <1>13, RunsKeeps DEF Harmless
<1>15. RowsTyped' /\ MemoryTyped'
    BY <1>1, <1>2, <1>10 DEF RowsTyped, MemoryTyped, Admit
<1> QED BY <1>1, <1>2, <1>5, <1>7, <1>8, <1>10, <1>12, <1>13, <1>14, <1>15, MoveHeld
        DEF RowSet, HasWorker

\* The workspace changed since the checkpoint: the task is blocked.
LEMMA StartConflictsHeld ==
    ASSUME Served, NEW h \in half, StartConflicts(h)
    PROVE  Held
<1> DEFINE t == h.task
           admitted == IF tasks[t].state = "Queued"
                       THEN Reduce(tasks[t], Event("AdmissionGranted", tasks[t])).task
                       ELSE tasks[t]
           blocked == Reduce(admitted, Event("RecoveryConflict", admitted)).task
           ts == [tasks EXCEPT ![t] = blocked]
<1>1. /\ Startable(h) /\ RecordRecoveryConflict(t)
      /\ IF Matches(t, tasks[t].attempt)
         THEN PersistSettled(t, "Blocked") /\ gate' = [gate EXCEPT ![t] = "none"]
         ELSE /\ resident' = resident \cup Admit({t}) /\ astray' = astray \cup Changed
              /\ UNCHANGED <<row, leaseRow, gate>>
      /\ UNCHANGED <<power, crashes, attachment, draining, batch>>
    BY DEF StartConflicts, Alone
<1>2. /\ TypeOK /\ TreeShape /\ RowsTyped /\ MemoryTyped
      /\ t \in Task /\ Exists(t) /\ Kept(t) /\ tasks[t] \in AgentTask
      /\ half' \subseteq half /\ (\A d \in Task : HalvesOf(d)' = HalvesOf(d))
      /\ [gate EXCEPT ![t] = "none"] \in [Task -> {"none", "required", "gated", "attested"}]
    BY <1>1, ServedTypes, StartableFacts
<1>3. /\ Reduce(admitted, Event("RecoveryConflict", admitted)).ok
      /\ tasks' = CancelAll(ts, Victims(ts, t)) /\ worker' = CancelWorkers(Victims(ts, t))
      /\ UNCHANGED <<parent, depth, report, pass, strays>>
    BY <1>1 DEF RecordRecoveryConflict
<1> HIDE DEF t
<1>4. /\ admitted \in AgentTask /\ admitted.attempt = tasks[t].attempt
      /\ IsTerminal(tasks[t]) => admitted = tasks[t]
  <2>1. "AdmissionGranted" \in PlainEvents
    BY DEF PlainEvents
  <2> QED BY <1>2, <2>1, PlainFacts, StateFacts DEF IsTerminal
<1> HIDE DEF admitted
<1>5. /\ blocked \in AgentTask /\ blocked.state = "Blocked" /\ blocked.attempt = tasks[t].attempt
      /\ ~IsTerminal(admitted)
  <2>1. "RecoveryConflict" \in PlainEvents /\ Target("RecoveryConflict") = "Blocked"
    BY DEF PlainEvents, Target
  <2> QED BY <1>3, <1>4, <2>1, PlainFacts
<1> HIDE DEF blocked
<1>6. Cascades(t) /\ tasks'[t] = blocked
    BY <1>2, <1>3, <1>5, ReplacedCascades
<1> HIDE DEF ts
<1>7. Continues
    BY <1>1, <1>2, <1>3, ToldContinues
<1>8. Harmless
    BY <1>1, <1>2, RecordRecoveryConflictHarmless
<1>9. "Blocked" \in SettledStates /\ ~IsTerminal(tasks[t])
    BY <1>4, <1>5 DEF SettledStates
<1>10. CASE Matches(t, tasks[t].attempt)
    BY <1>1, <1>2, <1>5, <1>6, <1>7, <1>8, <1>9, <1>10, SettleHeld
<1>11. CASE ~Matches(t, tasks[t].attempt)
  <2>1. /\ resident' = resident \cup Admit({t}) /\ astray' = astray \cup Changed
        /\ UNCHANGED <<row, leaseRow, gate>>
    BY <1>1, <1>11
  <2>2. \A d \in Task : Carried(d) /\ SameRow(d)
    BY <1>3, <1>7, <2>1, <1>1 DEF Carried, SameRow, Continues, WritesOf
  <2>3. t \in Changed
    BY <1>2, <1>5, <1>6, <1>9, StateFacts DEF Changed, IsTerminal
  <2>4. Ends(t)
    BY <1>2, <1>5, <1>6, <1>9, <2>1, <2>2, <2>3 DEF Ends, IsSettled
  <2>5. ASSUME NEW d \in Task \ {t} PROVE Idle(d) \/ (Exists(d) /\ Ends(d))
    <3>1. CASE tasks'[d] = tasks[d]
        BY <2>1, <2>2, <2>5, <3>1 DEF Idle, Admit
    <3>2. CASE tasks'[d] # tasks[d]
        <4>1. /\ Exists(d) /\ ~IsTerminal(tasks[d])
              /\ tasks'[d].state = "Cancelled" /\ tasks'[d].attempt = tasks[d].attempt
            BY <1>6, <2>5, <3>2 DEF Cascades, Struck
        <4>2. d \in astray'
            BY <2>1, <3>2 DEF Changed
        <4> QED BY <2>2, <4>1, <4>2 DEF Ends, IsSettled, SettledStates
    <3> QED BY <3>1, <3>2
  <2>6. RowsTyped' /\ MemoryTyped'
    BY <1>1, <1>2, <2>1 DEF RowsTyped, MemoryTyped, Admit, Changed
  <2> QED BY <1>1, <1>2, <1>3, <1>8, <2>4, <2>5, <2>6, EndsHeld
<1> QED BY <1>10, <1>11

\* What a loop has written when it ends: rows that were in step.
LEMMA WritableFacts ==
    ASSUME NEW S, NEW written \in Writable(S)
    PROVE  written \subseteq S /\ \A d \in written : Matches(d, tasks[d].attempt)
BY DEF Writable

\* A cancellation, of one task or of the tree below it.
LEMMA CancelTaskHeld ==
    ASSUME Served, NEW t \in Task, NEW recursive \in BOOLEAN, CancelTask(t, recursive)
    PROVE  Held
<1> DEFINE targets   == {t} \cup (IF recursive THEN Descendants(t) ELSE {})
           cancelled == LiveIn(tasks, targets)
                          \cup (IF IsLive(tasks[t]) THEN LiveIn(tasks, Descendants(t)) ELSE {})
<1>1. /\ CancelTaskTree(t, recursive)
      /\ UNCHANGED <<power, crashes, attachment, draining, gate, batch, half>>
    BY DEF CancelTask, Alone
<1>2. PICK written \in Writable(Changed) :
         /\ Set(written, "Cancelled") /\ resident' = resident \ written
         /\ astray' = astray \cup (Changed \ written)
    BY DEF CancelTask
<1>3. TypeOK /\ TreeShape /\ RowsTyped /\ MemoryTyped
    BY ServedTypes
<1>4. /\ tasks' = CancelAll(tasks, cancelled) /\ worker' = CancelWorkers(targets \cup cancelled)
      /\ UNCHANGED <<parent, depth, report, pass, strays>>
    BY <1>1 DEF CancelTaskTree
<1>5. ASSUME NEW d \in cancelled
      PROVE  d \in Task /\ Exists(d) /\ IsLive(tasks[d])
    BY <1>5 DEF LiveIn, Descendants, Exists
<1>6. ASSUME NEW d \in Task
      PROVE  tasks'[d] = IF d \in cancelled THEN Cancel(tasks[d]) ELSE tasks[d]
    BY <1>4 DEF CancelAll
<1> HIDE DEF targets, cancelled
<1>7. ASSUME NEW d \in Changed
      PROVE  /\ d \in Task /\ Exists(d) /\ IsLive(tasks[d])
             /\ tasks'[d].state = "Cancelled" /\ tasks'[d].attempt = tasks[d].attempt
  <2>1. d \in Task /\ d \in cancelled
    BY <1>6, <1>7 DEF Changed
  <2>2. tasks[d] \in AgentTask /\ IsLive(tasks[d]) /\ Exists(d)
    BY <1>3, <1>5, <2>1 DEF TypeOK, Exists
  <2> QED BY <1>6, <2>1, <2>2, CancelFacts
<1>8. written \subseteq Changed /\ \A d \in written : Matches(d, tasks[d].attempt)
    BY WritableFacts
<1>9. "Cancelled" \in RowStates /\ "Cancelled" \in SettledStates
    BY DEF RowStates, TaskStates, TerminalStates, SettledStates
<1>10. /\ row' \in [Task -> Row \cup {NoRow}] /\ leaseRow' \in [Task -> SUBSET LeaseKind]
       /\ \A d \in Task :
            /\ d \notin written => SameRow(d)
            /\ d \in written => RowSet(d, "Cancelled") /\ leaseRow'[d] = {}
    BY <1>2, <1>3, <1>8, <1>9, SetFacts, StateFacts DEF Matches
<1>11. Continues
    BY <1>1, <1>3, <1>4, ToldContinues DEF HalvesOf
<1>12. \A d \in Task : Carried(d)
    BY <1>1, <1>2, <1>4, <1>11 DEF Carried, Continues, WritesOf
<1>13. ASSUME NEW d \in Task PROVE Idle(d) \/ (Exists(d) /\ Ends(d))
  <2>1. CASE d \notin Changed
    <3>1. tasks'[d] = tasks[d] /\ d \notin written
        BY <1>8, <2>1 DEF Changed
    <3> QED BY <1>2, <1>10, <1>12, <2>1, <3>1 DEF Idle
  <2>2. CASE d \in Changed
    <3>1. /\ ~IsTerminal(tasks[d]) /\ IsSettled(tasks'[d]) /\ Exists(d)
          /\ tasks'[d].state = "Cancelled" /\ tasks'[d].attempt = tasks[d].attempt
        BY <1>7, <1>9, <2>2, StateFacts DEF IsLive, IsTerminal, IsSettled
    <3>2. CASE d \in written
        BY <1>2, <1>8, <1>10, <1>12, <3>1, <3>2 DEF Ends
    <3>3. CASE d \notin written
        BY <1>2, <1>10, <1>12, <2>2, <3>1, <3>3 DEF Ends
    <3> QED BY <3>2, <3>3
  <2> QED BY <2>1, <2>2
<1>14. RowsTyped' /\ MemoryTyped'
  <2>1. astray' \subseteq Task /\ resident' \subseteq Task
    BY <1>2, <1>3 DEF MemoryTyped, Changed
  <2> QED BY <1>1, <1>3, <1>10, <2>1 DEF RowsTyped, MemoryTyped
<1>15. Harmless
    BY <1>1, <1>3, CancelTaskTreeHarmless
<1> QED BY <1>1, <1>4, <1>13, <1>14, <1>15, EndsHeld

\* Nothing happens to a row, and the task is free of its worker.
LEMMA ReleasedHeld ==
    ASSUME Served, NEW t \in Task, Exists(t), Harmless,
           UNCHANGED <<power, crashes, store, draining, resident, gate, batch, astray, pass>>,
           tasks'[t].state = "Queued", \A d \in Task \ {t} : tasks'[d] = tasks[d],
           worker' = Drop(worker, {t}), pass = NoPass,
           NEW h \in Half, h.task = t, h.op \in {"resume", "retry", "recover"},
           half' = half \cup {h},
           IF Reopening(h)
           THEN /\ IsTerminal(tasks[t])
                /\ tasks'[t].attempt = tasks[t].attempt + 1 /\ h.attempt = tasks[t].attempt + 1
           ELSE ~IsTerminal(tasks[t]) /\ tasks'[t].attempt = tasks[t].attempt
    PROVE  Held
<1>1. /\ TypeOK /\ RowsTyped /\ MemoryTyped /\ Kept(t) /\ Sheltered(t)
      /\ tasks[t].attempt \in Nat \ {0} /\ parent' = parent
    BY ServedTypes DEF TypeOK, Exists, AgentTask, Harmless
<1>2. ~HasWorker(t)' /\ \A d \in Task \ {t} : HasWorker(d)' => HasWorker(d)
    BY DEF Drop, HasWorker
<1>3. /\ HalvesOf(t)' = HalvesOf(t) \cup {h} /\ \A d \in Task \ {t} : HalvesOf(d)' = HalvesOf(d)
      /\ \A d \in Task : WritesOf(d)' = WritesOf(d) /\ SameRow(d)
    BY DEF HalvesOf, WritesOf, SameRow, store
<1>4. OnlyAbout(t)
    BY <1>3 DEF OnlyAbout
<1>5. row'[t] = row[t] /\ leaseRow'[t] = leaseRow[t]
    BY DEF store
<1>6. InMemory(t)'
    BY <1>2, StateFacts DEF InMemory, NoPass
<1>7. Writing(t)' /\ Leased(t)' /\ Housed(t)'
  <2>1. Writing(t)'
    BY <1>3 DEF Writing
  <2> QED BY <1>2, <2>1 DEF Leased, Housed
<1>8. HasRow(t) => row[t].attempt \in Nat \ {0} /\ row[t].attempt <= tasks[t].attempt
    BY <1>1, RowFacts DEF Kept, Attempts
<1>9. \A w \in WritesOf(t) : w.attempt \in Nat /\ w.attempt <= tasks[t].attempt
    BY <1>1 DEF Kept, Collects, WritesOf, MemoryTyped, Write
<1>10. ASSUME Reopening(h)
       PROVE  Attempts(t)' /\ Collects(t)' /\ Recorded(t)'
  <2>1. /\ tasks'[t].attempt = tasks[t].attempt + 1 /\ h.attempt = tasks[t].attempt + 1
    BY <1>10
  <2>2. \A g \in HalvesOf(t) : Reopening(g) => g.attempt \in 2 .. tasks[t].attempt
    BY <1>1 DEF Kept, Attempts
  <2>3. h.op # "spawn"
    BY DEF Half
  <2>4. ASSUME NEW g \in HalvesOf(t)'
        PROVE  /\ g.op = "spawn" => g.attempt = 1 /\ ~HasRow(t)'
               /\ Reopening(g) => g.attempt \in 2 .. tasks'[t].attempt
               /\ \A k \in HalvesOf(t)' :
                    Reopening(k) /\ Reopening(g) /\ k.attempt = g.attempt => k = g
    <3>1. g = h \/ g \in HalvesOf(t)
        BY <1>3, <2>4
    <3>2. g \in HalvesOf(t) /\ g.op = "spawn" => g.attempt = 1 /\ ~HasRow(t)
        BY <1>1 DEF Kept, Attempts
    <3>3. g.op = "spawn" => g.attempt = 1 /\ ~HasRow(t)'
        BY <1>5, <2>3, <3>1, <3>2 DEF HasRow
    <3>4. Reopening(g) => g.attempt \in 2 .. tasks'[t].attempt
        BY <1>1, <2>1, <2>2, <3>1
    <3>5. ASSUME NEW k \in HalvesOf(t)', Reopening(k), Reopening(g), k.attempt = g.attempt
          PROVE  k = g
        <4>1. k = h \/ k \in HalvesOf(t)
            BY <1>3, <3>5
        <4>2. k \in HalvesOf(t) /\ g \in HalvesOf(t) => k = g
            BY <1>1, <3>5 DEF Kept, Attempts
        <4>3. (k = h /\ g = h) \/ (k \in HalvesOf(t) /\ g \in HalvesOf(t))
            BY <1>1, <2>1, <2>2, <3>1, <3>5, <4>1
        <4> QED BY <4>2, <4>3
    <3> QED BY <3>3, <3>4, <3>5
  <2>5. Unopened(t)'
    BY <1>3, <1>10, <2>1 DEF Unopened
  <2>6. Attempts(t)'
    BY <1>1, <1>2, <1>5, <1>8, <2>1, <2>4 DEF Attempts, HasRow
  <2>7. Collects(t)'
    BY <1>1, <1>3, <1>9, <2>1 DEF Kept, Collects
  <2>8. Recorded(t)'
    BY <1>1, <1>3, <1>5, <1>7, <1>8, <2>1, <2>5 DEF Kept, Recorded, HasRow
  <2> QED BY <2>6, <2>7, <2>8
<1>11. ASSUME ~Reopening(h)
       PROVE  Attempts(t)' /\ Collects(t)' /\ Recorded(t)'
  <2>1. tasks'[t].attempt = tasks[t].attempt /\ ~IsTerminal(tasks[t])
    BY <1>11
  <2>2. Unopened(t)' <=> Unopened(t)
    BY <1>3, <1>11, <2>1 DEF Unopened
  <2>3. h.op # "spawn"
    BY DEF Half
  <2>4. Attempts(t)'
    BY <1>1, <1>2, <1>3, <1>5, <1>11, <2>1, <2>2, <2>3 DEF Kept, Attempts, HasRow
  <2>5. Collects(t)'
    BY <1>1, <1>3, <2>1, OpenFacts DEF Kept, Collects
  <2>6. Recorded(t)'
    BY <1>1, <1>3, <1>5, <1>7, <2>1, <2>2, OpenFacts DEF Kept, Recorded, HasRow, Matches
  <2> QED BY <2>4, <2>5, <2>6
<1>12. Kept(t)'
    BY <1>1, <1>5, <1>6, <1>7, <1>10, <1>11 DEF Kept, HasRow
<1>13. Sheltered(t)' /\ Durable(t)
    BY <1>1, <1>5 DEF Sheltered, Durable, HasRow
<1>14. RowsTyped' /\ MemoryTyped'
    BY <1>1 DEF RowsTyped, MemoryTyped, store
<1>15. \A g \in half' : g \in half \/ (Exists(g.task) /\ g.op # "spawn")
    OBVIOUS
<1> QED BY <1>2, <1>4, <1>5, <1>12, <1>13, <1>14, <1>15, MoveHeld DEF HasRow

\* A paused task is queued again in memory.
LEMMA ResumeHeld ==
    ASSUME Served, NEW t \in Task, Resume(t)
    PROVE  Held
<1> DEFINE event == Event("ResumeRequested", tasks[t])
           h == [op |-> "resume", task |-> t, attempt |-> tasks[t].attempt]
<1>1. /\ ResumeTask(t) /\ half' = half \cup {h}
      /\ UNCHANGED <<power, crashes, store, draining, resident, gate, batch, astray>>
    BY DEF Resume, Alone, store
<1>2. /\ Exists(t) /\ Applied(t, event).ok /\ tasks' = Applied(t, event).tasks
      /\ worker' = Drop(worker, {t}) /\ pass' = pass /\ ~pass.active
    BY <1>1 DEF ResumeTask, Unlocked
<1>3. TypeOK /\ TreeShape /\ tasks[t] \in AgentTask /\ pass = NoPass
    BY <1>2, ServedTypes DEF TypeOK, Exists, Served, Serving
<1>4. event \in TaskEvent
    BY <1>3, EventType DEF EventKinds, OtherEvents
<1>5. /\ tasks[t].state = "Paused" /\ Reduce(tasks[t], event).task.state = "Queued"
      /\ Reduce(tasks[t], event).task.attempt = tasks[t].attempt
  <2> DEFINE x == [tasks[t] EXCEPT !.pauseRequest = FALSE]
             r == Reduce(tasks[t], event)
  <2>1. r = IF tasks[t].state = "Paused" THEN TransitionTo(x, "Queued", NoRequest)
            ELSE Rejected(tasks[t])
    BY DEF Reduce, Event, PlainEvents, WaitEvents, ReduceOther
  <2>2. x \in AgentTask /\ x.attempt = tasks[t].attempt /\ "Queued" \in TaskStates
    BY <1>3 DEF AgentTask, TaskStates, LiveStates
  <2>3. r.ok
    BY <1>2 DEF Applied
  <2> HIDE DEF x, r
  <2>4. tasks[t].state = "Paused" /\ r = TransitionTo(x, "Queued", NoRequest)
    BY <2>1, <2>3 DEF Rejected
  <2>5. r.task.state = "Queued" /\ r.task.attempt = x.attempt
    BY <2>2, <2>3, <2>4, TransitionFacts
  <2> QED BY <2>2, <2>4, <2>5 DEF r
<1> HIDE DEF event
<1>6. /\ tasks'[t].state = "Queued" /\ tasks'[t].attempt = tasks[t].attempt
      /\ \A d \in Task \ {t} : tasks'[d] = tasks[d]
  <2>1. /\ tasks'[t] = Reduce(tasks[t], event).task
        /\ ~IsSettled(tasks'[t]) => \A d \in Task \ {t} : tasks'[d] = tasks[d]
    BY <1>2, <1>3, <1>4, AppliedCascades
  <2> QED BY <1>5, <2>1, StateFacts DEF IsSettled
<1>7. h \in Half /\ h.task = t /\ h.op = "resume" /\ ~Reopening(h)
    BY <1>3 DEF Half, AgentTask, Reopening
<1>8. Harmless
    BY <1>1, <1>3, ReopenHarmless
<1>9. ~IsTerminal(tasks[t])
    BY <1>5, StateFacts DEF IsTerminal
<1> HIDE DEF h
<1> QED BY <1>1, <1>2, <1>3, <1>6, <1>7, <1>8, <1>9, ReleasedHeld

\* A successor attempt is opened in memory.
LEMMA ReopenHeld ==
    ASSUME Served, NEW t \in Task, Reopen(t)
    PROVE  Held
<1> DEFINE event == Event("RetryRequested", tasks[t])
<1>1. /\ RetryTask(t)
      /\ UNCHANGED <<power, crashes, store, draining, resident, gate, batch, astray>>
    BY DEF Reopen, Alone, store
<1>2. PICK op \in {"retry", "recover"} :
         half' = half \cup {[op |-> op, task |-> t, attempt |-> tasks[t].attempt + 1]}
    BY DEF Reopen
<1> DEFINE h == [op |-> op, task |-> t, attempt |-> tasks[t].attempt + 1]
<1>3. /\ Exists(t) /\ IsTerminal(tasks[t]) /\ tasks' = Applied(t, event).tasks
      /\ worker' = Drop(worker, {t}) /\ pass' = pass /\ ~pass.active
    BY <1>1 DEF RetryTask, Unlocked
<1>4. TypeOK /\ TreeShape /\ tasks[t] \in AgentTask /\ pass = NoPass
    BY <1>3, ServedTypes DEF TypeOK, Exists, Served, Serving
<1>5. event \in TaskEvent
    BY <1>4, EventType DEF EventKinds, OtherEvents
<1>6. /\ Reduce(tasks[t], event).task.state = "Queued"
      /\ Reduce(tasks[t], event).task.attempt = tasks[t].attempt + 1
  <2>1. Reduce(tasks[t], event).task = StartNextAttempt(tasks[t])
    BY <1>3 DEF Reduce, Event, PlainEvents, WaitEvents, ReduceOther, Accepted
  <2> QED BY <1>4, <2>1, StartNextAttemptFacts
<1> HIDE DEF event
<1>7. /\ tasks'[t].state = "Queued" /\ tasks'[t].attempt = tasks[t].attempt + 1
      /\ \A d \in Task \ {t} : tasks'[d] = tasks[d]
  <2>1. /\ tasks'[t] = Reduce(tasks[t], event).task
        /\ ~IsSettled(tasks'[t]) => \A d \in Task \ {t} : tasks'[d] = tasks[d]
    BY <1>3, <1>4, <1>5, AppliedCascades
  <2> QED BY <1>6, <2>1, StateFacts DEF IsSettled
<1>8. /\ h \in Half /\ h.task = t /\ h.op \in {"retry", "recover"} /\ Reopening(h)
      /\ h.attempt = tasks[t].attempt + 1
    BY <1>4 DEF Half, AgentTask, Reopening
<1>9. Harmless
    BY <1>1, <1>4, ReopenHarmless
<1>10. half' = half \cup {h}
    BY <1>2
<1> HIDE DEF h
<1> QED BY <1>1, <1>3, <1>4, <1>7, <1>8, <1>9, <1>10, ReleasedHeld

\* A child is spawned in memory.
LEMMA SpawnChildHeld ==
    ASSUME Served, NEW p \in Task, NEW c \in Task, SpawnChild(p, c)
    PROVE  Held
<1> DEFINE h == [op |-> "spawn", task |-> c, attempt |-> 1]
<1>1. /\ HasRow(p) /\ ~HasRow(c) /\ Spawn(p, c) /\ half' = half \cup {h}
      /\ UNCHANGED <<power, crashes, store, draining, resident, gate, batch, astray>>
    BY DEF SpawnChild, Alone, store
<1>2. /\ TypeOK /\ TreeShape /\ RowsTyped /\ MemoryTyped /\ RowTree
      /\ ~Exists(c) /\ Absent(c) /\ pass = NoPass
    BY <1>1, ServedTypes DEF Spawn, Unlocked, Served, Serving
<1>3. /\ c # Root /\ c # p /\ ~HasWorker(c)
      /\ \A d \in Task \ {c} : tasks'[d] = tasks[d] /\ parent'[d] = parent[d]
      /\ tasks'[c] = NewTask /\ parent'[c] = p
      /\ UNCHANGED <<worker, report, pass, strays>>
    BY <1>1, <1>2, FreshFacts
<1>4. TypeOK' /\ TreeShape'
    BY <1>1, <1>2, SpawnKeepsType, SpawnKeepsTree
<1>5. h \in Half /\ h.op = "spawn" /\ h.task = c /\ h.attempt = 1
    BY DEF Half
<1> HIDE DEF h
<1>6. /\ HalvesOf(c)' = HalvesOf(c) \cup {h}
      /\ \A d \in Task \ {c} : HalvesOf(d)' = HalvesOf(d)
      /\ \A d \in Task : WritesOf(d)' = WritesOf(d) /\ SameRow(d)
    BY <1>1, <1>5 DEF HalvesOf, WritesOf, SameRow, store
<1>7. ASSUME NEW d \in Task \ {c} PROVE Fine(d)
  <2>1. Idle(d)
    BY <1>1, <1>3, <1>6 DEF Idle, Carried, HasWorker
  <2> QED BY <2>1, IdleFine
<1>8. Kept(c)'
  <2>1. tasks'[c].state = "Queued" /\ tasks'[c].attempt = 1
    BY <1>3 DEF NewTask
  <2>2. HalvesOf(c)' = {h} /\ WritesOf(c)' = {} /\ ~HasWorker(c)' /\ ~HasRow(c)' /\ pass' = NoPass
    BY <1>1, <1>2, <1>3, <1>6 DEF Absent, HasWorker, HasRow, store
  <2>3. ~Reopening(h) /\ Writing(c)' /\ ~Unopened(c)'
    BY <1>5, <2>2 DEF Reopening, Writing, Unopened
  <2>4. InMemory(c)' /\ Collects(c)' /\ Housed(c)' /\ Leased(c)' /\ Recorded(c)'
    BY <2>1, <2>2, <2>3, StateFacts DEF InMemory, Collects, Housed, Leased, Recorded, NoPass
  <2>5. Attempts(c)'
    BY <1>5, <2>2, <2>3 DEF Attempts
  <2> QED BY <2>2, <2>4, <2>5 DEF Kept
<1>9. Sheltered(c)' /\ Durable(c)
    BY <1>1, <1>6 DEF Sheltered, Durable, SameRow, HasRow
<1>10. RuntimeTypeOK'
    BY <1>1, <1>2, <1>4, <1>5 DEF RuntimeTypeOK, RowsTyped, MemoryTyped, store, Served, RuntimeInv
<1>11. RowTree'
    BY <1>1, <1>2, RowTreeStays DEF store, HasRow
<1>12. Exists(c)' /\ \A d \in Task \ {c} : Exists(d)' <=> Exists(d)
    BY <1>3, NewTaskFacts DEF Exists
<1>13. \A g \in half' : Exists(g.task)'
    BY <1>1, <1>2, <1>5, <1>12, ServedTypes
<1>14. ASSUME NEW g \in half', g.op = "spawn" PROVE g.task # Root /\ HasRow(parent[g.task])'
  <2>1. row' = row
    BY <1>1 DEF store
  <2>2. CASE g = h
    BY <1>1, <1>3, <1>5, <2>1, <2>2 DEF HasRow
  <2>3. CASE g # h
    <3>1. g \in half /\ g.task # Root /\ HasRow(parent[g.task]) /\ g.task # c /\ g.task \in Task
        BY <1>1, <1>2, <1>14, <2>3, ServedTypes DEF Served, Serving
    <3> QED BY <1>3, <2>1, <3>1 DEF HasRow
  <2> QED BY <2>2, <2>3
<1>15. Serving'
  <2>1. \A d \in Task : IF Exists(d)' THEN Kept(d)' ELSE Absent(d)'
    BY <1>7, <1>8, <1>12 DEF Fine
  <2>2. /\ ~pass'.active => pass' = NoPass
        /\ pass'.active => batch' = {}
    BY <1>2, <1>3 DEF NoPass
  <2> QED BY <1>4, <1>13, <1>14, <2>1, <2>2 DEF Serving
<1>16. Up' /\ \A d \in Task : Sheltered(d)' /\ Durable(d)
    BY <1>1, <1>7, <1>9 DEF Served, Up, Fine
<1> QED BY <1>10, <1>11, <1>15, <1>16 DEF Held, RuntimeInv

-----------------------------------------------------------------------------
(* The application root.                                                   *)

\* A root that leaves its pause runs again, by itself.
LEMMA RootRunsHarmless ==
    ASSUME TypeOK, TreeShape, tasks[Root].state = "Paused",
           tasks' = [tasks EXCEPT ![Root].state = "Running", ![Root].pauseRequest = FALSE],
           UNCHANGED <<parent, depth, worker, report, pass, strays>>
    PROVE  /\ Harmless /\ tasks'[Root].state = "Running"
           /\ tasks'[Root].attempt = tasks[Root].attempt
           /\ \A d \in Task \ {Root} : tasks'[d] = tasks[d]
<1> DEFINE new == [[tasks[Root] EXCEPT !.state = "Running"] EXCEPT !.pauseRequest = FALSE]
<1>1. tasks[Root] \in AgentTask /\ Root \in Task
    BY TaskAssumption DEF TypeOK, TreeShape, Exists
<1>2. /\ new \in AgentTask /\ new.state = "Running" /\ new.attempt = tasks[Root].attempt
      /\ new.ended = tasks[Root].ended /\ new.delivered = tasks[Root].delivered
    BY <1>1 DEF AgentTask, TaskStates, LiveStates
<1>3. tasks' = [tasks EXCEPT ![Root] = new]
    BY <1>1 DEF TypeOK
<1> HIDE DEF new
<1>4. tasks'[Root] = new /\ \A d \in Task \ {Root} : tasks'[d] = tasks[d]
    BY <1>1, <1>3 DEF TypeOK
<1>5. tasks' \in TaskFunction
    BY <1>1, <1>2, <1>3 DEF TypeOK, TaskFunction
<1>6. EvolvesTo(tasks[Root], new)
    BY <1>2, StateFacts DEF EvolvesTo, IsTerminal, Sound
<1>7. Evolution(tasks')
  <2>1. ASSUME NEW d \in Task
        PROVE  /\ Exists(d) <=> tasks'[d] # NoTask
               /\ Exists(d) => EvolvesTo(tasks[d], tasks'[d])
               /\ ~(Exists(d) /\ ~IsSettled(tasks[d]) /\ IsSettled(tasks'[d]))
    <3>1. CASE d = Root
        BY <1>1, <1>2, <1>4, <1>6, <3>1, NoTaskAssumption, StateFacts
        DEF TreeShape, Exists, IsSettled
    <3>2. CASE d # Root
        BY <1>4, <3>2, NoEvolution DEF Evolution
    <3> QED BY <3>1, <3>2
  <2> QED BY <1>5, <2>1 DEF Evolution
<1>8. worker' \in HandleFunction /\ \A t \in Task : worker'[t] # NoWorker => Exists(t)
    BY DEF TypeOK, HandleFunction, TreeShape, HasWorker
<1>9. Harmless
    BY <1>7, <1>8, HarmlessFromParts
<1> QED BY <1>2, <1>4, <1>9

\* The row of the root says first that its turns begin.
LEMMA ActivateRowHeld ==
    ASSUME Served, ActivateRow
    PROVE  Held
<1>1. /\ Exists(Root) /\ Matches(Root, tasks[Root].attempt) /\ row[Root].state = "Queued"
      /\ Set({Root}, "Running") /\ half' = half \cup {Activating}
      /\ UNCHANGED <<vars, power, crashes, attachment, draining, resident, gate, batch, astray>>
    BY DEF ActivateRow, Alone
<1>2. /\ Root \in Task /\ Kept(Root) /\ RowsTyped /\ MemoryTyped /\ RowTree
      /\ HasRow(Root) /\ row[Root].attempt = tasks[Root].attempt
    BY <1>1, ServedTypes, TaskAssumption DEF Matches
<1>3. "Running" \in RowStates
    BY DEF RowStates, TaskStates, LiveStates
<1>4. /\ row' \in [Task -> Row \cup {NoRow}] /\ leaseRow' \in [Task -> SUBSET LeaseKind]
      /\ \A d \in Task : (HasRow(d)' <=> HasRow(d))
      /\ \A d \in Task \ {Root} : SameRow(d)
      /\ RowSet(Root, "Running")
    BY <1>1, <1>2, <1>3, SetFacts
<1>5. Activating \in Half /\ Activating.task = Root /\ Activating.op = "activate"
    BY <1>2 DEF Activating, Half
<1>6. /\ HalvesOf(Root)' = HalvesOf(Root) \cup {Activating}
      /\ \A d \in Task \ {Root} : HalvesOf(d)' = HalvesOf(d)
      /\ \A d \in Task : WritesOf(d)' = WritesOf(d)
    BY <1>1, <1>5 DEF HalvesOf, WritesOf
<1>7. tasks' = tasks /\ pass' = pass /\ parent' = parent /\ (HasWorker(Root)' <=> HasWorker(Root))
    BY <1>1 DEF vars, HasWorker
<1>8. Housed(Root)' /\ Leased(Root)' /\ Sheltered(Root)'
    BY DEF Housed, Leased, Sheltered
<1>9. OnlyAbout(Root)
    BY <1>1, <1>4, <1>6 DEF OnlyAbout
<1>10. InMemory(Root)'
    BY <1>2, <1>4, <1>7 DEF Kept, InMemory, IsTerminal
<1>11. ~Unopened(Root) /\ ~Reopening(Activating)
    BY <1>2, <1>5 DEF Kept, Attempts, Reopening
<1>12. ~Unopened(Root)'
    BY <1>6, <1>7, <1>11 DEF Unopened, Reopening
<1>13. Attempts(Root)'
    BY <1>2, <1>4, <1>5, <1>6, <1>7, <1>11, <1>12 DEF Kept, Attempts, RowSet
<1>14. Collects(Root)'
    BY <1>2, <1>6, <1>7 DEF Kept, Collects
<1>15. Recorded(Root)'
  <2>1. Writing(Root)'
    BY <1>6 DEF Writing
  <2>2. row'[Root].attempt = tasks'[Root].attempt /\ ~Settles(row'[Root].state)
    BY <1>2, <1>4, <1>7, StateFacts DEF RowSet
  <2> QED BY <2>1, <2>2 DEF Recorded
<1>16. Kept(Root)'
    BY <1>2, <1>4, <1>7, <1>8, <1>10, <1>13, <1>14, <1>15 DEF Kept, RowSet
<1>17. Durable(Root)
    BY <1>1, StateFacts DEF Durable
<1>18. RowsTyped' /\ MemoryTyped'
    BY <1>1, <1>2, <1>4, <1>5 DEF RowsTyped, MemoryTyped
<1>19. RowTree'
    BY <1>2, <1>4, RowTreeStays DEF SameRow, RowSet
<1>20. batch' \subseteq batch /\ \A h \in half' : h \in half \/ (Exists(h.task) /\ h.op # "spawn")
    BY <1>1, <1>5
<1> QED BY <1>1, <1>2, <1>4, <1>8, <1>9, <1>16, <1>17, <1>18, <1>19, <1>20, RewriteHeld DEF RowSet

\* The root runs, or stays where it was.
LEMMA RootMoves ==
    ASSUME Served, ActivateRoot
    PROVE  /\ Harmless /\ pass = NoPass /\ pass' = pass
           /\ \/ tasks'[Root].state = "Running" /\ ~IsTerminal(tasks[Root])
              \/ tasks'[Root].state = tasks[Root].state
           /\ tasks'[Root].attempt = tasks[Root].attempt
           /\ \A d \in Task \ {Root} : tasks'[d] = tasks[d]
           /\ \A d \in Task : HasWorker(d)' => HasWorker(d)
<1>1. /\ Exists(Root) /\ pass = NoPass /\ Root \in Task
      /\ TypeOK /\ TreeShape /\ tasks[Root] \in AgentTask
    BY ServedTypes, TaskAssumption DEF ActivateRoot, Unlocked, Served, Serving, TypeOK, Exists
<1>2. CASE UNCHANGED vars
  <2>1. Harmless
    BY <1>1, <1>2, StutterHarmless
  <2> QED BY <1>1, <1>2, <2>1 DEF vars, HasWorker
<1>3. CASE tasks[Root].state = "Queued" /\ StartForegroundRoot
  <2> DEFINE event == Event("AdmissionGranted", tasks[Root])
  <2>1. /\ tasks' = Applied(Root, event).tasks /\ Applied(Root, event).ok /\ pass' = pass
        /\ worker' = CancelWorkers(Applied(Root, event).victims)
    BY <1>3 DEF StartForegroundRoot, Transition
  <2>2. /\ event \in TaskEvent
        /\ Reduce(tasks[Root], event).task.attempt = tasks[Root].attempt
        /\ Reduce(tasks[Root], event).ok => Reduce(tasks[Root], event).task.state = "Running"
    <3>1. "AdmissionGranted" \in PlainEvents /\ Target("AdmissionGranted") = "Running"
        BY DEF PlainEvents, Target
    <3> QED BY <1>1, <3>1, PlainFacts
  <2> HIDE DEF event
  <2>3. /\ tasks'[Root] = Reduce(tasks[Root], event).task
        /\ Applied(Root, event).ok = Reduce(tasks[Root], event).ok
        /\ ~IsSettled(tasks'[Root]) => \A d \in Task \ {Root} : tasks'[d] = tasks[d]
    BY <1>1, <2>1, <2>2, AppliedCascades
  <2>4. \A d \in Task : HasWorker(d)' => HasWorker(d)
    BY <1>1, <2>1, CancelWorkersFacts DEF HasWorker
  <2>5. Harmless
    BY <1>1, <1>3, ForegroundHarmless
  <2> QED BY <1>1, <1>3, <2>1, <2>2, <2>3, <2>4, <2>5, StateFacts DEF IsSettled, IsTerminal
<1>4. CASE /\ tasks[Root].state = "Paused"
           /\ tasks' = [tasks EXCEPT ![Root].state = "Running", ![Root].pauseRequest = FALSE]
           /\ UNCHANGED <<parent, depth, worker, report, pass, strays>>
  <2>1. /\ Harmless /\ tasks'[Root].state = "Running"
        /\ tasks'[Root].attempt = tasks[Root].attempt
        /\ \A d \in Task \ {Root} : tasks'[d] = tasks[d]
    BY <1>1, <1>4, RootRunsHarmless
  <2> QED BY <1>1, <1>4, <2>1, StateFacts DEF HasWorker, IsTerminal
<1> QED BY <1>2, <1>3, <1>4 DEF ActivateRoot

\* The row of the root is as it was, or it was not settled and says "running".
LEMMA RootWritten ==
    ASSUME Served, ActivateRoot
    PROVE  /\ RowsTyped' /\ \A d \in Task : (HasRow(d)' <=> HasRow(d))
           /\ \A d \in Task \ {Root} : SameRow(d)
           /\ \/ SameRow(Root) \/ (RowSet(Root, "Running") /\ ~Settles(row[Root].state))
           /\ half' \subseteq half /\ HalvesOf(Root)' \subseteq HalvesOf(Root)
           /\ \A d \in Task \ {Root} : HalvesOf(d)' = HalvesOf(d)
           /\ \A d \in Task : WritesOf(d)' = WritesOf(d)
<1>1. /\ Activated /\ UNCHANGED <<attachment, batch>> /\ RowsTyped /\ Root \in Task
    BY ServedTypes, TaskAssumption DEF ActivateRoot, Alone
<1>2. \A d \in Task : WritesOf(d)' = WritesOf(d)
    BY <1>1 DEF WritesOf
<1>3. CASE half' = half \ {Activating} /\ UNCHANGED <<row, leaseRow>>
  <2>1. RowsTyped' /\ \A d \in Task : SameRow(d) /\ (HasRow(d)' <=> HasRow(d))
    BY <1>1, <1>3 DEF RowsTyped, SameRow, HasRow
  <2>2. /\ HalvesOf(Root)' \subseteq HalvesOf(Root)
        /\ \A d \in Task \ {Root} : HalvesOf(d)' = HalvesOf(d)
    BY <1>3 DEF HalvesOf, Activating
  <2> QED BY <1>1, <1>2, <1>3, <2>1, <2>2
<1>4. CASE /\ HasRow(Root) /\ row[Root].state \in {"Paused", "Running"}
           /\ Set({Root}, "Running") /\ half' = half
  <2>1. "Running" \in RowStates
    BY DEF RowStates, TaskStates, LiveStates
  <2>2. /\ row' \in [Task -> Row \cup {NoRow}] /\ leaseRow' \in [Task -> SUBSET LeaseKind]
        /\ \A d \in Task : (HasRow(d)' <=> HasRow(d))
        /\ \A d \in Task \ {Root} : SameRow(d)
        /\ RowSet(Root, "Running")
    BY <1>1, <1>4, <2>1, SetFacts
  <2>3. RowsTyped' /\ ~Settles(row[Root].state)
    BY <1>1, <1>4, <2>2, StateFacts DEF RowsTyped
  <2>4. \A d \in Task : HalvesOf(d)' = HalvesOf(d)
    BY <1>4 DEF HalvesOf
  <2> QED BY <1>1, <1>2, <1>4, <2>2, <2>3, <2>4
<1> QED BY <1>1, <1>3, <1>4 DEF Activated, Matches

\* The root's turns begin, or it has ended meanwhile.
LEMMA ActivateRootHeld ==
    ASSUME Served, ActivateRoot
    PROVE  Held
<1>1. /\ Exists(Root)
      /\ astray' = IF Matches(Root, tasks[Root].attempt) /\ row'[Root].state = tasks'[Root].state
                   THEN astray \ {Root} ELSE astray \cup {Root}
      /\ UNCHANGED <<power, crashes, attachment, draining, resident, gate, batch>>
    BY DEF ActivateRoot, Alone
<1>2. /\ Root \in Task /\ Kept(Root) /\ MemoryTyped
    BY <1>1, ServedTypes, TaskAssumption
<1>3. /\ Harmless /\ pass = NoPass /\ pass' = pass
      /\ \/ tasks'[Root].state = "Running" /\ ~IsTerminal(tasks[Root])
         \/ tasks'[Root].state = tasks[Root].state
      /\ tasks'[Root].attempt = tasks[Root].attempt
      /\ \A d \in Task \ {Root} : tasks'[d] = tasks[d]
      /\ \A d \in Task : HasWorker(d)' => HasWorker(d)
    BY RootMoves
<1>4. /\ RowsTyped' /\ (HasRow(Root)' <=> HasRow(Root))
      /\ \A d \in Task \ {Root} : SameRow(d)
      /\ \/ SameRow(Root) \/ (RowSet(Root, "Running") /\ ~Settles(row[Root].state))
      /\ half' \subseteq half /\ HalvesOf(Root)' \subseteq HalvesOf(Root)
      /\ \A d \in Task \ {Root} : HalvesOf(d)' = HalvesOf(d)
      /\ \A d \in Task : WritesOf(d)' = WritesOf(d)
    BY <1>2, RootWritten
<1>5. /\ HasRow(Root) => row'[Root].parent = row[Root].parent
      /\ HasRow(Root) => row'[Root].attempt = row[Root].attempt
      /\ parent' = parent
    BY <1>3, <1>4 DEF SameRow, RowSet, Harmless
<1>6. Housed(Root)' /\ Leased(Root)' /\ Sheltered(Root)'
    BY DEF Housed, Leased, Sheltered
<1>7. InMemory(Root)'
    BY <1>2, <1>3, <1>4, StateFacts DEF Kept, InMemory, IsTerminal, NoPass
<1>8. Unopened(Root)' => Unopened(Root)
    BY <1>3, <1>4 DEF Unopened
<1>9. Attempts(Root)'
  <2>1. HasRow(Root)' => row'[Root].attempt <= tasks'[Root].attempt
    BY <1>2, <1>3, <1>4, <1>5 DEF Kept, Attempts
  <2>2. Unopened(Root)' => /\ HasRow(Root)' => row'[Root].attempt # tasks'[Root].attempt
                           /\ ~HasWorker(Root)'
    BY <1>2, <1>3, <1>4, <1>5, <1>8 DEF Kept, Attempts
  <2>4. Unopened(Root)' => Root \in astray'
    BY <1>1, <1>2, <1>8 DEF Kept, Attempts, Matches
  <2>3. \A h \in HalvesOf(Root)' :
            /\ h.op = "spawn" => h.attempt = 1 /\ ~HasRow(Root)'
            /\ Reopening(h) => h.attempt \in 2 .. tasks'[Root].attempt
            /\ \A g \in HalvesOf(Root)' :
                  Reopening(g) /\ Reopening(h) /\ g.attempt = h.attempt => g = h
    BY <1>2, <1>3, <1>4 DEF Kept, Attempts
  <2> QED BY <2>1, <2>2, <2>3, <2>4 DEF Attempts
<1>10. Collects(Root)'
    BY <1>2, <1>3, <1>4, OpenFacts DEF Kept, Collects
<1>11. Recorded(Root)'
  <2>1. CASE Root \in astray'
    BY <2>1 DEF Recorded
  <2>2. CASE Root \notin astray'
    <3>1. Matches(Root, tasks[Root].attempt) /\ row'[Root].state = tasks'[Root].state
        BY <1>1, <2>2
    <3>2. Agrees(Root)'
        BY <1>3, <1>4, <1>5, <3>1 DEF Agrees, Matches
    <3> QED BY <1>2, <1>10, <3>2, AgreesRecords
  <2> QED BY <2>1, <2>2
<1>12. Kept(Root)'
    BY <1>2, <1>4, <1>5, <1>6, <1>7, <1>9, <1>10, <1>11 DEF Kept
<1>13. Durable(Root)
    BY <1>4 DEF Durable, SameRow
<1>14. MemoryTyped'
    BY <1>1, <1>2, <1>4 DEF MemoryTyped
<1>15. OnlyAbout(Root)
    BY <1>1, <1>4 DEF OnlyAbout
<1>16. \A h \in half' : h \in half
    BY <1>4
<1> QED BY <1>1, <1>2, <1>3, <1>4, <1>5, <1>6, <1>12, <1>13, <1>14, <1>15, <1>16, MoveHeld

\* A root that is there is attached again.
LEMMA AttachKnownHeld ==
    ASSUME Served, AttachRoot
    PROVE  Held
<1>1. /\ UNCHANGED <<vars, power, crashes, row, leaseRow, memory, astray>>
      /\ attachment' = "attached"
    BY DEF AttachRoot, Served, Serving, TreeShape
<1>2. \A d \in Task : Idle(d)
    BY <1>1 DEF Idle, Carried, SameRow, HalvesOf, WritesOf, memory, vars, HasWorker
<1>3. \A d \in Task : Fine(d)
    BY <1>2, IdleFine
<1>4. RowsTyped' /\ MemoryTyped'
    BY <1>1, ServedTypes DEF RowsTyped, MemoryTyped, memory
<1>5. RowTree'
    BY <1>1, ServedTypes, RowTreeStays DEF HasRow
<1>6. Harmless
    BY <1>1, ServedTypes, StutterHarmless
<1>7. /\ ~pass'.active => pass' = NoPass
      /\ pass'.active => batch' = {}
      /\ half' = half
    BY <1>1 DEF Served, Serving, vars, memory
<1> QED BY <1>1, <1>3, <1>4, <1>5, <1>6, <1>7, Assembled

-----------------------------------------------------------------------------
(* The end of a drain.                                                     *)

\* The workers of S are interrupted and their handles dropped; nobody else moves.
LEMMA InterruptFacts ==
    ASSUME TypeOK, TreeShape, NEW S \in SUBSET {t \in Task : HasWorker(t)}, NEW f,
           \A d \in S : Interrupted(d).ok,
           Interrupt(S, f)
    PROVE  /\ UNCHANGED <<parent, pass>>
           /\ \A d \in Task : HasWorker(d)' => HasWorker(d) /\ d \notin S
           /\ \A d \in S : /\ ~IsTerminal(tasks[d]) /\ tasks'[d].state = "RecoveryRequired"
                           /\ tasks'[d].attempt = tasks[d].attempt
           /\ \A d \in Task \ S : tasks'[d] = tasks[d]
<1> DEFINE ts == [d \in Task |-> IF d \in S THEN Interrupted(d).task ELSE tasks[d]]
           vs == UNION {Victims(ts, d) : d \in S}
           w  == CancelWorkers(S \cup f \cup vs)
<1>1. ASSUME NEW d \in S
      PROVE  /\ ~IsTerminal(tasks[d]) /\ Interrupted(d).task.state = "RecoveryRequired"
             /\ Interrupted(d).task.attempt = tasks[d].attempt
  <2>1. tasks[d] \in AgentTask
    BY <1>1 DEF TypeOK, TreeShape, Exists
  <2>2. "RuntimeInterrupted" \in PlainEvents /\ Target("RuntimeInterrupted") = "RecoveryRequired"
    BY DEF PlainEvents, Target
  <2> QED BY <1>1, <2>1, <2>2, PlainFacts DEF Interrupted
<1>2. \A d \in Task : IF d \in S THEN ts[d] = Interrupted(d).task ELSE ts[d] = tasks[d]
    OBVIOUS
<1>3. /\ tasks' = CancelAll(ts, vs) /\ worker' = Drop(w, S)
      /\ parent' = parent /\ pass' = pass
    BY DEF Interrupt
<1>4. ts = [d \in Task |-> ts[d]]
    OBVIOUS
<1> HIDE DEF ts
<1>5. vs = {}
    BY <1>1, <1>2 DEF Victims, IsSettled, SettledStates
<1>6. \A d \in Task : tasks'[d] = ts[d]
    BY <1>3, <1>4, <1>5 DEF CancelAll
<1>7. \A d \in Task : w[d] # NoWorker <=> HasWorker(d)
    BY CancelWorkersFacts
<1> HIDE DEF w
<1>8. ASSUME NEW d \in Task, HasWorker(d)' PROVE HasWorker(d) /\ d \notin S
    BY <1>3, <1>7, <1>8 DEF Drop, HasWorker
<1> QED BY <1>1, <1>2, <1>3, <1>6, <1>8

\* What an interrupted worker leaves can be recovered: the row says so, and the
\* workspace stays leased, unless the row is left to an astray task.
LEMMA InterruptKeeps ==
    ASSUME Served, NEW d \in Task, Exists(d), HasWorker(d), ~HasWorker(d)', pass = NoPass,
           pass' = pass, ~IsTerminal(tasks[d]), tasks'[d].state = "RecoveryRequired",
           tasks'[d].attempt = tasks[d].attempt, parent'[d] = parent[d],
           WritesOf(d)' = WritesOf(d), HalvesOf(d)' = HalvesOf(d),
           \/ SameRow(d) /\ d \in astray'
           \/ /\ RowSet(d, "RecoveryRequired") /\ row'[d].context = row[d].context
              /\ Matches(d, tasks[d].attempt)
              /\ leaseRow'[d] = leaseRow[d] /\ d \notin resident'
              /\ d \in astray => d \in astray'
    PROVE  Fine(d)
<1>1. Kept(d) /\ Sheltered(d)
    BY ServedTypes
<1>2. tasks[d].state = "Running" /\ HasRow(d) /\ ~Unopened(d)
    BY <1>1 DEF Kept, InMemory, Attempts, IsTerminal
<1>3. InMemory(d)' /\ Housed(d)'
    BY StateFacts DEF InMemory, Housed, NoPass
<1>4. ~Unopened(d)'
    BY <1>2 DEF Unopened
<1>5. Attempts(d)'
    BY <1>1, <1>2, <1>4, OpenFacts DEF Kept, Attempts, RowSet, SameRow, HasRow
<1>6. Collects(d)'
    BY <1>1, OpenFacts DEF Kept, Collects
<1>7. Recorded(d)'
  <2>1. CASE d \in astray'
    BY <2>1 DEF Recorded
  <2>2. CASE d \notin astray'
    <3>1. Agrees(d)'
        BY <2>2 DEF Agrees, Matches, RowSet
    <3> QED BY <1>6, <3>1, AgreesRecords
  <2> QED BY <2>1, <2>2
<1>8. Leased(d)'
    BY StateFacts DEF Leased, IsSettled
<1>9. HasRow(d)' /\ row'[d].parent = row[d].parent /\ row'[d].parent = parent'[d]
    BY <1>1, <1>2 DEF Kept, RowSet, SameRow, HasRow
<1>10. Sheltered(d)'
  <2>1. CASE SameRow(d)
    BY <1>1, <2>1 DEF Sheltered, SameRow, HasRow
  <2>2. CASE RowSet(d, "RecoveryRequired") /\ Matches(d, tasks[d].attempt)
             /\ leaseRow'[d] = leaseRow[d]
    BY <1>1, <2>2 DEF Kept, Housed, Sheltered
  <2> QED BY <2>1, <2>2
<1>11. Durable(d)
  <2>1. CASE SameRow(d)
    BY <2>1 DEF Durable, SameRow
  <2>2. CASE Matches(d, tasks[d].attempt)
    BY <1>1, <2>2, OpenFacts DEF Durable
  <2> QED BY <2>1, <2>2
<1> QED BY <1>3, <1>5, <1>6, <1>7, <1>8, <1>9, <1>10, <1>11 DEF Fine, Kept

\* The workers that did not acknowledge the drain are interrupted.
LEMMA InterruptWorkersHeld ==
    ASSUME Served, InterruptWorkers
    PROVE  Held
<1> DEFINE handles == {t \in Task : HasWorker(t)}
           refused == {t \in handles : ~Interrupted(t).ok}
<1>1. /\ InterruptUnacknowledgedWorkers
      /\ UNCHANGED <<power, crashes, attachment, draining, gate, batch, half>>
    BY DEF InterruptWorkers, Alone
<1>2. PICK written \in (IF refused = {} THEN Writable(handles) ELSE {{}}) :
         /\ Set(written, "RecoveryRequired") /\ resident' = resident \ written
         /\ astray' = astray \cup (Changed \ written)
    BY DEF InterruptWorkers
<1>3. /\ TypeOK /\ TreeShape /\ RowsTyped /\ MemoryTyped /\ RowTree /\ pass = NoPass
      /\ \A d \in handles : Exists(d)
    BY <1>1, ServedTypes DEF InterruptUnacknowledgedWorkers, Unlocked, Served, Serving, TreeShape
<1>4. /\ written \subseteq handles /\ \A d \in written : Matches(d, tasks[d].attempt)
      /\ refused # {} => written = {}
    BY WritableFacts
<1>5. PICK S \in SUBSET handles, f \in SUBSET Task :
         /\ Interrupt(S, f) /\ (\A d \in S : Interrupted(d).ok)
         /\ refused = {} => S = handles
    BY <1>1 DEF InterruptUnacknowledgedWorkers
<1> HIDE DEF refused
<1>6. /\ UNCHANGED <<parent, pass>>
      /\ \A d \in Task : HasWorker(d)' => HasWorker(d) /\ d \notin S
      /\ \A d \in S : /\ ~IsTerminal(tasks[d]) /\ tasks'[d].state = "RecoveryRequired"
                      /\ tasks'[d].attempt = tasks[d].attempt
      /\ \A d \in Task \ S : tasks'[d] = tasks[d]
    BY <1>3, <1>5, InterruptFacts
<1>7. Harmless
    BY <1>3, <1>5, InterruptHarmless
<1>8. "RecoveryRequired" \in RowStates /\ ~Settles("RecoveryRequired")
    BY StateFacts DEF RowStates, TaskStates
<1>9. /\ row' \in [Task -> Row \cup {NoRow}] /\ leaseRow' \in [Task -> SUBSET LeaseKind]
      /\ \A d \in Task :
           /\ HasRow(d)' <=> HasRow(d)
           /\ d \notin written => SameRow(d)
           /\ d \in written => /\ RowSet(d, "RecoveryRequired")
                               /\ row'[d].context = row[d].context
                               /\ leaseRow'[d] = leaseRow[d]
    BY <1>2, <1>3, <1>4, <1>8, SetFacts DEF Matches
<1>10. \A d \in Task : HalvesOf(d)' = HalvesOf(d) /\ WritesOf(d)' = WritesOf(d)
    BY <1>1 DEF HalvesOf, WritesOf
<1>11. written \subseteq S
    BY <1>4, <1>5
<1>12. ASSUME NEW d \in Task PROVE Fine(d)
  <2>1. CASE d \notin S
    <3>1. d \notin written /\ d \notin Changed
        BY <1>6, <1>11, <2>1 DEF Changed
    <3>2. Carried(d)
        BY <1>2, <1>6, <1>10 DEF Carried
    <3>3. Idle(d)
        BY <1>2, <1>6, <1>9, <2>1, <3>1, <3>2 DEF Idle
    <3> QED BY <3>3, IdleFine
  <2>2. CASE d \in S
    <3>1. /\ Exists(d) /\ HasWorker(d) /\ ~HasWorker(d)' /\ d \in Changed
          /\ ~IsTerminal(tasks[d]) /\ tasks'[d].state = "RecoveryRequired"
          /\ tasks'[d].attempt = tasks[d].attempt
        BY <1>3, <1>5, <1>6, <2>2, StateFacts DEF Changed, IsTerminal
    <3>2. \/ SameRow(d) /\ d \in astray'
          \/ /\ RowSet(d, "RecoveryRequired") /\ row'[d].context = row[d].context
             /\ Matches(d, tasks[d].attempt)
             /\ leaseRow'[d] = leaseRow[d] /\ d \notin resident'
             /\ d \in astray => d \in astray'
        BY <1>2, <1>4, <1>9, <3>1
    <3> QED BY <1>3, <1>6, <1>10, <3>1, <3>2, InterruptKeeps
  <2> QED BY <2>1, <2>2
<1>13. RowsTyped' /\ MemoryTyped'
  <2>1. astray' \subseteq Task /\ resident' \subseteq Task
    BY <1>2, <1>3 DEF MemoryTyped, Changed
  <2> QED BY <1>1, <1>3, <1>9, <2>1 DEF RowsTyped, MemoryTyped
<1>14. RowTree'
    BY <1>3, <1>9, RowTreeStays DEF SameRow, RowSet
<1>15. /\ ~pass'.active => pass' = NoPass
       /\ pass'.active => batch' = {}
    BY <1>3, <1>6 DEF NoPass
<1> QED BY <1>1, <1>7, <1>12, <1>13, <1>14, <1>15, Assembled

-----------------------------------------------------------------------------
(* Death and boot.                                                         *)

\* The parts of the invariant that hold whether or not a session is served.
LEMMA InvParts ==
    ASSUME RuntimeInv
    PROVE  /\ TypeOK /\ RowsTyped /\ MemoryTyped /\ RowTree /\ crashes \in 0 .. MaxCrashes
           /\ \A d \in Task : Sheltered(d)
BY DEF RuntimeInv, RuntimeTypeOK, RowsTyped, MemoryTyped

\* The process is gone, and memory with it.
LEMMA LostInv ==
    ASSUME RuntimeInv, NEW left \in SUBSET Task, MemoryLost(left),
           RowsTyped', RowTree', \A d \in Task : Sheltered(d)'
    PROVE  RuntimeInv'
<1>1. TypeOK'
    BY DEF MemoryLost, TypeOK, NoPass, Pass, MaxDepth
<1>2. crashes' \in 0 .. MaxCrashes
    BY InvParts, RuntimeBoundAssumption DEF MemoryLost, MayDie
<1>3. RuntimeTypeOK'
    BY <1>1, <1>2 DEF MemoryLost, RuntimeTypeOK, RowsTyped
<1>4. Blank'
    BY DEF MemoryLost, Blank, Exists, HasWorker
<1>5. ~Up' /\ Booting'
    BY <1>4 DEF MemoryLost, Booting, Up
<1> QED BY <1>3, <1>5 DEF RuntimeInv

\* The process dies between two steps.
LEMMA CrashHeld ==
    ASSUME RuntimeInv, Crash
    PROVE  Held
<1>1. MemoryLost({}) /\ UNCHANGED store
    BY DEF Crash
<1>2. RowsTyped' /\ \A d \in Task : Sheltered(d)' /\ Durable(d)
    BY <1>1, InvParts DEF RowsTyped, store, Sheltered, HasRow, Durable
<1>3. RowTree'
    BY <1>1, InvParts, RowTreeStays DEF store, HasRow
<1> QED BY <1>1, <1>2, <1>3, LostInv DEF Held

\* It dies when a recovery gate is attested, and the row not yet running.
LEMMA CrashAttestedHeld ==
    ASSUME Served, NEW h \in half, CrashAttested(h)
    PROVE  Held
<1> DEFINE t == h.task
<1>1. /\ gate[t] = "gated" /\ RowReady(t)
      /\ row' = [row EXCEPT ![t].state = "RecoveryAttested"]
      /\ MemoryLost({}) /\ leaseRow' = leaseRow /\ attachment' = attachment
    BY DEF CrashAttested
<1>2. t \in Task /\ RowsTyped /\ RowTree /\ RuntimeInv /\ \A d \in Task : Sheltered(d)
    BY ServedTypes DEF Served
<1>3. HasRow(t) /\ row[t].state = "RecoveryGated"
    BY <1>1 DEF RowReady, Matches
<1> HIDE DEF t
<1>4. /\ row' \in [Task -> Row \cup {NoRow}] /\ RowSet(t, "RecoveryAttested")
      /\ \A d \in Task \ {t} : row'[d] = row[d]
  <2>1. "RecoveryAttested" \in RowStates
    BY DEF RowStates
  <2> QED BY <1>1, <1>2, <1>3, <2>1, StateWritten
<1>5. RowTree'
    BY <1>2, <1>4, OneRowTree DEF RowSet
<1>6. \A d \in Task : Sheltered(d)'
    BY <1>1, <1>2, <1>4, StateFacts DEF Sheltered, RowSet, HasRow
<1>7. \A d \in Task : Durable(d)
    BY <1>3, <1>4, StateFacts DEF Durable
<1>8. RowsTyped'
    BY <1>1, <1>2, <1>4 DEF RowsTyped
<1> QED BY <1>1, <1>2, <1>5, <1>6, <1>7, <1>8, LostInv DEF Held

\* It dies when the root's row is paused, and its attachment not yet detached.
LEMMA CrashDetachingHeld ==
    ASSUME Served, NEW h \in half, CrashDetaching(h)
    PROVE  Held
<1> DEFINE left == IF Pausing(h) THEN {} ELSE {Root}
<1>1. /\ HasRow(Root) /\ row[Root].attempt = h.attempt
      /\ Set({Root}, "Paused") /\ MemoryLost(left) /\ attachment' = attachment
    BY DEF CrashDetaching, Matches
<1>2. /\ Root \in Task /\ RowsTyped /\ RowTree /\ RuntimeInv /\ left \in SUBSET Task
      /\ Kept(Root) /\ \A d \in Task : Sheltered(d)
    BY ServedTypes, TaskAssumption DEF Served, TreeShape
<1>3. astray' = left /\ (Pausing(h) \/ Root \in left)
    BY <1>1 DEF MemoryLost
<1>4. "Paused" \in RowStates
    BY DEF RowStates, TaskStates, LiveStates
<1> HIDE DEF left
<1>5. /\ row' \in [Task -> Row \cup {NoRow}] /\ leaseRow' \in [Task -> SUBSET LeaseKind]
      /\ \A d \in Task : (HasRow(d)' <=> HasRow(d))
      /\ \A d \in Task \ {Root} : SameRow(d)
      /\ RowSet(Root, "Paused")
    BY <1>1, <1>2, <1>4, SetFacts
<1>6. RowTree'
    BY <1>2, <1>5, RowTreeStays DEF SameRow, RowSet
<1>7. \A d \in Task : Sheltered(d)'
    BY <1>2, <1>5 DEF Sheltered, SameRow, HasRow
<1>8. Durable(Root)
    BY <1>1, <1>2, <1>3, StateFacts DEF Durable, Kept, Recorded, IsLive, Pausing
<1>9. \A d \in Task : Durable(d)
    BY <1>5, <1>8 DEF Durable, SameRow
<1>10. RowsTyped'
    BY <1>1, <1>2, <1>5 DEF RowsTyped
<1> QED BY <1>1, <1>2, <1>6, <1>7, <1>9, <1>10, LostInv DEF Held

\* A stage of the boot works on the rows alone.
LEMMA BootStage ==
    ASSUME RuntimeInv, ~Up, power' \in {"swept", "reclaimed", "refused"},
           UNCHANGED <<vars, crashes, attachment, memory, astray>>,
           RowsTyped', \A d \in Task : (HasRow(d)' <=> HasRow(d)),
           \A d \in Task : HasRow(d) => row'[d].parent = row[d].parent,
           \A d \in Task : Sheltered(d)' /\ Durable(d),
           power' \in {"swept", "reclaimed"} =>
               \A d \in Task : HasRow(d) => row'[d].state \notin InFlight
    PROVE  Held
<1>1. RuntimeTypeOK'
  <2>1. TypeOK'
    BY InvParts DEF TypeOK, vars
  <2> QED BY <2>1, InvParts DEF RuntimeTypeOK, RowsTyped, MemoryTyped, memory
<1>2. RowTree'
    BY InvParts, RowTreeStays
<1>3. Booting'
    BY DEF RuntimeInv, Booting, Blank, vars, memory, Exists, HasWorker
<1>4. ~Up'
    BY DEF Up
<1> QED BY <1>1, <1>2, <1>3, <1>4 DEF Held, RuntimeInv

\* What was in flight is to be recovered, and keeps its workspace.
LEMMA RecoverInflightHeld ==
    ASSUME RuntimeInv, RecoverInflight
    PROVE  Held
<1> DEFINE Swept(d) == [row[d] EXCEPT !.state = "RecoveryRequired"]
<1>1. /\ power' = "swept" /\ ~Up
      /\ row' = [t \in Task |-> IF HasRow(t) /\ row[t].state \in InFlight THEN Swept(t) ELSE row[t]]
      /\ leaseRow' = [t \in Task |-> leaseRow[t] \ {"resident"}]
      /\ UNCHANGED <<vars, crashes, attachment, memory, astray>>
    BY DEF RecoverInflight, Up
<1>2. RowsTyped /\ \A d \in Task : Sheltered(d)
    BY InvParts
<1>3. ASSUME NEW d \in Task, HasRow(d)
      PROVE  /\ Swept(d) \in Row /\ Swept(d) # NoRow /\ Swept(d).state = "RecoveryRequired"
             /\ Swept(d).parent = row[d].parent /\ Swept(d).context = row[d].context
    BY <1>2, <1>3, NoRowAssumption
    DEF RowsTyped, HasRow, Row, RowStates, TaskStates, TerminalStates
<1>4. ASSUME NEW d \in Task
      PROVE  /\ HasRow(d) /\ row[d].state \in InFlight => row'[d] = Swept(d)
             /\ ~(HasRow(d) /\ row[d].state \in InFlight) => row'[d] = row[d]
             /\ leaseRow'[d] = leaseRow[d] \ {"resident"}
    BY <1>1
<1>5. RowsTyped'
  <2>1. row' \in [Task -> Row \cup {NoRow}]
    BY <1>1, <1>2, <1>3 DEF RowsTyped
  <2>2. leaseRow' \in [Task -> SUBSET LeaseKind]
    BY <1>1, <1>2 DEF RowsTyped
  <2> QED BY <1>1, <1>2, <2>1, <2>2 DEF RowsTyped
<1> HIDE DEF Swept
<1>6. \A d \in Task : /\ HasRow(d)' <=> HasRow(d)
                      /\ HasRow(d) => row'[d].parent = row[d].parent
    BY <1>3, <1>4 DEF HasRow
<1>7. \A d \in Task : Sheltered(d)'
    BY <1>2, <1>3, <1>4 DEF Sheltered, HasRow
<1>8. \A d \in Task : Durable(d)
    BY <1>4, StateFacts DEF Durable
<1>9. \A d \in Task : HasRow(d) => row'[d].state \notin InFlight
    BY <1>3, <1>4, StateFacts
<1> QED BY <1>1, <1>5, <1>6, <1>7, <1>8, <1>9, BootStage

\* What nobody will resume is cancelled.
LEMMA ReclaimHeld ==
    ASSUME RuntimeInv, Reclaim
    PROVE  Held
<1>1. /\ power = "swept" /\ power' = "reclaimed" /\ ~Up /\ Set(Orphans, "Cancelled")
      /\ UNCHANGED <<vars, crashes, attachment, memory, astray>>
    BY DEF Reclaim, Up
<1>2. RowsTyped /\ \A d \in Task : Sheltered(d)
    BY InvParts
<1>3. "Cancelled" \in RowStates /\ "Cancelled" \in SettledStates
    BY DEF RowStates, TaskStates, TerminalStates, SettledStates
<1>4. /\ row' \in [Task -> Row \cup {NoRow}] /\ leaseRow' \in [Task -> SUBSET LeaseKind]
      /\ \A d \in Task :
           /\ HasRow(d)' <=> HasRow(d)
           /\ d \notin Orphans \/ ~HasRow(d) => SameRow(d)
           /\ d \in Orphans /\ HasRow(d) => RowSet(d, "Cancelled")
    BY <1>1, <1>2, <1>3, SetFacts
<1>5. \A d \in Orphans : ~Settles(row[d].state)
    BY DEF Orphans
<1>6. \A d \in Task : Sheltered(d)' /\ Durable(d)
    BY <1>2, <1>3, <1>4, <1>5, StateFacts DEF Sheltered, Durable, SameRow, RowSet, HasRow
<1>7. \A d \in Task : HasRow(d) => row'[d].state \notin InFlight
  <2>1. \A d \in Task : HasRow(d) => row[d].state \notin InFlight
    BY <1>1 DEF RuntimeInv, Booting
  <2> QED BY <1>3, <1>4, <2>1, StateFacts DEF SameRow, RowSet
<1>8. RowsTyped'
    BY <1>1, <1>2, <1>4 DEF RowsTyped
<1>9. \A d \in Task : HasRow(d) => row'[d].parent = row[d].parent
    BY <1>4 DEF SameRow, RowSet
<1> QED BY <1>1, <1>4, <1>6, <1>7, <1>8, <1>9, BootStage

-----------------------------------------------------------------------------
(* Memory is made from the rows.                                           *)

\* S is a part of the tree of the rows that hangs together.
Closed(S) ==
    /\ Root \in S
    /\ \A t \in S : HasRow(t) /\ (row[t].parent = NoTask \/ row[t].parent \in S)

\* The state s is what the row of t is read back as: one no worker is needed for.
ReadAs(t, s) ==
    /\ s \in TaskStates \ ({"Running"} \cup WaitingStates)
    /\ row[t].state = s \/ (row[t].state \in {"RecoveryGated", "RecoveryAttested"} /\ s = "Queued")
    /\ s \in SettledStates => leaseRow'[t] = {}

\* The tasks of S are read back, and there are no others.
ReadBack(S) ==
    /\ tasks' = [t \in Task |-> tasks'[t]]
    /\ \A t \in S : \E s \in TaskStates : tasks'[t] = FromRow(t, s) /\ ReadAs(t, s)
    /\ \A t \in Task \ S : tasks'[t] = NoTask

\* What is read back is a task, of the attempt of its row.
LEMMA FromRowFacts ==
    ASSUME RowsTyped, NEW t \in Task, HasRow(t), NEW s \in TaskStates
    PROVE  /\ FromRow(t, s) \in AgentTask /\ FromRow(t, s) # NoTask
           /\ FromRow(t, s).state = s /\ FromRow(t, s).attempt = row[t].attempt
<1> DEFINE e == s \in TerminalStates
           c == s = "Completed"
           x == [state |-> s, attempt |-> row[t].attempt, ended |-> e,
                 delivered |-> c, pauseRequest |-> FALSE, wait |-> NoRequest]
<1>1. e \in BOOLEAN /\ c \in BOOLEAN
    OBVIOUS
<1>2. row[t].attempt \in Nat \ {0}
    BY RowFacts
<1>3. FromRow(t, s) = x
    BY DEF FromRow
<1> HIDE DEF e, c
<1>4. x \in AgentTask /\ x.state = s /\ x.attempt = row[t].attempt
    BY <1>1, <1>2 DEF AgentTask
<1> HIDE DEF x
<1> QED BY <1>3, <1>4, NoTaskAssumption

\* The tree that is read back has the shape the supervisor relies on.
LEMMA TreeReadBack ==
    ASSUME RuntimeInv, Blank, NEW S \in SUBSET Task, Closed(S), ReadBack(S), TreeOf(S),
           UNCHANGED <<worker, pass>>
    PROVE  /\ TreeShape' /\ parent' \in [Task -> Task \cup {NoTask}]
           /\ depth' \in [Task -> 0 .. MaxDepth]
           /\ tasks' \in [Task -> AgentTask \cup {NoTask}]
           /\ \A t \in Task : Exists(t)' <=> t \in S
           /\ \A t \in S : parent'[t] = row[t].parent
<1>1. RowsTyped /\ RowTree
    BY InvParts
<1>2. \A t \in S : HasRow(t) /\ row[t].parent \in Task \cup {NoTask}
    BY <1>1, RowFacts DEF Closed
<1>3. ASSUME NEW t \in S PROVE tasks'[t] \in AgentTask /\ tasks'[t] # NoTask
    BY <1>1, <1>2, <1>3, FromRowFacts DEF ReadBack
<1>4. \A t \in Task : Exists(t)' <=> t \in S
    BY <1>3 DEF Exists, ReadBack
<1>5. tasks' \in [Task -> AgentTask \cup {NoTask}]
  <2>1. \A t \in Task : tasks'[t] \in AgentTask \cup {NoTask}
    BY <1>3 DEF ReadBack
  <2> QED BY <2>1 DEF ReadBack
<1>6. \A t \in Task : parent'[t] = IF t \in S THEN row[t].parent ELSE NoTask
    BY DEF TreeOf
<1>7. parent' \in [Task -> Task \cup {NoTask}]
    BY <1>2 DEF TreeOf
<1>8. depth' \in [Task -> 0 .. MaxDepth]
    BY DEF TreeOf, MaxDepth
<1>9. ASSUME NEW t \in Task
      PROVE  /\ t \in S /\ row[t].parent # NoTask =>
                  depth'[t] = IF row[row[t].parent].parent = NoTask THEN 1 ELSE 2
             /\ t \in S /\ row[t].parent = NoTask => depth'[t] = 0
    BY DEF TreeOf
<1>10. ASSUME NEW t \in S, row[t].parent # NoTask
       PROVE  /\ row[t].parent \in S /\ row[t].parent \in Task
              /\ depth'[t] = depth'[row[t].parent] + 1
  <2> DEFINE p == row[t].parent
  <2>1. p \in S /\ p \in Task /\ HasRow(p)
    BY <1>2, <1>10 DEF Closed
  <2>2. CASE row[p].parent = NoTask
    BY <1>9, <1>10, <2>1, <2>2
  <2>3. CASE row[p].parent # NoTask
    <3>1. t # Root /\ row[row[p].parent].parent = NoTask
        BY <1>1, <1>2, <1>10, <2>3 DEF RowTree
    <3> QED BY <1>9, <1>10, <2>1, <2>3, <3>1
  <2> QED BY <2>1, <2>2, <2>3
<1>11. row[Root].parent = NoTask /\ Root \in S
    BY <1>1 DEF RowTree, Closed
<1>12. \A t \in Task \ {Root} : t \in S => row[t].parent # NoTask
    BY <1>1, <1>2, TaskAssumption DEF RowTree
<1>13. Exists(Root)' /\ parent'[Root] = NoTask /\ depth'[Root] = 0
    BY <1>4, <1>6, <1>9, <1>11, TaskAssumption
<1>14. ASSUME NEW t \in Task
       PROVE  /\ parent'[t] # NoTask =>
                    Exists(t)' /\ tasks'[parent'[t]] # NoTask /\ depth'[t] = depth'[parent'[t]] + 1
              /\ Exists(t)' => t = Root \/ parent'[t] # NoTask
              /\ ~Exists(t)' => ~HasWorker(t)'
  <2>1. ~HasWorker(t)'
    BY DEF Blank, HasWorker
  <2>2. ASSUME parent'[t] # NoTask
        PROVE  Exists(t)' /\ tasks'[parent'[t]] # NoTask /\ depth'[t] = depth'[parent'[t]] + 1
    <3>1. t \in S /\ parent'[t] = row[t].parent /\ row[t].parent # NoTask
        BY <1>6, <2>2
    <3> QED BY <1>3, <1>4, <1>10, <3>1
  <2> QED BY <1>4, <1>6, <1>12, <2>1, <2>2
<1>15. \A p \in pass'.pending : FALSE
    BY DEF Blank, NoPass
<1>16. TreeShape'
    BY <1>13, <1>14, <1>15 DEF TreeShape, Exists
<1> QED BY <1>4, <1>5, <1>6, <1>7, <1>8, <1>16

\* A task that is read back agrees with its row, and nothing is under way for it.
LEMMA TaskReadBack ==
    ASSUME RowsTyped, NEW t \in Task, HasRow(t), NEW s \in TaskStates,
           tasks'[t] = FromRow(t, s), ReadAs(t, s), row' = row,
           pass' = NoPass, batch' = {}, half' = {}, resident' = {}, ~HasWorker(t)',
           parent'[t] = row[t].parent
    PROVE  Kept(t)'
<1>1. tasks'[t].state = s /\ tasks'[t].attempt = row[t].attempt
    BY FromRowFacts
<1>2. HalvesOf(t)' = {} /\ WritesOf(t)' = {} /\ ~Unopened(t)'
    BY DEF HalvesOf, WritesOf, Unopened
<1>3. HasRow(t)' /\ row'[t] = row[t] /\ row[t].attempt \in Nat
    BY RowFacts DEF HasRow
<1>4. InMemory(t)'
    BY <1>1 DEF InMemory, ReadAs, NoPass
<1>5. Attempts(t)'
    BY <1>1, <1>2, <1>3 DEF Attempts
<1>6. Collects(t)'
    BY <1>2 DEF Collects
<1>7. Housed(t)'
    BY DEF Housed
<1>8. Agrees(t)'
    BY <1>1, <1>3 DEF Agrees, Matches, ReadAs
<1>9. Recorded(t)'
    BY <1>6, <1>8, AgreesRecords
<1>10. Leased(t)'
    BY <1>1 DEF Leased, ReadAs, IsSettled
<1> QED BY <1>3, <1>4, <1>5, <1>6, <1>7, <1>9, <1>10 DEF Kept

\* A session that was read back is served.
LEMMA ReadBackInv ==
    ASSUME RuntimeInv, Blank, NEW S \in SUBSET Task, Closed(S), ReadBack(S), TreeOf(S),
           power' = "up", UNCHANGED <<crashes, row, worker, pass, strays, resident, batch, half>>,
           report' \in [Task -> Nat], RowsTyped', MemoryTyped',
           \A d \in Task : Sheltered(d)'
    PROVE  RuntimeInv'
<1>1. TypeOK /\ RowsTyped /\ RowTree /\ crashes \in 0 .. MaxCrashes
    BY InvParts
<1>2. /\ TreeShape' /\ parent' \in [Task -> Task \cup {NoTask}]
      /\ depth' \in [Task -> 0 .. MaxDepth]
      /\ tasks' \in [Task -> AgentTask \cup {NoTask}]
      /\ \A t \in Task : Exists(t)' <=> t \in S
      /\ \A t \in S : parent'[t] = row[t].parent
    BY TreeReadBack
<1>3. TypeOK'
    BY <1>1, <1>2 DEF TypeOK
<1>4. RuntimeTypeOK'
    BY <1>1, <1>3 DEF RuntimeTypeOK, RowsTyped, MemoryTyped
<1>5. RowTree'
    BY <1>1, RowTreeStays DEF HasRow
<1>6. /\ pass' = NoPass /\ batch' = {} /\ half' = {} /\ resident' = {}
      /\ \A d \in Task : ~HasWorker(d)'
    BY DEF Blank, HasWorker
<1>7. ASSUME NEW t \in S PROVE Kept(t)'
  <2>1. PICK s \in TaskStates : tasks'[t] = FromRow(t, s) /\ ReadAs(t, s)
    BY DEF ReadBack
  <2>2. HasRow(t) /\ t \in Task
    BY DEF Closed
  <2> QED BY <1>1, <1>2, <1>6, <2>1, <2>2, TaskReadBack
<1>8. \A t \in Task \ S : Absent(t)'
    BY <1>6 DEF Absent, HalvesOf, WritesOf, NoPass
<1>9. Serving'
    BY <1>2, <1>6, <1>7, <1>8 DEF Serving, NoPass
<1>10. Up'
    BY DEF Up
<1> QED BY <1>4, <1>5, <1>9, <1>10 DEF RuntimeInv

\* The rows that are to be recovered hang together unless one is orphaned.
LEMMA RecoveredClosed ==
    ASSUME RowsTyped, RowTree, NEW t \in Recovered, \A d \in Recovered : ~Orphaned(d)
    PROVE  Closed(Recovered)
<1>1. \A d \in Recovered : d \in Task /\ HasRow(d) /\ (row[d].parent = NoTask \/ row[d].parent \in Recovered)
    BY DEF Recovered, Orphaned
<1>2. \A d \in Recovered : row[d].parent = NoTask => d = Root
    BY <1>1, TaskAssumption DEF RowTree
<1>3. CASE t = Root
    BY <1>1, <1>3 DEF Closed
<1>4. CASE t # Root
  <2> DEFINE p == row[t].parent
  <2>1. p \in Recovered
    BY <1>1, <1>2, <1>4
  <2>2. CASE p = Root
    BY <1>1, <2>1, <2>2 DEF Closed
  <2>3. CASE p # Root
    <3>1. row[p].parent \in Recovered /\ row[p].parent # NoTask
        BY <1>1, <1>2, <2>1, <2>3, TaskAssumption
    <3>2. row[row[p].parent].parent = NoTask
        BY <1>1, <1>4, <3>1 DEF RowTree
    <3> QED BY <1>1, <1>2, <3>1, <3>2 DEF Closed
  <2> QED BY <2>2, <2>3
<1> QED BY <1>3, <1>4

\* The coordinator opens the database, or refuses to.
LEMMA OpenHeld ==
    ASSUME RuntimeInv, Open
    PROVE  Held
<1>1. /\ power = "reclaimed" /\ ~Up
      /\ leaseRow' = [t \in Task |-> IF HasRow(t) /\ Settles(row[t].state) THEN {} ELSE leaseRow[t]]
      /\ UNCHANGED <<crashes, row, attachment>>
    BY DEF Open, Up
<1>2. RowsTyped /\ MemoryTyped /\ TypeOK /\ RowTree /\ \A d \in Task : Sheltered(d)
    BY InvParts
<1>3. Blank /\ \A d \in Task : HasRow(d) => row[d].state \notin InFlight
    BY <1>1 DEF RuntimeInv, Booting
<1>4. \A d \in Task : leaseRow'[d] = IF HasRow(d) /\ Settles(row[d].state) THEN {} ELSE leaseRow[d]
    BY <1>1
<1>5. RowsTyped'
  <2>1. leaseRow' \in [Task -> SUBSET LeaseKind]
    BY <1>1, <1>2 DEF RowsTyped
  <2> QED BY <1>1, <1>2, <2>1 DEF RowsTyped
<1>6. \A d \in Task : Sheltered(d)' /\ Durable(d)
    BY <1>1, <1>2, <1>4, StateFacts DEF Sheltered, Durable, HasRow
<1>7. CASE \E t \in Recovered : Orphaned(t)
  <2>1. power' = "refused" /\ UNCHANGED <<vars, memory, astray>>
    BY <1>7 DEF Open
  <2>2. \A d \in Task : /\ HasRow(d)' <=> HasRow(d)
                        /\ HasRow(d) => row'[d].parent = row[d].parent
    BY <1>1 DEF HasRow
  <2> QED BY <1>1, <1>5, <1>6, <2>1, <2>2, BootStage
<1>8. CASE ~\E t \in Recovered : Orphaned(t)
  <2>1. /\ power' = "up"
        /\ tasks' = [t \in Task |->
              IF t \notin Recovered THEN NoTask
              ELSE IF row[t].state = "RecoveryRequired" THEN FromRow(t, "RecoveryRequired")
              ELSE FromRow(t, "Queued")]
        /\ TreeOf(Recovered)
        /\ gate' = [t \in Task |->
              IF t \notin Recovered THEN "none"
              ELSE CASE row[t].state = "RecoveryRequired" -> "required"
                     [] row[t].state = "RecoveryGated"    -> "gated"
                     [] OTHER                             -> "attested"]
        /\ astray' = astray
        /\ UNCHANGED <<worker, report, pass, strays, draining, resident, batch, half>>
    BY <1>8 DEF Open
  <2>2. gate' \in [Task -> {"none", "required", "gated", "attested"}]
    <3>1. ASSUME NEW t \in Task PROVE gate'[t] \in {"none", "required", "gated", "attested"}
      <4>1. CASE t \notin Recovered
        BY <2>1, <4>1
      <4>2. CASE t \in Recovered
        BY <2>1, <4>2
      <4> QED BY <4>1, <4>2
    <3>2. gate' = [t \in Task |-> gate'[t]]
        BY <2>1
    <3> QED BY <3>1, <3>2
  <2>3. MemoryTyped'
    BY <1>2, <2>1, <2>2 DEF MemoryTyped
  <2>4. /\ tasks' = [t \in Task |-> tasks'[t]]
        /\ \A t \in Task \ Recovered : tasks'[t] = NoTask
    <3>1. tasks' = [t \in Task |-> tasks'[t]]
        BY <2>1
    <3>2. ASSUME NEW t \in Task, t \notin Recovered PROVE tasks'[t] = NoTask
        BY <2>1, <3>2
    <3> QED BY <3>1, <3>2
  <2>5. ASSUME NEW t \in Recovered
        PROVE  \E s \in TaskStates : tasks'[t] = FromRow(t, s) /\ ReadAs(t, s)
    <3>1. t \in Task /\ HasRow(t) /\ row[t].state \in RecoveryRows
        BY DEF Recovered
    <3>2. /\ {"RecoveryRequired", "Queued"} \subseteq TaskStates
          /\ "RecoveryRequired" \notin SettledStates /\ "Queued" \notin SettledStates
          /\ "RecoveryRequired" \notin {"Running"} \cup WaitingStates
          /\ "Queued" \notin {"Running"} \cup WaitingStates
        BY DEF TaskStates, LiveStates, TerminalStates, SettledStates, WaitingStates
    <3>3. CASE row[t].state = "RecoveryRequired"
        BY <2>1, <3>1, <3>2, <3>3 DEF ReadAs
    <3>4. CASE row[t].state # "RecoveryRequired"
      <4>1. row[t].state \in {"RecoveryGated", "RecoveryAttested"}
        BY <3>1, <3>4 DEF RecoveryRows
      <4>2. tasks'[t] = FromRow(t, "Queued")
        BY <2>1, <3>1, <3>4
      <4> QED BY <3>2, <4>1, <4>2 DEF ReadAs
    <3> QED BY <3>3, <3>4
  <2>6. Recovered \in SUBSET Task
    BY DEF Recovered
  <2>7. CASE Recovered # {}
    <3>1. Closed(Recovered)
        BY <1>2, <1>8, <2>7, RecoveredClosed
    <3>2. ReadBack(Recovered)
        BY <2>4, <2>5 DEF ReadBack
    <3>3. report' \in [Task -> Nat]
        BY <1>2, <2>1 DEF TypeOK
    <3>4. RuntimeInv'
        BY <1>1, <1>3, <1>5, <1>6, <2>1, <2>3, <2>6, <3>1, <3>2, <3>3, ReadBackInv
    <3> QED BY <1>6, <3>4 DEF Held
  <2>8. CASE Recovered = {}
    <3>1. \A t \in Task : tasks'[t] = NoTask /\ parent'[t] = NoTask /\ depth'[t] = 0
        BY <2>1, <2>4, <2>8 DEF TreeOf
    <3>2. /\ tasks' = [t \in Task |-> tasks'[t]] /\ parent' = [t \in Task |-> parent'[t]]
          /\ depth' = [t \in Task |-> depth'[t]]
        BY <2>1 DEF TreeOf
    <3>3. /\ tasks' = [t \in Task |-> NoTask] /\ parent' = [t \in Task |-> NoTask]
          /\ depth' = [t \in Task |-> 0]
        BY <3>1, <3>2
    <3>4. TypeOK'
        BY <1>2, <2>1, <3>3 DEF TypeOK, MaxDepth
    <3>5. RuntimeTypeOK'
        BY <1>1, <1>5, <2>1, <2>3, <3>4, InvParts DEF RuntimeTypeOK, RowsTyped, MemoryTyped
    <3>6. Blank'
        BY <1>3, <2>1, <3>3 DEF Blank, Exists, HasWorker
    <3>7. Readable'
        BY <1>1, <1>3, <1>4, <2>8 DEF Readable, Recovered, HasRow
    <3>8. Up' /\ RowTree'
        BY <1>1, <1>2, <2>1, RowTreeStays DEF Up, HasRow
    <3> QED BY <1>6, <3>5, <3>6, <3>7, <3>8 DEF Held, RuntimeInv
  <2> QED BY <2>7, <2>8
<1> QED BY <1>7, <1>8

\* A session this process does not know is read back whole.
LEMMA AttachUnknownHeld ==
    ASSUME RuntimeInv, Up, Blank, Readable, AttachRoot
    PROVE  Held
<1> DEFINE S == {t \in Task : HasRow(t)}
<1>1. ~Exists(Root)
    BY TaskAssumption DEF Blank
<1>2. /\ attachment' = "attached" /\ power' = "up"
      /\ tasks' = [t \in Task |-> IF HasRow(t) THEN FromRow(t, Hydrated(row[t].state)) ELSE NoTask]
      /\ report' = [t \in Task |-> IF HasRow(t) /\ row[t].state = "CompletedNoChanges"
                                   THEN row[t].attempt ELSE 0]
      /\ TreeOf(S)
      /\ UNCHANGED <<worker, pass, strays, crashes, row, leaseRow, memory, astray>>
    BY <1>1 DEF AttachRoot, Up
<1>3. RowsTyped /\ MemoryTyped /\ RowTree /\ \A d \in Task : Sheltered(d)
    BY InvParts
<1>4. RowsTyped' /\ MemoryTyped' /\ UNCHANGED <<resident, batch, half>>
    BY <1>2, <1>3 DEF RowsTyped, MemoryTyped, memory
<1>5. \A d \in Task : Sheltered(d)' /\ Durable(d)
    BY <1>2, <1>3 DEF Sheltered, Durable, HasRow
<1>6. report' \in [Task -> Nat]
  <2>1. \A t \in Task : HasRow(t) => row[t].attempt \in Nat
    BY <1>3, RowFacts
  <2> QED BY <1>2, <2>1
<1>7. Closed(S)
    BY <1>3, TaskAssumption DEF Closed, RowTree
<1>8. ASSUME NEW t \in S
      PROVE  \E s \in TaskStates : tasks'[t] = FromRow(t, s) /\ ReadAs(t, s)
  <2> DEFINE s == Hydrated(row[t].state)
  <2>1. row[t].state \in RowStates \ (InFlight \cup RecoveryRows) /\ tasks'[t] = FromRow(t, s)
    BY <1>2, <1>3, RowFacts DEF Readable
  <2>2. s = row[t].state /\ s \in TaskStates \ ({"Running"} \cup WaitingStates)
    BY <2>1 DEF Hydrated, RowStates, RecoveryRows, InFlight
  <2>3. s \in SettledStates => leaseRow'[t] = {}
    BY <1>2, <2>2 DEF Readable, Settles
  <2> QED BY <2>1, <2>2, <2>3 DEF ReadAs
<1>9. ReadBack(S)
    BY <1>2, <1>8 DEF ReadBack
<1>10. RuntimeInv'
  <2>1. S \in SUBSET Task
    OBVIOUS
  <2> HIDE DEF S
  <2> QED BY <1>2, <1>4, <1>5, <1>6, <1>7, <1>9, <2>1, ReadBackInv
<1> QED BY <1>5, <1>10 DEF Held

\* A daemon without a session only drains, attaches one, or dies.
LEMMA BlankHeld ==
    ASSUME RuntimeInv, Up, Blank, Readable, RuntimeNext
    PROVE  Held
<1>1. /\ \A t \in Task : ~Exists(t) /\ ~HasWorker(t)
      /\ half = {} /\ batch = {} /\ pass = NoPass /\ ~Exists(Root)
    BY TaskAssumption DEF Blank
<1>2. ~(\E p, c \in Task : SpawnChild(p, c))
    BY <1>1 DEF SpawnChild, Spawn
<1>3. ~(\E t \in Task, recursive \in BOOLEAN : CancelTask(t, recursive))
    BY <1>1 DEF CancelTask, CancelTaskTree
<1>4. ~(\E t \in Task : Pause(t) \/ Resume(t) \/ ResumePrepared(t) \/ Reopen(t))
    BY <1>1 DEF Pause, PauseTask, Resume, ResumePrepared, Reopen, RetryTask
<1>5. ~ActivateRow /\ ~ActivateRoot /\ ~DetachRoot
    BY <1>1 DEF ActivateRow, ActivateRoot, DetachRoot
<1>6. ~ReconcileStep
  <2>1. ~ReconcileBegin /\ ~ReconcileReturn
    BY <1>1 DEF ReconcileBegin, ReconcileReturn, Posted, NoPass
  <2>2. \A t \in Task, e \in FinalEvents :
            ~ReconcileSkip(t, e) /\ ~ReconcileApply(t, e) /\ ~ReconcileAbort(t, e)
    BY <1>1 DEF ReconcileSkip, ReconcileApply, ReconcileAbort, NoPass
  <2> QED BY <2>1, <2>2 DEF ReconcileStep
<1>7. ~(\E t \in Task, kind \in WatchdogKinds : WatchdogFires(t, kind))
    BY <1>1 DEF WatchdogFires
<1>8. ~InterruptWorkers /\ ~WorkerPosts
    BY <1>1, ReportsAssumption
    DEF InterruptWorkers, InterruptUnacknowledgedWorkers, WorkerPosts, WorkerReport
<1>9. ~RecoverInflight /\ ~Reclaim /\ ~Open
    BY DEF RecoverInflight, Reclaim, Open, Up
<1>10. CASE AttachRoot
    BY <1>10, AttachUnknownHeld
<1>11. CASE Crash
    BY <1>11, CrashHeld
<1>12. CASE Drain
  <2>1. ~RequestSafeCheckpoints
    BY <1>1 DEF RequestSafeCheckpoints
  <2>2. /\ draining' = TRUE
        /\ UNCHANGED <<vars, power, crashes, store, resident, gate, batch, half, astray>>
    BY <1>12, <2>1 DEF Drain, Alone, store
  <2>3. RuntimeTypeOK'
    <3>1. TypeOK'
        BY <2>2, InvParts DEF TypeOK, vars
    <3> QED BY <2>2, <3>1, InvParts DEF RuntimeTypeOK, RowsTyped, MemoryTyped, store, Up
  <2>4. \A d \in Task : Sheltered(d)' /\ Durable(d)
    BY <2>2, InvParts DEF Sheltered, Durable, HasRow, store
  <2>5. RowTree'
    BY <2>2, InvParts, RowTreeStays DEF store, HasRow
  <2>6. Up' /\ Blank' /\ Readable'
    BY <2>2 DEF Up, Blank, Readable, HasRow, Exists, HasWorker, store, vars
  <2> QED BY <2>3, <2>4, <2>5, <2>6 DEF Held, RuntimeInv
<1> QED BY <1>1, <1>2, <1>3, <1>4, <1>5, <1>6, <1>7, <1>8, <1>9, <1>10, <1>11, <1>12
        DEF RuntimeNext, Client, Daemon

-----------------------------------------------------------------------------
(* Every step, and the theorems.                                           *)

\* What clients ask of a session that is served.
LEMMA ClientHeld ==
    ASSUME Served, Client
    PROVE  Held
<1>1. CASE \E p, c \in Task : SpawnChild(p, c)
    BY <1>1, SpawnChildHeld
<1>2. CASE \E h \in half : StartChild(h) \/ StartChildFails(h) \/ StartUnprovisioned(h)
    BY <1>2, StartChildHeld, StartChildFailsHeld, StartUnprovisionedHeld
<1>3. CASE \E h \in half : StartRefused(h) \/ StartMissed(h) \/ StartDenied(h)
    BY <1>3, StartRefusedHeld, StartMissedHeld, StartDeniedHeld
<1>4. CASE \E h \in half : StartConflicts(h)
    BY <1>4, StartConflictsHeld
<1>5. CASE \E t \in Task, recursive \in BOOLEAN : CancelTask(t, recursive)
    BY <1>5, CancelTaskHeld
<1>6. CASE \E t \in Task : Pause(t) \/ Resume(t) \/ ResumePrepared(t) \/ Reopen(t)
    BY <1>6, PauseHeld, ResumeHeld, ResumePreparedHeld, ReopenHeld
<1>7. CASE \E h \in half : InsertChild(h) \/ ResumeRow(h) \/ ReopenRow(h) \/ RowMissing(h)
    BY <1>7, InsertChildHeld, ResumeRowHeld, ReopenRowHeld, RowMissingHeld
<1>8. CASE \E h \in half : DetachRow(h)
    BY <1>8, DetachRowHeld
<1>9. CASE ActivateRow \/ ActivateRoot \/ DetachRoot \/ AttachRoot
    BY <1>9, ActivateRowHeld, ActivateRootHeld, DetachRootHeld, AttachKnownHeld
<1> QED BY <1>1, <1>2, <1>3, <1>4, <1>5, <1>6, <1>7, <1>8, <1>9 DEF Client

\* What the daemon does by itself while it serves one; none of it is of a boot.
LEMMA DaemonHeld ==
    ASSUME Served, Daemon
    PROVE  Held
<1>1. CASE ReconcileStep
    BY <1>1, ReconcileHeld
<1>2. CASE \E w \in batch : Persist(w) \/ PersistStops(w)
    BY <1>2, PersistHeld, PersistStopsHeld
<1>3. CASE \E t \in Task, kind \in WatchdogKinds : WatchdogFires(t, kind)
    BY <1>3, WatchdogFiresHeld
<1>4. CASE Drain \/ InterruptWorkers
    BY <1>4, DrainHeld, InterruptWorkersHeld
<1>5. ~RecoverInflight /\ ~Reclaim /\ ~Open
    BY DEF Served, Up, RecoverInflight, Reclaim, Open
<1> QED BY <1>1, <1>2, <1>3, <1>4, <1>5 DEF Daemon

\* While it is down or boots, only the rows move.
LEMMA DownHeld ==
    ASSUME RuntimeInv, ~Up, RuntimeNext
    PROVE  Held
<1>1. half = {} /\ batch = {}
    BY DEF RuntimeInv, Booting, Blank
<1>2. ~Client /\ ~WorkerPosts
  <2>1. /\ ~(\E p, c \in Task : SpawnChild(p, c))
        /\ ~(\E t \in Task, recursive \in BOOLEAN : CancelTask(t, recursive))
        /\ ~(\E t \in Task : Pause(t) \/ Resume(t) \/ ResumePrepared(t) \/ Reopen(t))
        /\ ~ActivateRow /\ ~ActivateRoot /\ ~DetachRoot /\ ~AttachRoot
    BY DEF SpawnChild, CancelTask, Pause, Resume, ResumePrepared, Reopen,
           ActivateRow, ActivateRoot, DetachRoot, AttachRoot
  <2> QED BY <1>1, <2>1 DEF Client, WorkerPosts
<1>3. /\ ~ReconcileStep /\ ~Drain /\ ~InterruptWorkers
      /\ ~(\E t \in Task, kind \in WatchdogKinds : WatchdogFires(t, kind))
    BY DEF ReconcileStep, Drain, InterruptWorkers, WatchdogFires
<1>4. Crash \/ RecoverInflight \/ Reclaim \/ Open
    BY <1>1, <1>2, <1>3 DEF RuntimeNext, Daemon
<1> QED BY <1>4, CrashHeld, RecoverInflightHeld, ReclaimHeld, OpenHeld

\* Every step keeps the invariant and the outcomes that are durable.
LEMMA StepHeld ==
    ASSUME RuntimeInv, RuntimeNext
    PROVE  Held
<1>1. CASE ~Up
    BY <1>1, DownHeld
<1>2. CASE Up /\ Blank /\ Readable
    BY <1>2, BlankHeld
<1>3. CASE Up /\ Serving
  <2>1. Served
    BY <1>3 DEF Served
  <2> QED BY <2>1, ClientHeld, DaemonHeld, WorkerPostsHeld, CrashHeld, CrashAttestedHeld,
          CrashDetachingHeld
          DEF RuntimeNext
<1> QED BY <1>1, <1>2, <1>3 DEF RuntimeInv

\* It holds of the session that begins.
LEMMA RuntimeInitInv ==
    ASSUME RuntimeInit
    PROVE  RuntimeInv
<1>1. /\ TypeOK /\ TreeShape /\ Init
      /\ power = "up" /\ crashes = 0 /\ draining = FALSE
      /\ row        = [t \in Task |-> IF t = Root THEN NewRow(NoTask) ELSE NoRow]
      /\ leaseRow   = [t \in Task |-> {}]
      /\ attachment = "attached"
      /\ resident = {} /\ batch = {} /\ half = {} /\ astray = {}
      /\ gate = [t \in Task |-> "none"]
    BY InitFacts DEF RuntimeInit
<1>2. /\ NewRow(NoTask) \in Row /\ NewRow(NoTask).state = "Queued"
      /\ NewRow(NoTask).attempt = 1 /\ NewRow(NoTask).parent = NoTask
      /\ NewRow(NoTask).context = FALSE
    BY DEF NewRow, Row, RowStates, TaskStates, LiveStates
<1>3. /\ \A t \in Task : HasRow(t) <=> t = Root
      /\ row[Root] = NewRow(NoTask)
    BY <1>1, <1>2, TaskAssumption, NoRowAssumption DEF HasRow
<1>4. /\ pass = NoPass /\ \A t \in Task : ~HasWorker(t) /\ (Exists(t) <=> t = Root)
      /\ tasks[Root].state = "Queued" /\ tasks[Root].attempt = 1 /\ parent[Root] = NoTask
    BY <1>1, TaskAssumption, NewTaskFacts DEF Init, HasWorker, Exists, NewTask
<1>5. RuntimeTypeOK
  <2>1. crashes \in 0 .. MaxCrashes
    BY <1>1, RuntimeBoundAssumption
  <2>2. row \in [Task -> Row \cup {NoRow}]
    BY <1>1, <1>2
  <2>3. draining \in BOOLEAN /\ leaseRow \in [Task -> SUBSET LeaseKind]
    BY <1>1
  <2> QED BY <1>1, <2>1, <2>2, <2>3 DEF RuntimeTypeOK
<1>6. RowTree
    BY <1>2, <1>3, TaskAssumption DEF RowTree
<1>7. \A d \in Task : Sheltered(d)
    BY <1>2, <1>3 DEF Sheltered
<1>8. \A d \in Task : HalvesOf(d) = {} /\ WritesOf(d) = {} /\ ~Unopened(d)
    BY <1>1 DEF HalvesOf, WritesOf, Unopened
<1>9. Kept(Root)
  <2>1. InMemory(Root)
    BY <1>4, StateFacts, TaskAssumption DEF InMemory, NoPass
  <2>2. Attempts(Root)
    BY <1>2, <1>3, <1>4, <1>8, TaskAssumption DEF Attempts
  <2>3. Collects(Root) /\ Housed(Root) /\ Leased(Root)
    BY <1>4, <1>8, StateFacts, TaskAssumption DEF Collects, Housed, Leased
  <2>4. Recorded(Root)
    BY <1>2, <1>3, <1>4, <1>8, StateFacts, TaskAssumption DEF Recorded, Agrees, Matches
  <2> QED BY <1>2, <1>3, <1>4, <2>1, <2>2, <2>3, <2>4 DEF Kept
<1>10. \A d \in Task \ {Root} : Absent(d)
    BY <1>4, <1>8 DEF Absent, NoPass
<1>11. Serving
    BY <1>1, <1>4, <1>9, <1>10, TaskAssumption DEF Serving, NoPass
<1> QED BY <1>1, <1>5, <1>6, <1>7, <1>11 DEF RuntimeInv, Up

\* RuntimeInv, the inductive invariant: in every reachable state what memory, the
\* rows, the leases and the operations under way say of a task fits together.
THEOREM RuntimeCorrect == RuntimeSpec => []RuntimeInv
<1>1. RuntimeInit => RuntimeInv
    BY RuntimeInitInv
<1>2. RuntimeInv /\ [RuntimeNext]_runtimeVars => RuntimeInv'
  <2> SUFFICES ASSUME RuntimeInv, [RuntimeNext]_runtimeVars
               PROVE  RuntimeInv'
    OBVIOUS
  <2>1. CASE RuntimeNext
    BY <2>1, StepHeld DEF Held
  <2>2. CASE UNCHANGED runtimeVars
    <3>1. /\ UNCHANGED <<vars, power, crashes, row, leaseRow, attachment>>
          /\ UNCHANGED <<draining, resident, gate, batch, half, astray>>
        BY <2>2 DEF runtimeVars, store, memory
    <3>2. RuntimeTypeOK'
      <4>1. TypeOK'
        BY <3>1, InvParts DEF TypeOK, vars
      <4> QED BY <3>1, <4>1 DEF RuntimeInv, RuntimeTypeOK
    <3>3. RowTree' /\ \A d \in Task : Sheltered(d)'
        BY <3>1, InvParts, RowTreeStays DEF HasRow, Sheltered
    <3>4. CASE ~Up
        BY <3>1, <3>2, <3>3, <3>4 DEF RuntimeInv, Up, Booting, Blank, Exists, HasWorker, HasRow, vars
    <3>5. CASE Up /\ Blank /\ Readable
        BY <3>1, <3>2, <3>3, <3>5 DEF RuntimeInv, Up, Blank, Readable, Exists, HasWorker, HasRow, vars
    <3>6. CASE Up /\ Serving
      <4>1. Served
        BY <3>6 DEF Served
      <4>2. Harmless
        BY <3>1, <4>1, ServedTypes, StutterHarmless
      <4>3. MemoryTyped' /\ SameHalves
        BY <3>1, <4>1, ServedTypes DEF MemoryTyped, SameHalves
      <4>4. Held
        BY <3>1, <4>1, <4>2, <4>3, OperationHeld DEF vars, HasWorker, store
      <4> QED BY <4>4 DEF Held
    <3> QED BY <3>4, <3>5, <3>6 DEF RuntimeInv
  <2> QED BY <2>1, <2>2
<1> QED BY <1>1, <1>2, PTL DEF RuntimeSpec

\* The coordinator's variables have their types, the rows' attempts among them.
THEOREM RuntimeTypeCorrect == RuntimeSpec => []RuntimeTypeOK
<1>1. RuntimeInv => RuntimeTypeOK
    BY DEF RuntimeInv
<1> QED BY <1>1, RuntimeCorrect, PTL

\* RowFollowsMemory: the row of a task no write is on its way to says what memory
\* says, whatever was cancelled with what, and whichever operations crossed.
THEOREM RowFollowsMemoryCorrect == RuntimeSpec => []RowFollowsMemory
<1>1. RuntimeInv => RowFollowsMemory
  <2> SUFFICES ASSUME RuntimeInv, NEW t \in Task, Quiet(t)
               PROVE  Agrees(t)
    BY DEF RowFollowsMemory, Agrees, Matches
  <2>1. Kept(t) /\ t \notin astray /\ ~Writing(t)
    BY DEF RuntimeInv, Serving, Blank, Quiet, Writing, HalvesOf, WritesOf
  <2> QED BY <2>1 DEF Kept, Recorded
<1> QED BY <1>1, RuntimeCorrect, PTL

\* LeasesFollowWorkers: workers hold resident leases, and what settled holds none.
THEOREM LeasesFollowWorkersCorrect == RuntimeSpec => []LeasesFollowWorkers
<1>1. RuntimeInv => LeasesFollowWorkers
  <2> SUFFICES ASSUME RuntimeInv, NEW t \in Task \ {Root}, Quiet(t)
               PROVE  /\ HasWorker(t) /\ IsLive(tasks[t]) => t \in resident
                      /\ IsSettled(tasks[t]) \/ tasks[t].state = "Paused" => t \notin resident
                      /\ IsSettled(tasks[t]) => leaseRow[t] = {}
    BY DEF LeasesFollowWorkers
  <2>1. Kept(t) /\ t \notin astray /\ ~Writing(t)
    BY DEF RuntimeInv, Serving, Blank, Quiet, Writing, HalvesOf, WritesOf
  <2> QED BY <2>1 DEF Kept, Leased
<1> QED BY <1>1, RuntimeCorrect, PTL

\* RecoverableKeepsWorkspace: a child that can be resumed after any number of deaths
\* still has the lease row of its workspace.
THEOREM RecoverableKeepsWorkspaceCorrect == RuntimeSpec => []RecoverableKeepsWorkspace
<1>1. RuntimeInv => RecoverableKeepsWorkspace
    BY DEF RuntimeInv, Sheltered, RecoverableKeepsWorkspace
<1> QED BY <1>1, RuntimeCorrect, PTL

\* OutcomeIsDurable: no step, of a boot or of a client, changes the settled row of an
\* attempt, but for a write that something overtook.
THEOREM OutcomeIsDurableCorrect == RuntimeSpec => OutcomeIsDurable
<1>1. RuntimeInv /\ [RuntimeNext]_runtimeVars =>
        [\A t \in Task :
           /\ HasRow(t) /\ Settles(row[t].state) /\ row'[t].attempt = row[t].attempt
           /\ row'[t].state # row[t].state
           => t \in astray \cup astray']_runtimeVars
    BY StepHeld DEF Held, Durable
<1> QED BY <1>1, RuntimeCorrect, PTL DEF RuntimeSpec, OutcomeIsDurable
=============================================================================
