----------------------- MODULE AgentSupervisorProofs -----------------------
(***************************************************************************)
(* What the reducer and the supervisor guarantee for every set of tasks,   *)
(* every bound and every order of worker events.                           *)
(***************************************************************************)
EXTENDS AgentSupervisor, TLAPS

-----------------------------------------------------------------------------
(* The reducer.                                                            *)

\* The attempt of a task is closed exactly when the task is terminal, and a
\* completed task has its delivery.
Sound(task) ==
    /\ task.ended <=> IsTerminal(task)
    /\ task.state = "Completed" => task.delivered

LEMMA TerminalHasNoSuccessor ==
    ASSUME NEW state \in TerminalStates
    PROVE  Successors(state) = {}
BY DEF TerminalStates, SettledStates, Successors, WaitingStates

LEMMA LiveIsNotTerminal ==
    /\ LiveStates \cap TerminalStates = {}
    /\ TaskStates = LiveStates \cup TerminalStates
    /\ SettledStates \subseteq TerminalStates
BY DEF LiveStates, TerminalStates, SettledStates, TaskStates, WaitingStates

\* A transition answers with a well-formed task that keeps its attempt; it
\* never leaves a terminal state.
LEMMA TransitionFacts ==
    ASSUME NEW task \in AgentTask, NEW next \in TaskStates,
           NEW w \in Requests \cup {NoRequest}
    PROVE  LET r == TransitionTo(task, next, w)
           IN  /\ r.ok \in BOOLEAN
               /\ r.task \in AgentTask
               /\ r.task.attempt = task.attempt
               /\ r.ok => next \in Successors(task.state) /\ r.task.state = next
               /\ ~r.ok => r.task = task
               /\ IsTerminal(task) => ~r.ok
               /\ Sound(task) /\ (next = "Completed" => task.delivered) => Sound(r.task)
<1>1. CASE next \notin Successors(task.state)
    BY <1>1 DEF TransitionTo, Rejected
<1>2. CASE next \in Successors(task.state)
  <2> DEFINE new == [task EXCEPT
            !.state        = next,
            !.wait         = w,
            !.ended        = @ \/ next \in TerminalStates,
            !.pauseRequest = @ /\ next \notin TerminalStates]
  <2>1. TransitionTo(task, next, w) = [ok |-> TRUE, task |-> new]
    BY <1>2 DEF TransitionTo, Accepted
  <2>2. /\ new \in AgentTask
        /\ new.attempt = task.attempt /\ new.state = next
        /\ new.delivered = task.delivered
        /\ new.ended <=> (task.ended \/ next \in TerminalStates)
    BY DEF AgentTask
  <2>3. task.state \notin TerminalStates
    BY <1>2, TerminalHasNoSuccessor
  <2>4. ASSUME Sound(task), next = "Completed" => task.delivered PROVE Sound(new)
    BY <2>2, <2>3, <2>4 DEF Sound, IsTerminal
  <2> HIDE DEF new
  <2> QED BY <1>2, <2>1, <2>2, <2>3, <2>4 DEF IsTerminal
<1> QED BY <1>1, <1>2

LEMMA TargetIsState ==
    ASSUME NEW kind \in PlainEvents
    PROVE  Target(kind) \in TaskStates /\ Target(kind) # "Completed"
BY DEF PlainEvents, Target, TaskStates, LiveStates, TerminalStates, SettledStates,
       WaitingStates

LEMMA StartNextAttemptFacts ==
    ASSUME NEW task \in AgentTask
    PROVE  LET new == StartNextAttempt(task)
           IN  /\ new \in AgentTask /\ new.state = "Queued"
               /\ new.attempt = task.attempt + 1 /\ new.ended = FALSE
<1>1. task.attempt + 1 \in Nat \ {0}
    BY DEF AgentTask
<1>2. "Queued" \in TaskStates
    BY DEF TaskStates, LiveStates
<1> QED BY <1>1, <1>2 DEF StartNextAttempt, AgentTask

\* Every event but a retry keeps the attempt, and a terminal state with it; a
\* retry opens the next attempt of a terminal task; and a sound task stays so.
LEMMA ReduceFacts ==
    ASSUME NEW task \in AgentTask, NEW event \in TaskEvent
    PROVE  LET r == Reduce(task, event)
           IN  /\ r.ok \in BOOLEAN
               /\ r.task \in AgentTask
               /\ event.kind # "RetryRequested" =>
                    /\ r.task.attempt = task.attempt
                    /\ IsTerminal(task) => r.task.state = task.state
               /\ event.kind = "RetryRequested" =>
                    IF r.ok
                    THEN /\ IsTerminal(task)
                         /\ r.task.state = "Queued"
                         /\ r.task.attempt = task.attempt + 1
                    ELSE r.task = task
               /\ ~r.ok => r.task.state = task.state
               /\ Sound(task) => Sound(r.task)
<1> DEFINE r == Reduce(task, event)
           paused   == [task EXCEPT !.pauseRequest = TRUE]
           unpaused == [task EXCEPT !.pauseRequest = FALSE]
           handed   == [task EXCEPT !.delivered = TRUE]
<1>1. /\ NoRequest \in Requests \cup {NoRequest}
      /\ event.request \in Requests \cup {NoRequest}
      /\ event.kind \in EventKinds
    BY DEF TaskEvent
<1>2. {"Queued", "Blocked", "Completed", "Paused", "WaitingForPermission",
       "WaitingForResource"} \subseteq TaskStates
    BY DEF TaskStates, LiveStates, TerminalStates, SettledStates, WaitingStates
<1>3. CASE r = Rejected(task)
    BY <1>3 DEF Rejected
<1>4. ASSUME NEW next \in TaskStates, NEW w \in Requests \cup {NoRequest},
             next # "Completed", event.kind # "RetryRequested",
             r = TransitionTo(task, next, w)
      PROVE  /\ r.ok \in BOOLEAN
             /\ r.task \in AgentTask
             /\ r.task.attempt = task.attempt
             /\ IsTerminal(task) => r.task.state = task.state
             /\ ~r.ok => r.task.state = task.state
             /\ Sound(task) => Sound(r.task)
    BY <1>4, TransitionFacts
<1> HIDE DEF paused, unpaused, handed
<1>5. CASE event.attempt # task.attempt
    BY <1>5, <1>3 DEF Reduce
<1>6. CASE event.attempt = task.attempt /\ event.kind \in PlainEvents
  <2>1. r = TransitionTo(task, Target(event.kind), NoRequest)
    BY <1>6 DEF Reduce, PlainEvents, WaitEvents
  <2>2. event.kind # "RetryRequested"
    BY <1>6 DEF PlainEvents
  <2> QED BY <2>1, <2>2, <1>1, <1>4, <1>6, TargetIsState
<1>7. CASE event.attempt = task.attempt /\ event.kind \in WaitEvents
  <2>1. r = ReduceWait(task, event.kind, event.request) /\ event.kind \notin PlainEvents
    BY <1>7 DEF Reduce, WaitEvents, PlainEvents
  <2>2. event.kind # "RetryRequested"
    BY <1>7 DEF WaitEvents
  <2>3. \/ r = Rejected(task)
        \/ \E next \in TaskStates, w \in Requests \cup {NoRequest} :
              next # "Completed" /\ r = TransitionTo(task, next, w)
    <3>1. CASE event.kind = "PermissionRequested"
        BY <3>1, <2>1, <1>1, <1>2 DEF ReduceWait
    <3>2. CASE event.kind = "PermissionAllowed"
        BY <3>2, <2>1, <1>1, <1>2 DEF ReduceWait, ResolveWait
    <3>3. CASE event.kind = "PermissionDenied"
        BY <3>3, <2>1, <1>1, <1>2 DEF ReduceWait, ResolveWait
    <3>4. CASE event.kind = "ResourceUnavailable"
        BY <3>4, <2>1, <1>1, <1>2 DEF ReduceWait
    <3>5. CASE event.kind = "ResourceAvailable"
        BY <3>5, <2>1, <1>1, <1>2 DEF ReduceWait, ResolveWait
    <3> QED BY <3>1, <3>2, <3>3, <3>4, <3>5, <1>7 DEF WaitEvents
  <2> QED BY <2>2, <2>3, <1>3, <1>4
<1>8. CASE event.attempt = task.attempt /\ event.kind \in OtherEvents
  <2>1. r = ReduceOther(task, event.kind)
    BY <1>8 DEF Reduce, OtherEvents, PlainEvents, WaitEvents
  <2>2. CASE event.kind = "WorkerDelivered"
    <3>1. /\ handed \in AgentTask /\ handed.attempt = task.attempt
          /\ handed.state = task.state /\ handed.ended = task.ended /\ handed.delivered
        BY DEF AgentTask, handed
    <3>2. r = TransitionTo(handed, "Completed", NoRequest)
        BY <2>1, <2>2 DEF ReduceOther, handed
    <3>3. IsTerminal(handed) = IsTerminal(task)
        BY <3>1 DEF IsTerminal
    <3>4. Sound(task) => Sound(handed)
        BY <3>1, <3>3 DEF Sound
    <3> QED BY <2>2, <3>1, <3>2, <3>3, <3>4, <1>1, <1>2, TransitionFacts
  <2>3. CASE event.kind = "WorkerDeliveredInvalid"
    BY <2>1, <2>3, <1>3 DEF ReduceOther
  <2>4. CASE event.kind = "PauseRequested"
    <3>1. /\ paused \in AgentTask /\ paused.attempt = task.attempt
          /\ paused.state = task.state /\ paused.ended = task.ended
          /\ paused.delivered = task.delivered
        BY DEF AgentTask, paused
    <3>2. r = [ok |-> TRUE, task |-> paused]
        BY <2>1, <2>4 DEF ReduceOther, Accepted, paused
    <3> QED BY <2>4, <3>1, <3>2 DEF Sound, IsTerminal
  <2>5. CASE event.kind \in {"PauseAcknowledged", "ResumeRequested"}
    <3>1. /\ unpaused \in AgentTask /\ unpaused.attempt = task.attempt
          /\ unpaused.state = task.state /\ unpaused.ended = task.ended
          /\ unpaused.delivered = task.delivered
        BY DEF AgentTask, unpaused
    <3>2. \/ r = Rejected(task)
          \/ \E next \in {"Paused", "Queued"} : r = TransitionTo(unpaused, next, NoRequest)
        BY <2>1, <2>5 DEF ReduceOther, unpaused
    <3>3. IsTerminal(unpaused) = IsTerminal(task)
        BY <3>1 DEF IsTerminal
    <3>4. Sound(task) => Sound(unpaused)
        BY <3>1, <3>3 DEF Sound
    <3>5. ASSUME NEW next \in {"Paused", "Queued"}, r = TransitionTo(unpaused, next, NoRequest)
          PROVE  /\ r.ok \in BOOLEAN
                 /\ r.task \in AgentTask
                 /\ r.task.attempt = task.attempt
                 /\ IsTerminal(task) => r.task.state = task.state
                 /\ ~r.ok => r.task.state = task.state
                 /\ Sound(task) => Sound(r.task)
        BY <3>1, <3>3, <3>4, <3>5, <1>1, <1>2, TransitionFacts
    <3> QED BY <2>5, <3>2, <3>5, <1>3
  <2>6. CASE event.kind = "RetryRequested"
    <3>1. r = IF IsTerminal(task) THEN Accepted(StartNextAttempt(task)) ELSE Rejected(task)
        BY <2>1, <2>6 DEF ReduceOther
    <3> DEFINE new == StartNextAttempt(task)
    <3>2. /\ new \in AgentTask /\ new.state = "Queued"
          /\ new.attempt = task.attempt + 1 /\ new.ended = FALSE
        BY <1>2, StartNextAttemptFacts
    <3>3. Sound(new)
        BY <3>2 DEF Sound, IsTerminal, TerminalStates, SettledStates
    <3>4. CASE IsTerminal(task)
        <4>1. r.ok = TRUE /\ r.task = new
            BY <3>1, <3>4 DEF Accepted
        <4> QED BY <2>6, <3>2, <3>3, <3>4, <4>1
    <3>5. CASE ~IsTerminal(task)
        BY <3>1, <3>5, <1>3
    <3> QED BY <3>4, <3>5
  <2> QED BY <1>8, <2>2, <2>3, <2>4, <2>5, <2>6 DEF OtherEvents
<1> QED BY <1>1, <1>5, <1>6, <1>7, <1>8 DEF EventKinds

\* A live task can always be cancelled.
LEMMA CancelFacts ==
    ASSUME NEW task \in AgentTask, IsLive(task)
    PROVE  /\ Cancel(task) \in AgentTask
           /\ Cancel(task).state = "Cancelled"
           /\ Cancel(task).attempt = task.attempt
           /\ Sound(task) => Sound(Cancel(task))
<1>1. Reduce(task, Event("CancelRequested", task)) = TransitionTo(task, "Cancelled", NoRequest)
    BY DEF Reduce, Event, PlainEvents, WaitEvents, Target
<1>2. "Cancelled" \in Successors(task.state)
    BY DEF IsLive, LiveStates, WaitingStates, Successors, TerminalStates, SettledStates
<1>3. "Cancelled" \in TaskStates
    BY DEF TaskStates, TerminalStates, SettledStates
<1>4. TransitionTo(task, "Cancelled", NoRequest).ok
    BY <1>2 DEF TransitionTo, Accepted
<1> QED BY <1>1, <1>3, <1>4, TransitionFacts DEF Cancel

-----------------------------------------------------------------------------
(* The tree.                                                               *)

LEMMA DescendantsFacts ==
    ASSUME TypeOK, TreeShape, NEW t \in Task, NEW d \in Descendants(t)
    PROVE  /\ d \in Task /\ Exists(d) /\ d # t
           /\ Descendants(d) \subseteq Descendants(t)
<1>1. d \in Task
    BY DEF Descendants
<1>2. CASE parent[d] = t
  <2>1. Exists(d) /\ depth[d] = depth[t] + 1
    BY <1>1, <1>2, TaskAssumption DEF TreeShape
  <2>2. ASSUME NEW e \in Descendants(d) PROVE e \in Descendants(t)
    <3>1. CASE parent[e] = d
        BY <1>1, <1>2, <3>1, TaskAssumption DEF Descendants
    <3>2. CASE parent[e] # NoTask /\ parent[parent[e]] = d
        <4>1. e \in Task /\ parent[e] \in Task
            BY <3>2 DEF Descendants, TypeOK
        <4>2. depth[e] = depth[parent[e]] + 1 /\ depth[parent[e]] = depth[d] + 1
            BY <1>1, <3>2, <4>1, TaskAssumption DEF TreeShape
        <4> QED BY <1>1, <2>1, <4>1, <4>2 DEF TypeOK, MaxDepth
    <3> QED BY <2>2, <3>1, <3>2 DEF Descendants
  <2> QED BY <1>1, <2>1, <2>2 DEF TypeOK, MaxDepth
<1>3. CASE parent[d] # NoTask /\ parent[parent[d]] = t
  <2>1. parent[d] \in Task
    BY <1>1, <1>3 DEF TypeOK
  <2>2. /\ Exists(d) /\ depth[d] = depth[parent[d]] + 1
        /\ depth[parent[d]] = depth[t] + 1
    BY <1>1, <1>3, <2>1, TaskAssumption DEF TreeShape
  <2>3. ASSUME NEW e \in Descendants(d) PROVE FALSE
    <3>1. CASE parent[e] = d
        <4>1. e \in Task /\ depth[e] = depth[d] + 1
            BY <1>1, <3>1, TaskAssumption DEF Descendants, TreeShape
        <4> QED BY <1>1, <2>1, <2>2, <4>1 DEF TypeOK, MaxDepth
    <3>2. CASE parent[e] # NoTask /\ parent[parent[e]] = d
        <4>1. e \in Task /\ parent[e] \in Task
            BY <3>2 DEF Descendants, TypeOK
        <4>2. depth[e] = depth[parent[e]] + 1 /\ depth[parent[e]] = depth[d] + 1
            BY <1>1, <3>2, <4>1, TaskAssumption DEF TreeShape
        <4> QED BY <1>1, <2>1, <2>2, <4>1, <4>2 DEF TypeOK, MaxDepth
    <3> QED BY <2>3, <3>1, <3>2 DEF Descendants
  <2> QED BY <1>1, <2>1, <2>2, <2>3 DEF TypeOK, MaxDepth
<1> QED BY <1>1, <1>2, <1>3 DEF Descendants

-----------------------------------------------------------------------------
(* How a step may change the tasks.                                        *)

TaskFunction == [Task -> AgentTask \cup {NoTask}]

\* What one task may become: a terminal one stays as it is or is retried, any
\* other keeps its attempt.
EvolvesTo(x, y) ==
    /\ IsTerminal(x) => \/ y.state = x.state /\ y.attempt = x.attempt
                        \/ y.state = "Queued" /\ y.attempt = x.attempt + 1
    /\ ~IsTerminal(x) => y.attempt = x.attempt
    /\ Sound(x) => Sound(y)

\* What all of them may become: the same tasks, each evolved, and none settles
\* without its live descendants.
Evolution(n) ==
    /\ n \in TaskFunction
    /\ \A d \in Task :
        /\ Exists(d) <=> n[d] # NoTask
        /\ Exists(d) => EvolvesTo(tasks[d], n[d])
        /\ Exists(d) /\ ~IsSettled(tasks[d]) /\ IsSettled(n[d]) =>
              \A e \in Descendants(d) : ~IsLive(n[e])

LEMMA CancelAllFacts ==
    ASSUME NEW ts \in TaskFunction, NEW S \in SUBSET LiveIn(ts, Task)
    PROVE  LET n == CancelAll(ts, S)
           IN  /\ n \in TaskFunction
               /\ \A d \in Task :
                    /\ ts[d] # NoTask <=> n[d] # NoTask
                    /\ d \notin S => n[d] = ts[d]
                    /\ d \in S => n[d].state = "Cancelled" /\ EvolvesTo(ts[d], n[d])
<1>1. ASSUME NEW d \in S
      PROVE  /\ d \in Task /\ ts[d] \in AgentTask /\ IsLive(ts[d])
             /\ Cancel(ts[d]) \in AgentTask
             /\ Cancel(ts[d]).state = "Cancelled"
             /\ Cancel(ts[d]).attempt = ts[d].attempt
             /\ Sound(ts[d]) => Sound(Cancel(ts[d]))
    BY <1>1, CancelFacts DEF LiveIn, TaskFunction
<1>2. ASSUME NEW d \in S PROVE EvolvesTo(ts[d], Cancel(ts[d]))
    BY <1>1, LiveIsNotTerminal DEF EvolvesTo, IsLive, IsTerminal
<1> QED BY <1>1, <1>2, NoTaskAssumption DEF CancelAll, TaskFunction

LEMMA NotAboveItself ==
    ASSUME TypeOK, TreeShape, NEW t \in Task
    PROVE  t \notin Descendants(t)
BY DescendantsFacts

\* Changing one task and letting the cascade run is an evolution.
LEMMA SettleEvolves ==
    ASSUME TypeOK, TreeShape, NEW t \in Task, Exists(t),
           NEW new \in AgentTask, EvolvesTo(tasks[t], new)
    PROVE  LET ts == [tasks EXCEPT ![t] = new]
           IN  /\ Victims(ts, t) \subseteq LiveIn(ts, Task)
               /\ Victims(ts, t) \subseteq Descendants(t)
               /\ Evolution(CancelAll(ts, Victims(ts, t)))
<1> DEFINE ts == [tasks EXCEPT ![t] = new]
           vs == Victims(ts, t)
           n  == CancelAll(ts, vs)
<1>1. /\ ts \in TaskFunction /\ ts[t] = new
      /\ \A d \in Task \ {t} : ts[d] = tasks[d]
      /\ \A d \in Task : Exists(d) <=> ts[d] # NoTask
    BY NoTaskAssumption DEF TypeOK, TaskFunction, Exists
<1>2. vs \subseteq LiveIn(ts, Task) /\ vs \subseteq Descendants(t)
    BY DEF Victims, LiveIn, Descendants
<1>3. t \notin vs
    BY <1>2, NotAboveItself
<1> HIDE DEF ts, vs
<1>4. /\ n \in TaskFunction
      /\ \A d \in Task :
           /\ ts[d] # NoTask <=> n[d] # NoTask
           /\ d \notin vs => n[d] = ts[d]
           /\ d \in vs => n[d].state = "Cancelled" /\ EvolvesTo(ts[d], n[d])
    BY <1>1, <1>2, CancelAllFacts
<1> HIDE DEF n
<1>5. ASSUME NEW d \in Task, Exists(d) PROVE EvolvesTo(tasks[d], n[d])
  <2>1. CASE d = t
    BY <1>1, <1>3, <1>4, <2>1
  <2>2. CASE d # t /\ d \in vs
    BY <1>1, <1>4, <2>2
  <2>3. CASE d # t /\ d \notin vs
    BY <1>1, <1>4, <2>3 DEF EvolvesTo
  <2> QED BY <2>1, <2>2, <2>3
<1>6. ASSUME IsSettled(ts[t]), NEW e \in Descendants(t) PROVE ~IsLive(n[e])
  <2>1. e \in Task /\ Exists(e)
    BY <1>6, DescendantsFacts
  <2>2. CASE e \in vs
    BY <1>4, <2>1, <2>2 DEF IsLive, LiveStates, WaitingStates
  <2>3. CASE e \notin vs
    <3>1. ~IsLive(ts[e])
        BY <1>1, <1>6, <2>1, <2>3 DEF vs, Victims, LiveIn
    <3> QED BY <1>4, <2>1, <2>3, <3>1
  <2> QED BY <2>2, <2>3
<1>7. ASSUME NEW d \in Task, Exists(d), ~IsSettled(tasks[d]), IsSettled(n[d]),
             NEW e \in Descendants(d)
      PROVE  ~IsLive(n[e])
  <2>1. CASE d = t
    BY <1>3, <1>4, <1>6, <1>7, <2>1
  <2>2. CASE d # t
    <3>1. d \in vs
        BY <1>1, <1>4, <1>7, <2>2
    <3>2. d \in Descendants(t) /\ IsSettled(ts[t])
        BY <1>2, <3>1 DEF vs, Victims
    <3>3. e \in Descendants(t)
        BY <1>7, <3>2, DescendantsFacts
    <3> QED BY <1>6, <3>2, <3>3
  <2> QED BY <2>1, <2>2
<1>8. Evolution(n)
    BY <1>1, <1>4, <1>5, <1>7 DEF Evolution
<1> QED BY <1>2, <1>8 DEF n, vs, ts

LEMMA EventType ==
    ASSUME NEW task \in AgentTask, NEW kind \in EventKinds
    PROVE  Event(kind, task) \in TaskEvent /\ Event(kind, task).kind = kind
BY DEF Event, TaskEvent, AgentTask

LEMMA ReduceEvolves ==
    ASSUME NEW task \in AgentTask, NEW event \in TaskEvent
    PROVE  EvolvesTo(task, Reduce(task, event).task)
BY ReduceFacts DEF EvolvesTo

\* Whatever the reducer answers, applying an event is an evolution.
LEMMA AppliedFacts ==
    ASSUME TypeOK, TreeShape, NEW t \in Task, Exists(t), NEW event \in TaskEvent
    PROVE  LET a == Applied(t, event)
           IN  /\ a.ok \in BOOLEAN
               /\ a.victims \subseteq Descendants(t)
               /\ \A d \in a.victims : a.tasks[d].state = "Cancelled"
               /\ a.tasks[t] = Reduce(tasks[t], event).task
               /\ a.ok = Reduce(tasks[t], event).ok
               /\ Evolution(a.tasks)
<1> DEFINE r  == Reduce(tasks[t], event)
           ts == [tasks EXCEPT ![t] = r.task]
           vs == IF r.ok THEN Victims(ts, t) ELSE {}
<1>1. tasks[t] \in AgentTask
    BY DEF TypeOK, Exists
<1>2. r.ok \in BOOLEAN /\ r.task \in AgentTask /\ EvolvesTo(tasks[t], r.task)
    BY <1>1, ReduceFacts, ReduceEvolves
<1>3. ~r.ok => r.task.state = tasks[t].state
    BY <1>1, ReduceFacts
<1>4. Applied(t, event) = [ok |-> r.ok, tasks |-> CancelAll(ts, vs), victims |-> vs]
    BY DEF Applied
<1> HIDE DEF r
<1>5. /\ Victims(ts, t) \subseteq LiveIn(ts, Task)
      /\ Victims(ts, t) \subseteq Descendants(t)
      /\ Evolution(CancelAll(ts, Victims(ts, t)))
    BY <1>2, SettleEvolves
<1>6. /\ ts \in TaskFunction /\ ts[t] = r.task
      /\ \A d \in Task \ {t} : ts[d] = tasks[d]
    BY <1>2 DEF TypeOK, TaskFunction
<1>7. vs \subseteq LiveIn(ts, Task) /\ vs \subseteq Descendants(t) /\ t \notin vs
    BY <1>5, NotAboveItself
<1>8. (~r.ok => vs = {}) /\ (r.ok => vs = Victims(ts, t))
    OBVIOUS
<1> DEFINE n == CancelAll(ts, vs)
<1> HIDE DEF ts, vs
<1>9. /\ n[t] = ts[t]
       /\ \A d \in vs : n[d].state = "Cancelled"
    BY <1>6, <1>7, CancelAllFacts DEF LiveIn
<1> HIDE DEF n
<1>10. ASSUME ~r.ok PROVE Evolution(n)
  <2>1. n = ts
    BY <1>6, <1>8, <1>10 DEF CancelAll, TaskFunction, n
  <2>2. ASSUME NEW d \in Task, Exists(d)
        PROVE  EvolvesTo(tasks[d], ts[d]) /\ (IsSettled(ts[d]) => IsSettled(tasks[d]))
    BY <1>2, <1>3, <1>6, <1>10, <2>2 DEF EvolvesTo, IsSettled
  <2>3. \A d \in Task : Exists(d) <=> ts[d] # NoTask
    BY <1>2, <1>6, NoTaskAssumption DEF Exists
  <2> QED BY <1>6, <2>1, <2>2, <2>3 DEF Evolution
<1>11. ASSUME r.ok PROVE Evolution(n)
    BY <1>5, <1>8, <1>11 DEF n
<1>12. Applied(t, event) = [ok |-> r.ok, tasks |-> n, victims |-> vs]
    BY <1>4 DEF n, ts, vs
<1> QED BY <1>2, <1>6, <1>7, <1>10, <1>11, <1>9, <1>12 DEF r

\* Nothing changes: the trivial evolution.
LEMMA NoEvolution ==
    ASSUME TypeOK
    PROVE  Evolution(tasks)
BY DEF Evolution, EvolvesTo, TypeOK, TaskFunction, Exists

-----------------------------------------------------------------------------
(* The handles.                                                            *)

HandleFunction == [Task -> WorkerHandle \cup {NoWorker}]

LEMMA CancelWorkersFacts ==
    ASSUME TypeOK, NEW S
    PROVE  /\ CancelWorkers(S) \in HandleFunction
           /\ \A d \in Task : CancelWorkers(S)[d] # NoWorker <=> HasWorker(d)
<1>1. ASSUME NEW d \in Task, HasWorker(d)
      PROVE  [worker[d] EXCEPT !.cancelled = TRUE] \in WorkerHandle
    BY <1>1 DEF TypeOK, HasWorker, WorkerHandle
<1> QED BY <1>1, NoWorkerAssumption DEF CancelWorkers, HasWorker, TypeOK, HandleFunction

LEMMA DropFacts ==
    ASSUME NEW w \in HandleFunction, NEW S
    PROVE  /\ Drop(w, S) \in HandleFunction
           /\ \A d \in Task : Drop(w, S)[d] # NoWorker => w[d] # NoWorker
           /\ Unattended(w, S) \subseteq S
BY DEF Drop, HandleFunction, Unattended

-----------------------------------------------------------------------------
(* Every step is a spawn or an evolution.                                  *)

\* What every action but Spawn does to the state.
Harmless ==
    /\ TypeOK'
    /\ UNCHANGED <<parent, depth>>
    /\ Evolution(tasks')
    /\ \A t \in Task : worker'[t] # NoWorker => Exists(t)
    /\ \A p \in pass'.pending : Exists(p[1])

LEMMA HarmlessFromParts ==
    ASSUME TypeOK, TreeShape, UNCHANGED <<parent, depth>>, Evolution(tasks'),
           worker' \in HandleFunction,
           \A t \in Task : worker'[t] # NoWorker => Exists(t),
           report' = report \/ report' \in [Task -> Nat],
           \/ pass' = pass
           \/ pass' \in Pass /\ \A p \in pass'.pending : Exists(p[1]),
           strays' = strays \/ strays' \subseteq Task
    PROVE  Harmless
<1>1. TypeOK'
    BY DEF TypeOK, TaskFunction, HandleFunction, Evolution
<1>2. \A p \in pass'.pending : Exists(p[1])
    BY DEF TreeShape
<1> QED BY <1>1, <1>2 DEF Harmless

\* An action that applies an event and fires tokens.
LEMMA EventAction ==
    ASSUME TypeOK, TreeShape, NEW t \in Task, Exists(t), NEW event \in TaskEvent, NEW S,
           tasks'  = Applied(t, event).tasks,
           worker' = CancelWorkers(S),
           UNCHANGED <<parent, depth, report, pass, strays>>
    PROVE  Harmless
<1>1. Evolution(tasks')
    BY AppliedFacts
<1>2. worker' \in HandleFunction /\ \A d \in Task : worker'[d] # NoWorker => Exists(d)
    BY CancelWorkersFacts DEF TreeShape
<1>3. /\ UNCHANGED <<parent, depth>>
      /\ report' = report /\ pass' = pass /\ strays' = strays
    OBVIOUS
<1> QED BY <1>1, <1>2, <1>3, HarmlessFromParts

LEMMA TransitionHarmless ==
    ASSUME TypeOK, TreeShape, NEW t \in Task, NEW event,
           Exists(t) => event \in TaskEvent, Transition(t, event)
    PROVE  Harmless
<1>1. Exists(t) /\ event \in TaskEvent
    BY DEF Transition
<1> QED BY <1>1, EventAction DEF Transition

\* A settled or retried outcome of a live task is also one of the task before it.
LEMMA EvolvesTwice ==
    ASSUME NEW x, NEW y, NEW z, EvolvesTo(x, y), EvolvesTo(y, z),
           ~IsTerminal(x), ~IsTerminal(y)
    PROVE  EvolvesTo(x, z)
BY DEF EvolvesTo

LEMMA RecordRecoveryConflictHarmless ==
    ASSUME TypeOK, TreeShape, NEW t \in Task, RecordRecoveryConflict(t)
    PROVE  Harmless
<1>1. Exists(t) /\ tasks[t] \in AgentTask
    BY DEF RecordRecoveryConflict, TypeOK, Exists
<1> DEFINE admitted == IF tasks[t].state = "Queued"
                       THEN Reduce(tasks[t], Event("AdmissionGranted", tasks[t])).task
                       ELSE tasks[t]
           r  == Reduce(admitted, Event("RecoveryConflict", admitted))
           ts == [tasks EXCEPT ![t] = r.task]
<1>2. /\ r.ok
      /\ tasks' = CancelAll(ts, Victims(ts, t)) /\ worker' = CancelWorkers(Victims(ts, t))
      /\ UNCHANGED <<parent, depth, report, pass, strays>>
    BY DEF RecordRecoveryConflict
<1>3. /\ admitted \in AgentTask
      /\ \/ admitted = tasks[t]
         \/ tasks[t].state = "Queued" /\ EvolvesTo(tasks[t], admitted)
  <2>1. Event("AdmissionGranted", tasks[t]) \in TaskEvent
    BY <1>1, EventType DEF EventKinds, PlainEvents
  <2> QED BY <1>1, <2>1, ReduceFacts, ReduceEvolves
<1> HIDE DEF admitted
<1>4. r = TransitionTo(admitted, "Blocked", NoRequest)
    BY DEF Reduce, Event, PlainEvents, WaitEvents, Target
<1>5. "Blocked" \in TaskStates
    BY DEF TaskStates, TerminalStates, SettledStates
<1>6. ~IsTerminal(admitted)
    BY <1>2, <1>3, <1>4, <1>5, TransitionFacts
<1>7. r.task \in AgentTask /\ EvolvesTo(admitted, r.task)
    BY <1>3, EventType, ReduceFacts, ReduceEvolves DEF EventKinds, PlainEvents
<1> HIDE DEF r
<1>8. EvolvesTo(tasks[t], r.task)
  <2>1. CASE admitted = tasks[t]
    BY <1>7, <2>1
  <2>2. CASE tasks[t].state = "Queued" /\ EvolvesTo(tasks[t], admitted)
    <3>1. ~IsTerminal(tasks[t])
        BY <2>2 DEF IsTerminal, TerminalStates, SettledStates
    <3> QED BY <1>6, <1>7, <2>2, <3>1, EvolvesTwice
  <2> QED BY <1>3, <2>1, <2>2
<1>9. Evolution(tasks')
    BY <1>1, <1>2, <1>7, <1>8, SettleEvolves
<1>10. worker' \in HandleFunction /\ \A d \in Task : worker'[d] # NoWorker => Exists(d)
    BY <1>2, CancelWorkersFacts DEF TreeShape
<1> QED BY <1>2, <1>9, <1>10, HarmlessFromParts

LEMMA StartHarmless ==
    ASSUME TypeOK, TreeShape, NEW t \in Task, StartWorker(t) \/ StartWorkerFails(t)
    PROVE  Harmless
<1>1. Exists(t) /\ tasks[t] \in AgentTask
    BY DEF StartWorker, StartWorkerFails, Admitted, TypeOK, Exists
<1> DEFINE event == Event("AdmissionGranted", tasks[t])
<1>2. event \in TaskEvent /\ event.kind = "AdmissionGranted"
    BY <1>1, EventType DEF EventKinds, PlainEvents
<1>3. CASE StartWorker(t)
  <2>1. Evolution(tasks')
    BY <1>1, <1>2, <1>3, AppliedFacts DEF StartWorker
  <2>2. worker' \in HandleFunction /\ \A d \in Task : worker'[d] # NoWorker => Exists(d)
    BY <1>1, <1>3 DEF StartWorker, TypeOK, HandleFunction, WorkerHandle, AgentTask,
          TreeShape, HasWorker
  <2>3. UNCHANGED <<parent, depth, report, pass, strays>>
    BY <1>3 DEF StartWorker
  <2> QED BY <2>1, <2>2, <2>3, HarmlessFromParts
<1>4. CASE StartWorkerFails(t)
  <2> DEFINE running == Reduce(tasks[t], event).task
             failed  == Reduce(running, Event("WorkerFailed", running)).task
             ts      == [tasks EXCEPT ![t] = failed]
  <2>1. Reduce(tasks[t], event).ok
    BY <1>1, <1>2, <1>4, AppliedFacts DEF StartWorkerFails, Admitted
  <2>2. running \in AgentTask /\ EvolvesTo(tasks[t], running)
    BY <1>1, <1>2, ReduceFacts, ReduceEvolves
  <2>3. running.state = "Running"
    BY <2>1 DEF Reduce, Event, PlainEvents, WaitEvents, Target, TransitionTo,
          Accepted, Rejected
  <2>4. ~IsTerminal(tasks[t])
    BY <2>1, <1>1, TransitionFacts DEF Reduce, Event, PlainEvents, WaitEvents, Target,
          TaskStates, LiveStates
  <2>5. failed \in AgentTask /\ EvolvesTo(running, failed)
    BY <2>2, EventType, ReduceFacts, ReduceEvolves DEF EventKinds, PlainEvents
  <2>6. EvolvesTo(tasks[t], failed)
    BY <2>2, <2>3, <2>4, <2>5, EvolvesTwice DEF IsTerminal, TerminalStates, SettledStates
  <2>7. /\ tasks' = CancelAll(ts, Victims(ts, t)) /\ worker' = CancelWorkers(Victims(ts, t))
        /\ UNCHANGED <<parent, depth, report, pass, strays>>
    BY <1>4 DEF StartWorkerFails
  <2> HIDE DEF failed
  <2>8. Evolution(tasks')
    BY <1>1, <2>5, <2>6, <2>7, SettleEvolves
  <2>9. worker' \in HandleFunction /\ \A d \in Task : worker'[d] # NoWorker => Exists(d)
    BY <2>7, CancelWorkersFacts DEF TreeShape
  <2> QED BY <2>7, <2>8, <2>9, HarmlessFromParts
<1> QED BY <1>3, <1>4

LEMMA WorkerReportHarmless ==
    ASSUME TypeOK, TreeShape, NEW t \in Task, NEW e \in WorkerReports, WorkerReport(t, e)
    PROVE  Harmless
<1>1. [worker[t] EXCEPT !.event = e] \in WorkerHandle
    BY ReportsAssumption DEF WorkerReport, HasWorker, TypeOK, WorkerHandle
<1>2. worker' \in HandleFunction /\ \A d \in Task : worker'[d] # NoWorker => Exists(d)
    BY <1>1 DEF WorkerReport, HasWorker, TypeOK, HandleFunction, TreeShape
<1>3. Evolution(tasks')
    BY NoEvolution DEF WorkerReport
<1> QED BY <1>2, <1>3, HarmlessFromParts DEF WorkerReport

\* The event a worker's report becomes is one the reducer knows.
LEMMA ReportedEvent ==
    ASSUME NEW task \in AgentTask, NEW e \in FinalEvents
    PROVE  Event(TaskEventOf(e), task) \in TaskEvent
<1>1. TaskEventOf(e) \in EventKinds
    BY DEF TaskEventOf, EventKinds, PlainEvents, WaitEvents, OtherEvents
<1> QED BY <1>1, EventType

LEMMA ReconcileBeginHarmless ==
    ASSUME TypeOK, TreeShape, ReconcileBegin
    PROVE  Harmless
<1>1. ASSUME NEW t \in Posted
      PROVE  /\ t \in Task /\ Exists(t) /\ worker[t] \in WorkerHandle
             /\ worker[t].event \in FinalEvents
             /\ [worker[t] EXCEPT !.event = "Taken"] \in WorkerHandle
    BY <1>1 DEF Posted, HasWorker, TypeOK, TreeShape, WorkerHandle
<1>2. worker' \in HandleFunction /\ \A d \in Task : worker'[d] # NoWorker => Exists(d)
    BY <1>1, NoWorkerAssumption
    DEF ReconcileBegin, HandleFunction, TypeOK, TreeShape, HasWorker
<1> DEFINE drained == {<<t, worker[t].event>> : t \in Posted}
<1>3. ASSUME NEW p \in drained PROVE p \in Task \X FinalEvents /\ Exists(p[1])
  <2>1. PICK t \in Posted : p = <<t, worker[t].event>>
    BY <1>3
  <2>2. p[1] = t
    BY <2>1
  <2> QED BY <1>1, <2>1, <2>2
<1>4. pass' = [active |-> TRUE, pending |-> drained, changed |-> {}]
    BY DEF ReconcileBegin
<1> HIDE DEF drained
<1>5. pass' \in Pass /\ \A p \in pass'.pending : Exists(p[1])
    BY <1>3, <1>4 DEF Pass
<1>6. Evolution(tasks')
    BY NoEvolution DEF ReconcileBegin
<1> QED BY <1>2, <1>5, <1>6, HarmlessFromParts DEF ReconcileBegin

\* What the events of a pass have in common.
LEMMA PendingFacts ==
    ASSUME TypeOK, TreeShape, NEW t \in Task, NEW e \in FinalEvents, <<t, e>> \in pass.pending
    PROVE  LET a == Applied(t, Event(TaskEventOf(e), tasks[t]))
           IN  /\ Exists(t) /\ tasks[t] \in AgentTask
               /\ a.victims \subseteq Descendants(t)
               /\ Evolution(a.tasks)
<1>1. Exists(t)
  <2>1. Exists(<<t, e>>[1])
    BY DEF TreeShape
  <2> QED BY <2>1
<1>2. tasks[t] \in AgentTask
    BY <1>1 DEF TypeOK, Exists
<1>3. Event(TaskEventOf(e), tasks[t]) \in TaskEvent
    BY <1>2, ReportedEvent
<1> QED BY <1>1, <1>2, <1>3, AppliedFacts

LEMMA ReconcileEventHarmless ==
    ASSUME TypeOK, TreeShape, NEW t \in Task, NEW e \in FinalEvents,
           ReconcileSkip(t, e) \/ ReconcileApply(t, e) \/ ReconcileAbort(t, e)
    PROVE  Harmless
<1> DEFINE a == Applied(t, Event(TaskEventOf(e), tasks[t]))
<1>1. /\ Exists(t) /\ tasks[t] \in AgentTask
      /\ a.victims \subseteq Descendants(t) /\ Evolution(a.tasks)
    BY PendingFacts DEF ReconcileSkip, ReconcileApply, ReconcileAbort
<1>2. ASSUME NEW S \in SUBSET Task
      PROVE  LET new == [pass EXCEPT !.pending = @ \ {<<t, e>>}, !.changed = @ \cup S]
             IN  new \in Pass /\ \A p \in new.pending : Exists(p[1])
    BY <1>2 DEF TypeOK, Pass, TreeShape
<1>3. NoPass \in Pass /\ \A p \in NoPass.pending : Exists(p[1])
    BY DEF NoPass, Pass
<1>4. worker \in HandleFunction /\ \A d \in Task : worker[d] # NoWorker => Exists(d)
    BY DEF TypeOK, HandleFunction, TreeShape, HasWorker
<1>5. CASE ReconcileSkip(t, e)
  <2>1. pass' \in Pass /\ \A p \in pass'.pending : Exists(p[1])
    BY <1>5 DEF ReconcileSkip, TypeOK, Pass, TreeShape
  <2> QED BY <1>4, <1>5, <2>1, NoEvolution, HarmlessFromParts DEF ReconcileSkip
<1>6. CASE ReconcileApply(t, e)
  <2> DEFINE w     == CancelWorkers(a.victims)
             moved == Moved(t, a)
  <2>1. moved \subseteq Task
    BY <1>1 DEF Moved, Descendants
  <2>2. w \in HandleFunction /\ \A d \in Task : w[d] # NoWorker => Exists(d)
    BY CancelWorkersFacts DEF TreeShape
  <2>3. /\ tasks' = a.tasks /\ worker' = Drop(w, moved)
        /\ strays' = strays \cup Unattended(w, moved)
        /\ pass' = [pass EXCEPT !.pending = @ \ {<<t, e>>}, !.changed = @ \cup moved]
        /\ UNCHANGED <<parent, depth>>
    BY <1>6 DEF ReconcileApply
  <2>4. report' \in [Task -> Nat]
    BY <1>1, <1>6 DEF ReconcileApply, TypeOK, AgentTask
  <2> HIDE DEF a, w, moved
  <2>5. worker' \in HandleFunction /\ \A d \in Task : worker'[d] # NoWorker => Exists(d)
    BY <2>2, <2>3, DropFacts
  <2>6. strays' \subseteq Task
    BY <2>1, <2>2, <2>3, DropFacts DEF TypeOK
  <2> QED BY <1>1, <1>2, <2>1, <2>3, <2>4, <2>5, <2>6, HarmlessFromParts
<1>7. CASE ReconcileAbort(t, e)
  <2>1. tasks' = a.tasks \/ tasks' = tasks
    BY <1>7 DEF ReconcileAbort
  <2>2. Evolution(tasks')
    BY <1>1, <2>1, NoEvolution
  <2> QED BY <1>3, <1>4, <1>7, <2>2, HarmlessFromParts DEF ReconcileAbort
<1> QED BY <1>5, <1>6, <1>7

LEMMA ReconcileReturnHarmless ==
    ASSUME TypeOK, TreeShape, ReconcileReturn
    PROVE  Harmless
<1>1. NoPass \in Pass /\ \A p \in NoPass.pending : Exists(p[1])
    BY DEF NoPass, Pass
<1>2. worker \in HandleFunction /\ \A d \in Task : worker[d] # NoWorker => Exists(d)
    BY DEF TypeOK, HandleFunction, TreeShape, HasWorker
<1> QED BY <1>1, <1>2, NoEvolution, HarmlessFromParts DEF ReconcileReturn

\* cancel_task_tree cancels a subtree as a whole or not at all.
LEMMA CancelTaskTreeHarmless ==
    ASSUME TypeOK, TreeShape, NEW t \in Task, NEW recursive \in BOOLEAN,
           CancelTaskTree(t, recursive)
    PROVE  Harmless
<1> DEFINE targets   == {t} \cup (IF recursive THEN Descendants(t) ELSE {})
           cancelled == LiveIn(tasks, targets)
                          \cup (IF IsLive(tasks[t]) THEN LiveIn(tasks, Descendants(t)) ELSE {})
<1>1. /\ tasks' = CancelAll(tasks, cancelled)
      /\ worker' = CancelWorkers(targets \cup cancelled)
      /\ UNCHANGED <<parent, depth>>
      /\ report' = report /\ pass' = pass /\ strays' = strays
    BY DEF CancelTaskTree
<1>2. cancelled \subseteq LiveIn(tasks, Task) /\ cancelled \subseteq {t} \cup Descendants(t)
    BY DEF LiveIn, Descendants
<1>3. cancelled # {} => LiveIn(tasks, Descendants(t)) \subseteq cancelled
  <2>1. CASE recursive \/ IsLive(tasks[t])
    BY <2>1 DEF LiveIn
  <2>2. CASE ~recursive /\ ~IsLive(tasks[t])
    BY <2>2 DEF LiveIn
  <2> QED BY <2>1, <2>2
<1> HIDE DEF targets, cancelled
<1>4. /\ tasks' \in TaskFunction
      /\ \A d \in Task :
           /\ tasks[d] # NoTask <=> tasks'[d] # NoTask
           /\ d \notin cancelled => tasks'[d] = tasks[d]
           /\ d \in cancelled => tasks'[d].state = "Cancelled" /\ EvolvesTo(tasks[d], tasks'[d])
    BY <1>1, <1>2, CancelAllFacts DEF TypeOK, TaskFunction
<1>5. ASSUME NEW d \in Task, Exists(d), ~IsSettled(tasks[d]), IsSettled(tasks'[d]),
             NEW e \in Descendants(d)
      PROVE  ~IsLive(tasks'[e])
  <2>1. d \in cancelled
    BY <1>4, <1>5
  <2>2. e \in Task /\ Exists(e) /\ e \in Descendants(t)
    BY <1>2, <1>5, <2>1, DescendantsFacts
  <2>3. CASE e \in cancelled
    BY <1>4, <2>2, <2>3 DEF IsLive, LiveStates, WaitingStates
  <2>4. CASE e \notin cancelled
    BY <1>3, <1>4, <2>1, <2>2, <2>4 DEF LiveIn, Exists
  <2> QED BY <2>3, <2>4
<1>6. Evolution(tasks')
    BY <1>4, <1>5 DEF Evolution, EvolvesTo, Exists
<1>7. worker' \in HandleFunction /\ \A d \in Task : worker'[d] # NoWorker => Exists(d)
    BY <1>1, CancelWorkersFacts DEF TreeShape
<1> QED BY <1>1, <1>6, <1>7, HarmlessFromParts

LEMMA RequestPausesHarmless ==
    ASSUME TypeOK, TreeShape, NEW S \in SUBSET {t \in Task : HasWorker(t)}, RequestPauses(S)
    PROVE  Harmless
<1>1. ASSUME NEW d \in S
      PROVE  /\ Exists(d) /\ tasks[d] \in AgentTask
             /\ worker[d] \in WorkerHandle
    BY <1>1 DEF HasWorker, TypeOK, TreeShape, Exists
<1>2. ASSUME NEW d \in S
      PROVE  LET new == Reduce(tasks[d], Event("PauseRequested", tasks[d])).task
             IN  new \in AgentTask /\ EvolvesTo(tasks[d], new) /\ new.state = tasks[d].state
  <2>1. Event("PauseRequested", tasks[d]) \in TaskEvent
    BY <1>1, EventType DEF EventKinds, OtherEvents
  <2>2. Reduce(tasks[d], Event("PauseRequested", tasks[d])).task
          = [tasks[d] EXCEPT !.pauseRequest = TRUE]
    BY DEF Reduce, Event, PlainEvents, WaitEvents, ReduceOther, Accepted
  <2>3. [tasks[d] EXCEPT !.pauseRequest = TRUE].state = tasks[d].state
    BY <1>1 DEF AgentTask
  <2> QED BY <1>1, <2>1, <2>2, <2>3, ReduceFacts, ReduceEvolves
<1>3. /\ tasks' \in TaskFunction
      /\ \A d \in Task :
           IF d \in S THEN tasks'[d] \in AgentTask /\ EvolvesTo(tasks[d], tasks'[d])
                           /\ tasks'[d].state = tasks[d].state
                      ELSE tasks'[d] = tasks[d]
    BY <1>2 DEF RequestPauses, TypeOK, TaskFunction
<1>4. Evolution(tasks')
    BY <1>1, <1>3, NoTaskAssumption DEF Evolution, EvolvesTo, Exists, IsSettled
<1>5. ASSUME NEW d \in S PROVE [worker[d] EXCEPT !.pause = TRUE] \in WorkerHandle
    BY <1>1 DEF WorkerHandle
<1>6. worker' \in HandleFunction /\ \A d \in Task : worker'[d] # NoWorker => Exists(d)
    BY <1>1, <1>5, NoWorkerAssumption
    DEF RequestPauses, TypeOK, HandleFunction, TreeShape, HasWorker
<1>7. /\ UNCHANGED <<parent, depth>>
      /\ report' = report /\ pass' = pass /\ strays' = strays
    BY DEF RequestPauses
<1> QED BY <1>4, <1>6, <1>7, HarmlessFromParts

\* resume_task and retry_task: an event, and the handle goes.
LEMMA ReopenHarmless ==
    ASSUME TypeOK, TreeShape, NEW t \in Task, ResumeTask(t) \/ RetryTask(t)
    PROVE  Harmless
<1>1. Exists(t) /\ tasks[t] \in AgentTask
    BY DEF ResumeTask, RetryTask, TypeOK, Exists
<1>2. \A kind \in {"ResumeRequested", "RetryRequested"} :
        Evolution(Applied(t, Event(kind, tasks[t])).tasks)
    BY <1>1, EventType, AppliedFacts DEF EventKinds, OtherEvents
<1>3. Evolution(tasks')
    BY <1>2 DEF ResumeTask, RetryTask
<1>4. worker \in HandleFunction
    BY DEF TypeOK, HandleFunction
<1>5. /\ worker' = Drop(worker, {t}) /\ strays' = strays \cup Unattended(worker, {t})
      /\ UNCHANGED <<parent, depth>>
      /\ report' = report /\ pass' = pass
    BY DEF ResumeTask, RetryTask
<1>6. worker' \in HandleFunction /\ \A d \in Task : worker'[d] # NoWorker => Exists(d)
    BY <1>4, <1>5, DropFacts DEF TreeShape, HasWorker
<1>7. strays' \subseteq Task
    BY <1>4, <1>5, DropFacts DEF TypeOK
<1> QED BY <1>3, <1>5, <1>6, <1>7, HarmlessFromParts

LEMMA WatchdogHarmless ==
    ASSUME TypeOK, TreeShape, NEW t \in Task, NEW kind \in WatchdogKinds, Watchdog(t, kind)
    PROVE  Harmless
<1>1. Exists(t) /\ tasks[t] \in AgentTask
    BY DEF Watchdog, TypeOK, Exists
<1>2. Event(kind, tasks[t]) \in TaskEvent
    BY <1>1, EventType, WatchdogAssumption DEF EventKinds, PlainEvents
<1> QED BY <1>1, <1>2, EventAction DEF Watchdog

LEMMA PermissionHarmless ==
    ASSUME TypeOK, TreeShape, NEW t \in Task, NEW q \in Requests,
           \/ RequestPermission(t, q)
           \/ \E decision \in {"PermissionAllowed", "PermissionDenied"} :
                 ResolvePermission(t, q, decision)
    PROVE  Harmless
<1>1. ASSUME NEW kind \in WaitEvents, Exists(t)
      PROVE  [Event(kind, tasks[t]) EXCEPT !.request = q] \in TaskEvent
    BY <1>1 DEF Event, TaskEvent, EventKinds, TypeOK, AgentTask, Exists
<1>2. \E kind \in WaitEvents : Transition(t, [Event(kind, tasks[t]) EXCEPT !.request = q])
    BY DEF RequestPermission, ResolvePermission, WaitEvents
<1> QED BY <1>1, <1>2, TransitionHarmless

LEMMA CancelWorkerHarmless ==
    ASSUME TypeOK, TreeShape, NEW t \in Task, CancelWorker(t)
    PROVE  Harmless
<1>1. worker' \in HandleFunction /\ \A d \in Task : worker'[d] # NoWorker => Exists(d)
    BY CancelWorkersFacts DEF TreeShape, CancelWorker
<1> QED BY <1>1, NoEvolution, HarmlessFromParts DEF CancelWorker

\* An interrupted task is parked for recovery; nothing settles.
LEMMA InterruptHarmless ==
    ASSUME TypeOK, TreeShape, NEW S \in SUBSET {t \in Task : HasWorker(t)}, NEW f,
           \A d \in S : Interrupted(d).ok,
           Interrupt(S, f)
    PROVE  Harmless
<1> DEFINE ts == [d \in Task |-> IF d \in S THEN Interrupted(d).task ELSE tasks[d]]
           vs == UNION {Victims(ts, d) : d \in S}
           w  == CancelWorkers(S \cup f \cup vs)
<1>1. ASSUME NEW d \in S
      PROVE  /\ Exists(d) /\ Interrupted(d).task \in AgentTask
             /\ EvolvesTo(tasks[d], Interrupted(d).task)
             /\ Interrupted(d).task.state = "RecoveryRequired"
  <2>1. Exists(d) /\ tasks[d] \in AgentTask
    BY <1>1 DEF TypeOK, TreeShape, Exists
  <2>2. Event("RuntimeInterrupted", tasks[d]) \in TaskEvent
    BY <2>1, EventType DEF EventKinds, PlainEvents
  <2>3. Interrupted(d) = TransitionTo(tasks[d], "RecoveryRequired", NoRequest)
    BY DEF Interrupted, Reduce, Event, PlainEvents, WaitEvents, Target
  <2>4. "RecoveryRequired" \in TaskStates
    BY DEF TaskStates, TerminalStates
  <2>5. Interrupted(d).task \in AgentTask /\ EvolvesTo(tasks[d], Interrupted(d).task)
    BY <2>1, <2>2, ReduceFacts, ReduceEvolves DEF Interrupted
  <2>6. Interrupted(d).task.state = "RecoveryRequired"
    BY <2>1, <2>3, <2>4, TransitionFacts
  <2> QED BY <2>1, <2>5, <2>6
<1>2. /\ ts \in TaskFunction
      /\ \A d \in Task :
           IF d \in S THEN /\ ts[d] \in AgentTask /\ EvolvesTo(tasks[d], ts[d])
                           /\ ts[d].state = "RecoveryRequired"
                      ELSE ts[d] = tasks[d]
    BY <1>1 DEF TypeOK, TaskFunction
<1>3. Evolution(ts)
    BY <1>1, <1>2, NoTaskAssumption
    DEF Evolution, EvolvesTo, Exists, IsSettled, SettledStates
<1>4. /\ tasks' = CancelAll(ts, vs) /\ worker' = Drop(w, S)
      /\ UNCHANGED <<parent, depth>>
      /\ report' = report /\ pass' = pass /\ strays' = strays
    BY DEF Interrupt
<1> HIDE DEF ts
<1>5. vs = {}
    BY <1>2 DEF Victims, IsSettled, SettledStates
<1>6. tasks' = ts
    BY <1>2, <1>4, <1>5 DEF CancelAll, TaskFunction
<1>7. worker' \in HandleFunction /\ \A d \in Task : worker'[d] # NoWorker => Exists(d)
    BY <1>4, CancelWorkersFacts, DropFacts DEF TreeShape
<1> QED BY <1>3, <1>4, <1>6, <1>7, HarmlessFromParts

LEMMA DrainHarmless ==
    ASSUME TypeOK, TreeShape,
           \/ InterruptUnacknowledgedWorkers
           \/ \E t \in Task : InterruptWorkerForRecovery(t)
           \/ RequestSafeCheckpoints
           \/ \E t \in Task : PauseTask(t)
    PROVE  Harmless
<1>1. CASE InterruptUnacknowledgedWorkers
    BY <1>1, InterruptHarmless DEF InterruptUnacknowledgedWorkers
<1>2. ASSUME NEW t \in Task, InterruptWorkerForRecovery(t) PROVE Harmless
  <2>1. HasWorker(t)
    BY <1>2 DEF InterruptWorkerForRecovery
  <2>2. CASE Interrupted(t).ok
    <3>1. Interrupt({t}, {})
        BY <1>2, <2>2 DEF InterruptWorkerForRecovery
    <3> QED BY <2>1, <2>2, <3>1, InterruptHarmless
  <2>3. CASE ~Interrupted(t).ok
    <3>1. Interrupt({}, {t})
        BY <1>2, <2>3 DEF InterruptWorkerForRecovery
    <3> QED BY <3>1, InterruptHarmless
  <2> QED BY <2>2, <2>3
<1>3. CASE RequestSafeCheckpoints
    BY <1>3, RequestPausesHarmless DEF RequestSafeCheckpoints
<1>4. ASSUME NEW t \in Task, PauseTask(t) PROVE Harmless
    BY <1>4, RequestPausesHarmless DEF PauseTask
<1> QED BY <1>1, <1>2, <1>3, <1>4

LEMMA ForegroundHarmless ==
    ASSUME TypeOK, TreeShape, StartForegroundRoot \/ PauseForegroundTask
    PROVE  Harmless
<1>1. tasks[Root] \in AgentTask
    BY TaskAssumption DEF TypeOK, TreeShape, Exists
<1>2. /\ Event("AdmissionGranted", tasks[Root]) \in TaskEvent
      /\ Event("PauseRequested", tasks[Root]) \in TaskEvent
    BY <1>1, EventType DEF EventKinds, PlainEvents, OtherEvents
<1> QED BY <1>2, TaskAssumption, TransitionHarmless DEF StartForegroundRoot, PauseForegroundTask

LEMMA StepFacts ==
    ASSUME TypeOK, TreeShape, Next
    PROVE  Harmless \/ \E p \in Task, c \in Task : Spawn(p, c)
<1>1. ASSUME NEW t \in Task, TaskStep(t)
      PROVE  Harmless \/ \E p \in Task, c \in Task : Spawn(p, c)
    BY <1>1, StartHarmless, CancelTaskTreeHarmless, CancelWorkerHarmless, ReopenHarmless,
       WatchdogHarmless, PermissionHarmless, RecordRecoveryConflictHarmless, DrainHarmless
    DEF TaskStep
<1>2. ASSUME Reconcile PROVE Harmless
    BY <1>2, ReconcileBeginHarmless, ReconcileEventHarmless, ReconcileReturnHarmless
    DEF Reconcile
<1> QED BY <1>1, <1>2, WorkerReportHarmless, ForegroundHarmless, DrainHarmless DEF Next

-----------------------------------------------------------------------------
(* Type correctness and the shape of the tree.                             *)

LEMMA NewTaskFacts == NewTask \in AgentTask /\ NewTask # NoTask
<1>1. NewTask \in AgentTask
    BY DEF NewTask, AgentTask, TaskStates, LiveStates
<1> QED BY <1>1, NoTaskAssumption

LEMMA InitFacts ==
    ASSUME Init
    PROVE  TypeOK /\ TreeShape
<1>1. NewTask \in AgentTask /\ NewTask # NoTask
    BY NewTaskFacts
<1>2. NoPass \in Pass /\ NoPass.pending = {}
    BY DEF NoPass, Pass
<1> QED BY <1>1, <1>2, TaskAssumption DEF Init, TypeOK, TreeShape, Exists, HasWorker, MaxDepth

\* A fresh task is not in the tree: nothing is its child.
LEMMA FreshFacts ==
    ASSUME TypeOK, TreeShape, NEW p \in Task, NEW c \in Task, Spawn(p, c)
    PROVE  /\ c # Root /\ c # p /\ parent[c] = NoTask /\ ~HasWorker(c)
           /\ \A d \in Task : parent[d] # c
           /\ \A d \in Task \ {c} : tasks'[d] = tasks[d] /\ parent'[d] = parent[d]
                                      /\ depth'[d] = depth[d]
           /\ tasks'[c] = NewTask /\ parent'[c] = p /\ depth'[c] = depth[p] + 1
           /\ UNCHANGED <<worker, report, pass, strays>>
BY TaskAssumption DEF Spawn, TypeOK, TreeShape, Exists

LEMMA SpawnKeepsType ==
    ASSUME TypeOK, NEW p \in Task, NEW c \in Task, Spawn(p, c)
    PROVE  TypeOK'
<1>1. NewTask \in AgentTask
    BY NewTaskFacts
<1>2. depth[p] + 1 \in 0 .. MaxDepth
    BY DEF Spawn, TypeOK, MaxDepth
<1> QED BY <1>1, <1>2 DEF Spawn, TypeOK

LEMMA SpawnKeepsTree ==
    ASSUME TypeOK, TreeShape, NEW p \in Task, NEW c \in Task, Spawn(p, c)
    PROVE  TreeShape'
<1>1. NewTask # NoTask
    BY NewTaskFacts
<1>2. \A d \in Task : Exists(d)' <=> Exists(d) \/ d = c
    BY <1>1, FreshFacts DEF Exists
<1>3. Exists(p) /\ p # NoTask
    BY TaskAssumption DEF Spawn
<1>4. \A d \in Task : HasWorker(d)' <=> HasWorker(d)
    BY FreshFacts DEF HasWorker
<1>5. Exists(Root)' /\ parent'[Root] = NoTask /\ depth'[Root] = 0
    BY <1>2, FreshFacts, TaskAssumption DEF TreeShape
<1>6. ASSUME NEW d \in Task, parent'[d] # NoTask
      PROVE  Exists(d)' /\ (tasks'[parent'[d]] # NoTask) /\ depth'[d] = depth'[parent'[d]] + 1
  <2>1. CASE d = c
    BY <1>1, <1>2, <1>3, <2>1, FreshFacts DEF Exists
  <2>2. CASE d # c
    <3>1. parent[d] \in Task /\ parent[d] # c
        BY <1>6, <2>2, FreshFacts DEF TypeOK
    <3> QED BY <1>2, <1>6, <2>2, <3>1, FreshFacts DEF TreeShape, Exists
  <2> QED BY <2>1, <2>2
<1>7. \A d \in Task : Exists(d)' => d = Root \/ parent'[d] # NoTask
    BY <1>2, <1>3, FreshFacts DEF TreeShape
<1>8. \A d \in Task : ~Exists(d)' => ~HasWorker(d)'
    BY <1>2, <1>4 DEF TreeShape
<1>9. \A q \in pass'.pending : q[1] \in Task /\ Exists(q[1])
    BY FreshFacts DEF TreeShape, TypeOK, Pass
<1>10. \A q \in pass'.pending : Exists(q[1])'
    BY <1>2, <1>9
<1> QED BY <1>5, <1>6, <1>7, <1>8, <1>10 DEF TreeShape, Exists

LEMMA HarmlessKeepsTree ==
    ASSUME TypeOK, TreeShape, Harmless
    PROVE  TreeShape'
<1>1. \A d \in Task : Exists(d)' <=> Exists(d)
    BY DEF Harmless, Evolution, Exists
<1>2. \A q \in pass'.pending : q[1] \in Task /\ Exists(q[1])
    BY DEF Harmless, TypeOK, Pass
<1>3. \A q \in pass'.pending : Exists(q[1])'
    BY <1>1, <1>2
<1>4. \A d \in Task : parent[d] # NoTask => parent[d] \in Task
    BY DEF TypeOK
<1> QED BY <1>1, <1>3, <1>4, TaskAssumption DEF Harmless, TreeShape, HasWorker, Exists

\* TypeOK and TreeShape are inductive together: the cascade stays within the
\* tasks of the session because the tree is closed.
THEOREM TreeCorrect == Spec => [](TypeOK /\ TreeShape)
<1>1. Init => TypeOK /\ TreeShape
    BY InitFacts
<1>2. TypeOK /\ TreeShape /\ [Next]_vars => (TypeOK /\ TreeShape)'
  <2> SUFFICES ASSUME TypeOK, TreeShape, [Next]_vars PROVE TypeOK' /\ TreeShape'
    OBVIOUS
  <2>1. CASE UNCHANGED vars
    BY <2>1 DEF vars, TypeOK, TreeShape, Exists, HasWorker
  <2>2. CASE Harmless
    BY <2>2, HarmlessKeepsTree DEF Harmless
  <2>3. ASSUME NEW p \in Task, NEW c \in Task, Spawn(p, c) PROVE TypeOK' /\ TreeShape'
    BY <2>3, SpawnKeepsType, SpawnKeepsTree
  <2> QED BY <2>1, <2>2, <2>3, StepFacts
<1> QED BY <1>1, <1>2, PTL DEF Spec

\* Type correctness of the supervisor.
THEOREM TypeCorrect == Spec => []TypeOK
BY TreeCorrect, PTL

\* The task tree is closed, whatever the operations and their order.
THEOREM TreeShapeCorrect == Spec => []TreeShape
BY TreeCorrect, PTL

-----------------------------------------------------------------------------
(* What the cascade guarantees.                                            *)

\* No descendant is live in the state in which a task has just settled: the
\* cascade is part of the step, and nothing is spawned in it.
THEOREM SettlingStopsTheSubtreeCorrect == Spec => SettlingStopsTheSubtree
<1> DEFINE Stops == \A t \in Task :
                (Exists(t) /\ ~IsSettled(tasks[t]) /\ IsSettled(tasks'[t]))
                => \A d \in Descendants(t) : ~IsLive(tasks'[d])
<1>1. TypeOK /\ TreeShape /\ [Next]_vars => [Stops]_vars
  <2> SUFFICES ASSUME TypeOK, TreeShape, Next PROVE Stops
    OBVIOUS
  <2>1. CASE Harmless
    BY <2>1 DEF Harmless, Evolution
  <2>2. ASSUME NEW p \in Task, NEW c \in Task, Spawn(p, c) PROVE Stops
    BY <2>2, FreshFacts DEF Spawn
  <2> QED BY <2>1, <2>2, StepFacts
<1>2. Spec => [](TypeOK /\ TreeShape)
    BY TreeCorrect
<1>3. Spec => [][Stops]_vars
    BY <1>1, <1>2, PTL DEF Spec
<1> QED BY <1>3 DEF SettlingStopsTheSubtree

\* A terminal outcome only ever changes by a retry, which opens the next attempt.
THEOREM TerminalOutcomeIsFinalCorrect == Spec => TerminalOutcomeIsFinal
<1> DEFINE Final == \A t \in Task :
                (Exists(t) /\ IsTerminal(tasks[t]) /\ tasks'[t].state # tasks[t].state)
                => tasks'[t].state = "Queued" /\ tasks'[t].attempt = tasks[t].attempt + 1
<1>1. TypeOK /\ TreeShape /\ [Next]_vars => [Final]_vars
  <2> SUFFICES ASSUME TypeOK, TreeShape, Next PROVE Final
    OBVIOUS
  <2>1. CASE Harmless
    BY <2>1 DEF Harmless, Evolution, EvolvesTo
  <2>2. ASSUME NEW p \in Task, NEW c \in Task, Spawn(p, c) PROVE Final
    BY <2>2, FreshFacts DEF Spawn
  <2> QED BY <2>1, <2>2, StepFacts
<1>2. Spec => [](TypeOK /\ TreeShape)
    BY TreeCorrect
<1>3. Spec => [][Final]_vars
    BY <1>1, <1>2, PTL DEF Spec
<1> QED BY <1>3 DEF TerminalOutcomeIsFinal

\* The attempt of a task is closed exactly when the task is terminal, and a
\* completed task has its delivery: the part of EvidenceMatchesOutcome that is
\* about the task alone.
THEOREM OutcomesAreSound == Spec => [](\A t \in Task : Exists(t) => Sound(tasks[t]))
<1> DEFINE AllSound == \A t \in Task : Exists(t) => Sound(tasks[t])
<1>1. Init => AllSound
    BY DEF Init, Exists, Sound, NewTask, IsTerminal, TerminalStates, SettledStates
<1>2. TypeOK /\ TreeShape /\ AllSound /\ [Next]_vars => AllSound'
  <2> SUFFICES ASSUME TypeOK, TreeShape, AllSound, [Next]_vars PROVE AllSound'
    OBVIOUS
  <2>1. CASE UNCHANGED vars
    BY <2>1 DEF vars, Exists
  <2>2. CASE Harmless
    BY <2>2 DEF Harmless, Evolution, EvolvesTo, Exists
  <2>3. ASSUME NEW p \in Task, NEW c \in Task, Spawn(p, c) PROVE AllSound'
    BY <2>3, FreshFacts
    DEF Exists, Sound, NewTask, IsTerminal, TerminalStates, SettledStates
  <2> QED BY <2>1, <2>2, <2>3, StepFacts
<1>3. Spec => [](TypeOK /\ TreeShape)
    BY TreeCorrect
<1> QED BY <1>1, <1>2, <1>3, PTL DEF Spec

-----------------------------------------------------------------------------
(* The tree invariant.                                                     *)

\* An excuse for a live task below a settled one never goes away: attempts only
\* grow, and a task leaves RecoveryRequired only by a retry.
LEMMA ExcuseStays ==
    ASSUME TypeOK, Harmless, NEW u \in Task, Exists(u),
           tasks[u].attempt > 1 \/ tasks[u].state = "RecoveryRequired"
    PROVE  tasks'[u].attempt > 1 \/ tasks'[u].state = "RecoveryRequired"
<1>1. tasks[u] \in AgentTask /\ tasks[u].attempt \in Nat \ {0}
    BY DEF TypeOK, Exists, AgentTask
<1>2. EvolvesTo(tasks[u], tasks'[u])
    BY DEF Harmless, Evolution
<1> QED BY <1>1, <1>2 DEF EvolvesTo, IsTerminal, TerminalStates

LEMMA HarmlessKeepsExcuses ==
    ASSUME TypeOK, TreeShape, LiveUnderSettledWasRevived, Harmless
    PROVE  LiveUnderSettledWasRevived'
<1>1. /\ \A t \in Task : Descendants(t)' = Descendants(t)
      /\ \A x, y, z \in Task : Between(x, y, z)' <=> Between(x, y, z)
      /\ \A t \in Task : Exists(t)' <=> Exists(t)
    BY DEF Harmless, Descendants, Between, Evolution, Exists
<1> SUFFICES ASSUME NEW a \in Task, NEW d \in Task,
                    Exists(a), IsSettled(tasks'[a]),
                    Exists(d), IsLive(tasks'[d]), d \in Descendants(a)
             PROVE  \E u \in Task :
                        /\ Between(a, u, d)
                        /\ tasks'[u].attempt > 1 \/ tasks'[u].state = "RecoveryRequired"
    BY <1>1 DEF LiveUnderSettledWasRevived
<1>2. IsSettled(tasks[a])
    BY DEF Harmless, Evolution
<1>3. EvolvesTo(tasks[d], tasks'[d]) /\ tasks[d] \in AgentTask
    BY DEF Harmless, Evolution, TypeOK, Exists
<1>4. CASE IsLive(tasks[d])
  <2>1. PICK u \in Task :
            /\ Between(a, u, d)
            /\ tasks[u].attempt > 1 \/ tasks[u].state = "RecoveryRequired"
    BY <1>2, <1>4 DEF LiveUnderSettledWasRevived
  <2>2. Exists(u)
    BY <2>1, DescendantsFacts DEF Between
  <2> QED BY <2>1, <2>2, ExcuseStays
<1>5. CASE ~IsLive(tasks[d])
  <2>1. IsTerminal(tasks[d])
    BY <1>3, <1>5, LiveIsNotTerminal DEF AgentTask, IsLive, IsTerminal
  <2>2. ~IsTerminal(tasks'[d])
    BY LiveIsNotTerminal DEF IsLive, IsTerminal
  <2>3. tasks'[d].attempt > 1
    BY <1>3, <2>1, <2>2 DEF EvolvesTo, IsTerminal, AgentTask
  <2>4. Between(a, d, d)
    BY DEF Between
  <2> QED BY <2>3, <2>4
<1> QED BY <1>4, <1>5

LEMMA SpawnKeepsExcuses ==
    ASSUME TypeOK, TreeShape, LiveUnderSettledWasRevived,
           NEW p \in Task, NEW c \in Task, Spawn(p, c)
    PROVE  LiveUnderSettledWasRevived'
<1>1. ASSUME NEW t \in Task \ {c}
      PROVE  /\ Descendants(t) \subseteq Descendants(t)'
             /\ Descendants(t)' \subseteq Descendants(t) \cup {c}
  <2>1. ASSUME NEW d \in Task \ {c} PROVE d \in Descendants(t)' <=> d \in Descendants(t)
    BY <2>1, FreshFacts DEF Descendants, TypeOK
  <2>2. c \notin Descendants(t)
    BY FreshFacts, TaskAssumption DEF Descendants
  <2> QED BY <2>1, <2>2 DEF Descendants
<1>2. Descendants(c)' = {} /\ Descendants(c) = {}
    BY FreshFacts, TaskAssumption DEF Descendants, TypeOK
<1>3. \A t \in Task : c \in Descendants(t)' =>
         t = p \/ (parent[p] = t /\ p \in Descendants(t) /\ t # c /\ Exists(p))
  <2>1. Exists(p)
    BY DEF Spawn
  <2>2. ASSUME NEW t \in Task, parent'[p] = t
        PROVE  parent[p] = t /\ p \in Descendants(t) /\ t # c
    BY <2>2, FreshFacts DEF Descendants
  <2> QED BY <2>1, <2>2, FreshFacts DEF Descendants
<1>4. ASSUME NEW a \in Task \ {c}, NEW d \in Task \ {c}, NEW u \in Task, Between(a, u, d)
      PROVE  Between(a, u, d)' /\ u # c
  <2>1. u # c
    BY <1>2, <1>4, FreshFacts, TaskAssumption DEF Between, Descendants
  <2> QED BY <1>1, <1>4, <2>1 DEF Between
<1> SUFFICES ASSUME NEW a \in Task, NEW d \in Task,
                    Exists(a)', IsSettled(tasks'[a]),
                    Exists(d)', IsLive(tasks'[d]), d \in Descendants(a)'
             PROVE  \E u \in Task :
                        /\ Between(a, u, d)'
                        /\ tasks'[u].attempt > 1 \/ tasks'[u].state = "RecoveryRequired"
    BY DEF LiveUnderSettledWasRevived
<1>5. a # c
    BY <1>2
<1>6. tasks'[a] = tasks[a] /\ Exists(a)
    BY <1>5, FreshFacts DEF Exists
<1>7. CASE d # c
  <2>1. d \in Descendants(a) /\ Exists(d) /\ tasks'[d] = tasks[d]
    BY <1>1, <1>5, <1>7, FreshFacts DEF Exists
  <2>2. PICK u \in Task :
            /\ Between(a, u, d)
            /\ tasks[u].attempt > 1 \/ tasks[u].state = "RecoveryRequired"
    BY <1>6, <2>1 DEF LiveUnderSettledWasRevived
  <2> QED BY <1>4, <1>5, <1>7, <2>2, FreshFacts
<1>8. CASE d = c
  <2>1. ~IsSettled(tasks[p]) /\ tasks'[p] = tasks[p] /\ Exists(p) /\ p # c
    BY FreshFacts DEF Spawn
  <2>2. p \in Descendants(a) /\ c \in Descendants(p)'
    BY <1>3, <1>6, <1>8, <2>1, FreshFacts DEF Descendants
  <2>3. ASSUME NEW u \in Task, u = p \/ p \in Descendants(u), u \in Descendants(a)
        PROVE  u = p
    BY <1>5, <2>2, <2>3, DescendantsFacts, <1>3, <1>8 DEF Descendants
  <2>4. Between(a, p, c)'
    BY <1>1, <1>5, <1>8, <2>2 DEF Between
  <2>5. tasks[p] \in AgentTask
    BY <2>1 DEF TypeOK, Exists
  <2>6. CASE IsLive(tasks[p])
    <3>1. PICK u \in Task :
            /\ Between(a, u, p)
            /\ tasks[u].attempt > 1 \/ tasks[u].state = "RecoveryRequired"
        BY <1>6, <2>1, <2>2, <2>6 DEF LiveUnderSettledWasRevived
    <3>2. u = p
        BY <2>3, <3>1 DEF Between
    <3> QED BY <1>8, <2>1, <2>4, <3>1, <3>2
  <2>7. CASE tasks[p].state = "RecoveryRequired"
    BY <1>8, <2>1, <2>4, <2>7
  <2>8. IsLive(tasks[p]) \/ tasks[p].state = "RecoveryRequired"
    BY <2>1, <2>5, LiveIsNotTerminal DEF AgentTask, IsLive, IsSettled, TerminalStates
  <2> QED BY <2>6, <2>7, <2>8
<1> QED BY <1>7, <1>8

\* The tree invariant of settle_terminal, as far as the code keeps it: below a
\* settled task, only what was retried or waits for recovery is live, or below it.
THEOREM LiveUnderSettledWasRevivedCorrect == Spec => []LiveUnderSettledWasRevived
<1>1. Init => LiveUnderSettledWasRevived
    BY DEF Init, LiveUnderSettledWasRevived, IsSettled, NewTask, SettledStates, Exists
<1>2. TypeOK /\ TreeShape /\ LiveUnderSettledWasRevived /\ [Next]_vars
        => LiveUnderSettledWasRevived'
  <2> SUFFICES ASSUME TypeOK, TreeShape, LiveUnderSettledWasRevived, [Next]_vars
               PROVE  LiveUnderSettledWasRevived'
    OBVIOUS
  <2>1. CASE UNCHANGED vars
    BY <2>1 DEF vars, LiveUnderSettledWasRevived, Between, Descendants, Exists
  <2> QED BY <2>1, StepFacts, HarmlessKeepsExcuses, SpawnKeepsExcuses
<1>3. Spec => [](TypeOK /\ TreeShape)
    BY TreeCorrect
<1> QED BY <1>1, <1>2, <1>3, PTL DEF Spec

-----------------------------------------------------------------------------
(* What each event may make of a task.                                     *)

\* The state an accepted event leaves; a pause request leaves the one before.
Outcomes(task, kind) ==
    CASE kind \in PlainEvents                                -> {Target(kind)}
      [] kind = "PermissionRequested"                        -> {"WaitingForPermission"}
      [] kind = "ResourceUnavailable"                        -> {"WaitingForResource"}
      [] kind \in {"PermissionDenied", "WorkerDeliveredInvalid"} -> {}
      [] kind = "WorkerDelivered"                            -> {"Completed"}
      [] kind = "PauseAcknowledged"                          -> {"Paused"}
      [] kind = "PauseRequested"                             -> {task.state}
      [] OTHER                                               -> {"Queued"}

\* An accepted event leaves the task in the state the event stands for.  A
\* denied permission is never accepted: no edge leads from the wait to Blocked.
LEMMA OutcomeFacts ==
    ASSUME NEW task \in AgentTask, NEW event \in TaskEvent, Reduce(task, event).ok
    PROVE  Reduce(task, event).task.state \in Outcomes(task, event.kind)
<1> DEFINE r == Reduce(task, event)
           paused   == [task EXCEPT !.pauseRequest = TRUE]
           unpaused == [task EXCEPT !.pauseRequest = FALSE]
           handed   == [task EXCEPT !.delivered = TRUE]
<1>1. /\ NoRequest \in Requests \cup {NoRequest}
      /\ event.request \in Requests \cup {NoRequest}
      /\ event.kind \in EventKinds
    BY DEF TaskEvent
<1>2. {"Queued", "Blocked", "Completed", "Paused", "WaitingForPermission",
       "WaitingForResource"} \subseteq TaskStates
    BY DEF TaskStates, LiveStates, TerminalStates, SettledStates, WaitingStates
<1>3. r # Rejected(task)
    BY DEF Rejected
<1>4. ASSUME NEW x \in AgentTask, NEW next \in TaskStates,
             NEW w \in Requests \cup {NoRequest}, r = TransitionTo(x, next, w)
      PROVE  r.task.state = next /\ next \in Successors(x.state)
    BY <1>4, TransitionFacts
<1>5. paused \in AgentTask /\ unpaused \in AgentTask /\ handed \in AgentTask
    BY DEF AgentTask
<1>6. paused.state = task.state
    BY DEF AgentTask
<1>7. event.attempt = task.attempt
    BY <1>3 DEF Reduce
<1> HIDE DEF paused, unpaused, handed
<1>8. CASE event.kind \in PlainEvents
  <2>1. r = TransitionTo(task, Target(event.kind), NoRequest)
    BY <1>7, <1>8 DEF Reduce, PlainEvents, WaitEvents
  <2>2. Outcomes(task, event.kind) = {Target(event.kind)}
    BY <1>8 DEF Outcomes, PlainEvents
  <2> QED BY <2>1, <2>2, <1>1, <1>4, <1>8, TargetIsState
<1>9. CASE event.kind \in WaitEvents
  <2>1. r = ReduceWait(task, event.kind, event.request)
    BY <1>7, <1>9 DEF Reduce, WaitEvents, PlainEvents
  <2>2. CASE event.kind = "PermissionRequested"
    <3>1. r = TransitionTo(task, "WaitingForPermission", event.request)
        BY <2>1, <2>2 DEF ReduceWait
    <3> QED BY <2>2, <3>1, <1>1, <1>2, <1>4 DEF Outcomes, PlainEvents
  <2>3. CASE event.kind = "PermissionAllowed"
    <3>1. r = TransitionTo(task, "Queued", NoRequest)
        BY <2>1, <2>3, <1>3 DEF ReduceWait, ResolveWait
    <3> QED BY <2>3, <3>1, <1>1, <1>2, <1>4 DEF Outcomes, PlainEvents
  <2>4. CASE event.kind = "PermissionDenied"
    <3>1. r = TransitionTo(task, "Blocked", NoRequest) /\ task.state = "WaitingForPermission"
        BY <2>1, <2>4, <1>3 DEF ReduceWait, ResolveWait
    <3>2. "Blocked" \in Successors("WaitingForPermission")
        BY <3>1, <1>1, <1>2, <1>4
    <3> QED BY <3>2 DEF Successors, WaitingStates, WatchdogStates
  <2>5. CASE event.kind = "ResourceUnavailable"
    <3>1. r = TransitionTo(task, "WaitingForResource", event.request)
        BY <2>1, <2>5 DEF ReduceWait
    <3> QED BY <2>5, <3>1, <1>1, <1>2, <1>4 DEF Outcomes, PlainEvents
  <2>6. CASE event.kind = "ResourceAvailable"
    <3>1. r = TransitionTo(task, "Queued", NoRequest)
        BY <2>1, <2>6, <1>3 DEF ReduceWait, ResolveWait
    <3> QED BY <2>6, <3>1, <1>1, <1>2, <1>4 DEF Outcomes, PlainEvents
  <2> QED BY <1>9, <2>2, <2>3, <2>4, <2>5, <2>6 DEF WaitEvents
<1>10. CASE event.kind \in OtherEvents
  <2>1. r = ReduceOther(task, event.kind)
    BY <1>7, <1>10 DEF Reduce, OtherEvents, PlainEvents, WaitEvents
  <2>2. CASE event.kind = "WorkerDelivered"
    <3>1. r = TransitionTo(handed, "Completed", NoRequest)
        BY <2>1, <2>2 DEF ReduceOther, handed
    <3> QED BY <2>2, <3>1, <1>1, <1>2, <1>4, <1>5 DEF Outcomes, PlainEvents
  <2>3. CASE event.kind = "WorkerDeliveredInvalid"
    BY <2>1, <2>3, <1>3 DEF ReduceOther
  <2>4. CASE event.kind = "PauseRequested"
    <3>1. r = [ok |-> TRUE, task |-> paused]
        BY <2>1, <2>4 DEF ReduceOther, Accepted, paused
    <3> QED BY <2>4, <3>1, <1>6 DEF Outcomes, PlainEvents
  <2>5. CASE event.kind = "PauseAcknowledged"
    <3>1. r = TransitionTo(unpaused, "Paused", NoRequest)
        BY <2>1, <2>5, <1>3 DEF ReduceOther, unpaused
    <3> QED BY <2>5, <3>1, <1>1, <1>2, <1>4, <1>5 DEF Outcomes, PlainEvents
  <2>6. CASE event.kind = "ResumeRequested"
    <3>1. r = TransitionTo(unpaused, "Queued", NoRequest)
        BY <2>1, <2>6, <1>3 DEF ReduceOther, unpaused
    <3> QED BY <2>6, <3>1, <1>1, <1>2, <1>4, <1>5 DEF Outcomes, PlainEvents
  <2>7. CASE event.kind = "RetryRequested"
    <3>1. r = Accepted(StartNextAttempt(task))
        BY <2>1, <2>7, <1>3 DEF ReduceOther
    <3>2. StartNextAttempt(task).state = "Queued"
        BY StartNextAttemptFacts
    <3>3. r.task = StartNextAttempt(task)
        BY <3>1 DEF Accepted
    <3>4. r.task.state = "Queued"
        BY <3>2, <3>3
    <3> QED BY <2>7, <3>4 DEF Outcomes, PlainEvents
  <2> QED BY <1>10, <2>2, <2>3, <2>4, <2>5, <2>6, <2>7 DEF OtherEvents
<1> QED BY <1>1, <1>8, <1>9, <1>10 DEF EventKinds

\* A task the cascade takes: live before, cancelled after, in the same attempt.
Struck(d, new) ==
    IsLive(tasks[d]) /\ new.state = "Cancelled" /\ new.attempt = tasks[d].attempt

\* ts are the tasks with t replaced.
Replaces(ts, t, new) ==
    /\ ts \in TaskFunction /\ ts[t] = new
    /\ \A d \in Task \ {t} : ts[d] = tasks[d]

\* Replacing one task with a well-formed one is a replacement.
LEMMA ReplacedFacts ==
    ASSUME TypeOK, NEW t \in Task, NEW new \in AgentTask
    PROVE  Replaces([tasks EXCEPT ![t] = new], t, new)
BY DEF TypeOK, TaskFunction, Replaces

\* One task changes and the cascade takes its victims, if any; the rest stays.
LEMMA CascadeOthers ==
    ASSUME TypeOK, TreeShape, NEW t \in Task, NEW new, NEW ts, Replaces(ts, t, new),
           NEW vs, vs = {} \/ vs = Victims(ts, t)
    PROVE  /\ t \notin vs /\ CancelAll(ts, vs)[t] = new
           /\ vs \subseteq Task
           /\ vs # {} => IsSettled(new)
           /\ \A d \in Task \ {t} :
                 IF d \in vs THEN Struck(d, CancelAll(ts, vs)[d])
                             ELSE CancelAll(ts, vs)[d] = tasks[d]
<1> DEFINE n == CancelAll(ts, vs)
<1>1. /\ ts[t] = new
      /\ \A d \in Task \ {t} : ts[d] = tasks[d]
    BY DEF Replaces
<1>2. vs \subseteq LiveIn(ts, Descendants(t)) /\ (vs # {} => IsSettled(new))
    BY <1>1 DEF Victims
<1>3. t \notin vs /\ vs \subseteq Task
    BY <1>2, NotAboveItself DEF LiveIn, Descendants
<1>4. ASSUME NEW d \in vs
      PROVE  d # t /\ IsLive(tasks[d]) /\ tasks[d] \in AgentTask /\ n[d] = Cancel(tasks[d])
    BY <1>1, <1>2, <1>3, <1>4 DEF LiveIn, TypeOK, CancelAll
<1>5. \A d \in vs : Struck(d, n[d])
    BY <1>4, CancelFacts DEF Struck
<1>6. \A d \in Task \ vs : n[d] = ts[d]
    BY DEF CancelAll
<1> QED BY <1>1, <1>2, <1>3, <1>5, <1>6

\* The same for the event of an operation.
LEMMA AppliedOthers ==
    ASSUME TypeOK, TreeShape, NEW t \in Task, NEW event,
           Reduce(tasks[t], event).task \in AgentTask
    PROVE  LET a == Applied(t, event)
           IN  /\ a.tasks[t] = Reduce(tasks[t], event).task
               /\ a.ok = Reduce(tasks[t], event).ok
               /\ t \notin a.victims /\ a.victims \subseteq Task
               /\ ~a.ok => a.victims = {}
               /\ a.victims # {} => IsSettled(a.tasks[t])
               /\ \A d \in Task \ {t} :
                     IF d \in a.victims THEN Struck(d, a.tasks[d]) ELSE a.tasks[d] = tasks[d]
<1> DEFINE r  == Reduce(tasks[t], event)
           ts == [tasks EXCEPT ![t] = r.task]
           vs == IF r.ok THEN Victims(ts, t) ELSE {}
<1>1. Applied(t, event) = [ok |-> r.ok, tasks |-> CancelAll(ts, vs), victims |-> vs]
    BY DEF Applied
<1>2. (vs = {} \/ vs = Victims(ts, t)) /\ (~r.ok => vs = {})
    OBVIOUS
<1> HIDE DEF vs
<1>3. Replaces(ts, t, r.task)
    BY ReplacedFacts
<1> HIDE DEF r, ts
<1>4. /\ t \notin vs /\ CancelAll(ts, vs)[t] = r.task
      /\ vs \subseteq Task
      /\ vs # {} => IsSettled(r.task)
      /\ \A d \in Task \ {t} :
             IF d \in vs THEN Struck(d, CancelAll(ts, vs)[d])
                         ELSE CancelAll(ts, vs)[d] = tasks[d]
    BY <1>2, <1>3, CascadeOthers
<1>5. /\ Applied(t, event).ok = r.ok
      /\ Applied(t, event).tasks = CancelAll(ts, vs)
      /\ Applied(t, event).victims = vs
    BY <1>1
<1> QED BY <1>2, <1>4, <1>5 DEF r

\* What firing tokens leaves of a handle.
LEMMA TokenFacts ==
    ASSUME TypeOK, NEW S, NEW d \in Task, CancelWorkers(S)[d] # NoWorker
    PROVE  /\ HasWorker(d) /\ CancelWorkers(S)[d] \in WorkerHandle
           /\ CancelWorkers(S)[d].attempt = worker[d].attempt
           /\ CancelWorkers(S)[d].event = worker[d].event
           /\ CancelWorkers(S)[d].cancelled <=> (worker[d].cancelled \/ d \in S)
BY NoWorkerAssumption DEF CancelWorkers, HasWorker, TypeOK, WorkerHandle

-----------------------------------------------------------------------------
(* What every action but Spawn does to a task and its handle.              *)

\* A handle that stays serves the attempt it served, and a task that ends under
\* it has told it so; a new one serves the attempt that runs.
Attended(d) ==
    worker'[d] # NoWorker =>
      \/ /\ HasWorker(d)
         /\ worker'[d].attempt = worker[d].attempt
         /\ worker[d].cancelled => worker'[d].cancelled
         /\ tasks'[d].attempt = tasks[d].attempt
         /\ IsTerminal(tasks'[d]) => IsTerminal(tasks[d]) \/ worker'[d].cancelled
         /\ tasks'[d].state = "Paused" => tasks[d].state = "Paused"
      \/ worker'[d].attempt = tasks'[d].attempt /\ tasks'[d].state = "Running"

\* A report is kept for the attempt that is active, and an attempt completes
\* without changes only with its report.
Reported(d) ==
    /\ report'[d] = report[d] \/ (Exists(d) /\ report'[d] = tasks[d].attempt)
    /\ tasks'[d].state = "CompletedNoChanges" =>
          tasks[d].state = "CompletedNoChanges" \/ report'[d] = tasks[d].attempt

\* Where a task is parked for recovery, no task does anything else.
Parked ==
    \A t \in Task :
        tasks[t].state # "RecoveryRequired" /\ tasks'[t].state = "RecoveryRequired"
        => \A d \in Task : tasks'[d].state \in {tasks[d].state, "RecoveryRequired"}

\* The events of a pass were taken from the handles of their tasks.
Collected ==
    /\ pass.pending # {} => pass.active
    /\ \A p \in pass.pending : HasWorker(p[1]) => worker[p[1]].event = "Taken"

\* What the pass has to report.
Told ==
    pass.active =>
        /\ \A t \in Task : Exists(t) /\ tasks'[t].state # tasks[t].state => t \in pass'.changed
        /\ \/ pass.changed \subseteq pass'.changed
           \/ pass.pending = {}
           \/ \E p \in pass.pending : Refused(p[1], p[2])

Careful ==
    /\ \A d \in Task : (Exists(d) => Attended(d)) /\ Reported(d)
    /\ strays' = strays
    /\ Parked
    /\ Collected'
    /\ Told

Tended == TypeOK /\ TreeShape /\ WorkerServesActiveAttempt /\ Collected
-----------------------------------------------------------------------------
(* Every action but Spawn is careful.                                      *)

\* Operations that hold the mutex do not meet a pass.
LEMMA NoPassMeets ==
    ASSUME Collected, Unlocked, pass' = pass
    PROVE  Collected' /\ Told
BY DEF Collected, Unlocked, Told

\* One task is given the value `new', which ends it only with its token.
Mild(t, new, S) ==
    /\ new.attempt = tasks[t].attempt
    /\ HasWorker(t) /\ IsTerminal(new) => IsTerminal(tasks[t]) \/ t \in S
    /\ HasWorker(t) /\ new.state = "Paused" => tasks[t].state = "Paused"
    /\ new.state \in {"CompletedNoChanges", "RecoveryRequired"} => new.state = tasks[t].state

\* A task the cascade takes keeps its attempt and ends in no other way.
LEMMA StruckFacts ==
    ASSUME NEW d \in Task, Struck(d, tasks'[d])
    PROVE  /\ tasks'[d].attempt = tasks[d].attempt
           /\ tasks'[d].state \notin {"CompletedNoChanges", "RecoveryRequired", "Paused"}
BY DEF Struck

\* Such a change, its cascade, and the tokens of the tasks it takes.
LEMMA SettleCareful ==
    ASSUME Tended, Unlocked, NEW t \in Task, NEW new, NEW ts, Replaces(ts, t, new),
           NEW vs, vs = {} \/ vs = Victims(ts, t), NEW S, vs \subseteq S,
           Mild(t, new, S),
           tasks' = CancelAll(ts, vs), worker' = CancelWorkers(S),
           UNCHANGED <<report, pass, strays>>
    PROVE  Careful
<1>1. /\ tasks'[t] = new
      /\ \A d \in Task \ {t} :
             IF d \in vs THEN Struck(d, tasks'[d]) ELSE tasks'[d] = tasks[d]
    BY CascadeOthers DEF Tended
<1>2. ASSUME NEW d \in Task PROVE Attended(d)
  <2> SUFFICES ASSUME worker'[d] # NoWorker
               PROVE  /\ HasWorker(d)
                      /\ worker'[d].attempt = worker[d].attempt
                      /\ worker[d].cancelled => worker'[d].cancelled
                      /\ tasks'[d].attempt = tasks[d].attempt
                      /\ IsTerminal(tasks'[d]) => IsTerminal(tasks[d]) \/ worker'[d].cancelled
                      /\ tasks'[d].state = "Paused" => tasks[d].state = "Paused"
    BY DEF Attended
  <2>1. /\ HasWorker(d) /\ worker'[d].attempt = worker[d].attempt
        /\ worker'[d].cancelled <=> (worker[d].cancelled \/ d \in S)
    BY TokenFacts DEF Tended
  <2>2. CASE d = t
    BY <1>1, <2>1, <2>2 DEF Mild
  <2>3. CASE d # t /\ d \in vs
    BY <1>1, <2>1, <2>3, StruckFacts
  <2>4. CASE d # t /\ d \notin vs
    BY <1>1, <2>1, <2>4
  <2> QED BY <2>2, <2>3, <2>4
<1>3. ASSUME NEW d \in Task PROVE Reported(d)
    BY <1>1, StruckFacts DEF Reported, Mild
<1>4. Parked
  <2> SUFFICES ASSUME NEW d \in Task, tasks[d].state # "RecoveryRequired",
                      tasks'[d].state = "RecoveryRequired"
               PROVE  FALSE
    BY DEF Parked
  <2> QED BY <1>1, StruckFacts DEF Mild
<1>5. Collected' /\ Told
    BY NoPassMeets DEF Tended
<1> QED BY <1>2, <1>3, <1>4, <1>5 DEF Careful

\* The event of an operation that leaves its task live.
LEMMA TransitionCareful ==
    ASSUME Tended, NEW t \in Task, NEW event,
           Exists(t) => event \in TaskEvent,
           event.kind \in {"AdmissionGranted", "PauseRequested", "PermissionRequested",
                           "PermissionAllowed", "PermissionDenied"},
           Transition(t, event)
    PROVE  Careful
<1>1. /\ Unlocked /\ tasks[t] \in AgentTask /\ event \in TaskEvent
      /\ Applied(t, event).ok
      /\ tasks'  = Applied(t, event).tasks
      /\ worker' = CancelWorkers(Applied(t, event).victims)
      /\ UNCHANGED <<report, pass, strays>>
    BY DEF Transition, Tended, TypeOK, Exists
<1> DEFINE r  == Reduce(tasks[t], event)
           ts == [tasks EXCEPT ![t] = r.task]
           vs == IF r.ok THEN Victims(ts, t) ELSE {}
<1>2. Applied(t, event) = [ok |-> r.ok, tasks |-> CancelAll(ts, vs), victims |-> vs]
    BY DEF Applied
<1>3. r.ok
    BY <1>1, <1>2
<1>4. /\ r.task \in AgentTask /\ r.task.attempt = tasks[t].attempt
      /\ r.task.state \in Outcomes(tasks[t], event.kind)
    BY <1>1, <1>3, ReduceFacts, OutcomeFacts
<1>5. Outcomes(tasks[t], event.kind) \subseteq
          {tasks[t].state, "Running", "WaitingForPermission", "Queued"}
    BY DEF Outcomes, PlainEvents, Target
<1>6. vs = {} \/ vs = Victims(ts, t)
    OBVIOUS
<1>7. Replaces(ts, t, r.task)
    BY <1>4, ReplacedFacts DEF Tended
<1>8. Mild(t, r.task, vs)
    BY <1>4, <1>5 DEF Mild, IsTerminal, TerminalStates, SettledStates
<1>9. tasks' = CancelAll(ts, vs) /\ worker' = CancelWorkers(vs)
    BY <1>1, <1>2
<1> HIDE DEF r, ts, vs
<1> QED BY <1>1, <1>6, <1>7, <1>8, <1>9, SettleCareful

\* A worker starts with the attempt that runs; a factory that fails leaves no handle.
LEMMA StartCareful ==
    ASSUME Tended, NEW t \in Task, StartWorker(t) \/ StartWorkerFails(t)
    PROVE  Careful
<1> DEFINE event   == Event("AdmissionGranted", tasks[t])
           running == Reduce(tasks[t], event).task
<1>1. /\ Unlocked /\ tasks[t] \in AgentTask /\ ~HasWorker(t)
      /\ UNCHANGED <<report, pass, strays>>
      /\ Applied(t, event).ok
    BY DEF StartWorker, StartWorkerFails, Admitted, Tended, TypeOK, Exists
<1>2. event \in TaskEvent /\ event.kind = "AdmissionGranted"
    BY <1>1, EventType DEF EventKinds, PlainEvents
<1>3. running \in AgentTask /\ running.attempt = tasks[t].attempt
    BY <1>1, <1>2, ReduceFacts
<1>4. LET a == Applied(t, event)
      IN  /\ a.tasks[t] = running
          /\ a.ok = Reduce(tasks[t], event).ok
          /\ a.victims # {} => IsSettled(a.tasks[t])
          /\ \A d \in Task \ {t} :
                IF d \in a.victims THEN Struck(d, a.tasks[d]) ELSE a.tasks[d] = tasks[d]
    BY <1>3, AppliedOthers DEF Tended
<1>5. Outcomes(tasks[t], event.kind) = {"Running"}
    BY <1>2 DEF Outcomes, PlainEvents, Target
<1>6. running.state = "Running"
    BY <1>1, <1>2, <1>4, <1>5, OutcomeFacts
<1> HIDE DEF event, running
<1>7. CASE StartWorker(t)
  <2>1. /\ tasks' = Applied(t, event).tasks
        /\ worker' = [worker EXCEPT ![t] =
                        [attempt |-> tasks[t].attempt, cancelled |-> FALSE,
                         pause |-> FALSE, event |-> "Pending"]]
    BY <1>7 DEF StartWorker, event
  <2>2. Applied(t, event).victims = {}
    BY <1>4, <1>6 DEF IsSettled, SettledStates
  <2>3. tasks'[t] = running /\ \A d \in Task \ {t} : tasks'[d] = tasks[d]
    BY <1>4, <2>1, <2>2
  <2>4. worker'[t].attempt = tasks[t].attempt /\ \A d \in Task \ {t} : worker'[d] = worker[d]
    BY <2>1 DEF Tended, TypeOK
  <2>5. \A d \in Task : Attended(d)
    BY <1>3, <1>6, <2>3, <2>4 DEF Attended, HasWorker
  <2>6. \A d \in Task : Reported(d)
    BY <1>1, <1>6, <2>3 DEF Reported
  <2>7. Parked
    BY <1>6, <2>3 DEF Parked
  <2> QED BY <1>1, <2>5, <2>6, <2>7, NoPassMeets DEF Careful, Tended
<1>8. CASE StartWorkerFails(t)
  <2> DEFINE failed == Reduce(running, Event("WorkerFailed", running)).task
             ts     == [tasks EXCEPT ![t] = failed]
             vs     == Victims(ts, t)
  <2>1. tasks' = CancelAll(ts, vs) /\ worker' = CancelWorkers(vs)
    BY <1>8 DEF StartWorkerFails, running, event
  <2>2. /\ Event("WorkerFailed", running) \in TaskEvent
        /\ Event("WorkerFailed", running).kind = "WorkerFailed"
    BY <1>3, EventType DEF EventKinds, PlainEvents
  <2>3. failed \in AgentTask /\ failed.attempt = tasks[t].attempt
    BY <1>3, <2>2, ReduceFacts
  <2>4. failed.state \in {"Running", "Failed"}
    <3>1. CASE Reduce(running, Event("WorkerFailed", running)).ok
        <4>1. Outcomes(running, Event("WorkerFailed", running).kind) = {"Failed"}
            BY <2>2 DEF Outcomes, PlainEvents, Target
        <4> QED BY <1>3, <2>2, <3>1, <4>1, OutcomeFacts
    <3>2. CASE ~Reduce(running, Event("WorkerFailed", running)).ok
        BY <1>3, <1>6, <2>2, <3>2, ReduceFacts
    <3> QED BY <3>1, <3>2
  <2> HIDE DEF failed
  <2>5. Mild(t, failed, vs)
    BY <1>1, <2>3, <2>4 DEF Mild
  <2>6. Replaces(ts, t, failed) /\ vs = Victims(ts, t)
    BY <2>3, ReplacedFacts DEF Tended
  <2> HIDE DEF ts, vs
  <2> QED BY <1>1, <2>1, <2>5, <2>6, SettleCareful
<1> QED BY <1>7, <1>8

\* A watchdog fires the token of the task it ends, also when it is refused.
LEMMA WatchdogCareful ==
    ASSUME Tended, NEW t \in Task, NEW kind \in WatchdogKinds, Watchdog(t, kind)
    PROVE  Careful
<1> DEFINE event == Event(kind, tasks[t])
           r  == Reduce(tasks[t], event)
           ts == [tasks EXCEPT ![t] = r.task]
           vs == IF r.ok THEN Victims(ts, t) ELSE {}
<1>1. /\ Unlocked /\ tasks[t] \in AgentTask
      /\ UNCHANGED <<report, pass, strays>>
      /\ tasks' = Applied(t, event).tasks
      /\ worker' = CancelWorkers({t} \cup Applied(t, event).victims)
    BY DEF Watchdog, Tended, TypeOK, Exists
<1>2. event \in TaskEvent /\ event.kind = kind
    BY <1>1, EventType, WatchdogAssumption DEF EventKinds, PlainEvents
<1>3. Applied(t, event) = [ok |-> r.ok, tasks |-> CancelAll(ts, vs), victims |-> vs]
    BY DEF Applied
<1>4. tasks' = CancelAll(ts, vs) /\ worker' = CancelWorkers({t} \cup vs)
    BY <1>1, <1>3
<1>5. vs = {} \/ vs = Victims(ts, t)
    OBVIOUS
<1>6. r.task \in AgentTask /\ r.task.attempt = tasks[t].attempt
    BY <1>1, <1>2, WatchdogAssumption, ReduceFacts
<1>7. r.task.state \in {tasks[t].state, "Stalled", "TimedOut", "BudgetExhausted"}
  <2>1. Outcomes(tasks[t], event.kind) \subseteq {"Stalled", "TimedOut", "BudgetExhausted"}
    BY <1>2, WatchdogAssumption DEF Outcomes, PlainEvents, Target
  <2> QED BY <1>1, <1>2, <2>1, OutcomeFacts, ReduceFacts
<1>8. Replaces(ts, t, r.task)
    BY <1>6, ReplacedFacts DEF Tended
<1>9. Mild(t, r.task, {t} \cup vs)
    BY <1>6, <1>7 DEF Mild
<1> HIDE DEF r, ts, vs
<1> QED BY <1>1, <1>4, <1>5, <1>8, <1>9, SettleCareful

\* record_recovery_conflict blocks a task that owns no worker.
LEMMA ConflictCareful ==
    ASSUME Tended, NEW t \in Task, RecordRecoveryConflict(t)
    PROVE  Careful
<1> DEFINE admitted == IF tasks[t].state = "Queued"
                       THEN Reduce(tasks[t], Event("AdmissionGranted", tasks[t])).task
                       ELSE tasks[t]
           conflict == Event("RecoveryConflict", admitted)
           r  == Reduce(admitted, conflict)
           ts == [tasks EXCEPT ![t] = r.task]
           vs == Victims(ts, t)
<1>1. /\ Unlocked /\ tasks[t] \in AgentTask /\ ~HasWorker(t) /\ r.ok
      /\ UNCHANGED <<report, pass, strays>>
      /\ tasks' = CancelAll(ts, vs) /\ worker' = CancelWorkers(vs)
    BY DEF RecordRecoveryConflict, Tended, TypeOK, Exists
<1>2. admitted \in AgentTask /\ admitted.attempt = tasks[t].attempt
  <2>1. /\ Event("AdmissionGranted", tasks[t]) \in TaskEvent
        /\ Event("AdmissionGranted", tasks[t]).kind = "AdmissionGranted"
    BY <1>1, EventType DEF EventKinds, PlainEvents
  <2> QED BY <1>1, <2>1, ReduceFacts
<1> HIDE DEF admitted
<1>3. conflict \in TaskEvent /\ conflict.kind = "RecoveryConflict"
    BY <1>2, EventType DEF EventKinds, PlainEvents
<1>4. Outcomes(admitted, conflict.kind) = {"Blocked"}
    BY <1>3 DEF Outcomes, PlainEvents, Target
<1>5. r.task \in AgentTask /\ r.task.attempt = tasks[t].attempt /\ r.task.state = "Blocked"
    BY <1>1, <1>2, <1>3, <1>4, ReduceFacts, OutcomeFacts
<1>6. Replaces(ts, t, r.task) /\ vs = Victims(ts, t)
    BY <1>5, ReplacedFacts DEF Tended
<1>7. Mild(t, r.task, vs)
    BY <1>1, <1>5 DEF Mild
<1> HIDE DEF r, ts, vs
<1> QED BY <1>1, <1>6, <1>7, SettleCareful

\* resume_task and retry_task drop a handle only when its thread is done: a
\* paused task has none, and a finished one was told to stop.
LEMMA ReopenCareful ==
    ASSUME Tended, NEW t \in Task, ResumeTask(t) \/ RetryTask(t)
    PROVE  Careful
<1> DEFINE event == Event(IF ResumeTask(t) THEN "ResumeRequested" ELSE "RetryRequested",
                          tasks[t])
           r == Reduce(tasks[t], event)
<1>1. /\ Unlocked /\ tasks[t] \in AgentTask
      /\ UNCHANGED <<report, pass>>
      /\ tasks' = Applied(t, event).tasks
      /\ worker' = Drop(worker, {t}) /\ strays' = strays \cup Unattended(worker, {t})
      /\ ResumeTask(t) => Applied(t, event).ok
      /\ ~ResumeTask(t) => IsTerminal(tasks[t])
    BY DEF ResumeTask, RetryTask, Tended, TypeOK, Exists
<1>2. /\ event \in TaskEvent /\ event.attempt = tasks[t].attempt
      /\ event.kind = IF ResumeTask(t) THEN "ResumeRequested" ELSE "RetryRequested"
    BY <1>1, EventType DEF EventKinds, OtherEvents, Event
<1>3. r.task \in AgentTask
    BY <1>1, <1>2, ReduceFacts
<1>4. LET a == Applied(t, event)
      IN  /\ a.tasks[t] = r.task
          /\ a.ok = r.ok
          /\ a.victims # {} => IsSettled(a.tasks[t])
          /\ ~a.ok => a.victims = {}
          /\ \A d \in Task \ {t} :
                IF d \in a.victims THEN Struck(d, a.tasks[d]) ELSE a.tasks[d] = tasks[d]
    BY <1>3, AppliedOthers DEF Tended
<1>5. r.ok => r.task.state = "Queued"
  <2>1. Outcomes(tasks[t], event.kind) = {"Queued"}
    BY <1>2 DEF Outcomes, PlainEvents
  <2> QED BY <1>1, <1>2, <2>1, OutcomeFacts
<1>6. HasWorker(t) => worker[t].cancelled
  <2>1. CASE ResumeTask(t)
    <3>1. r = ReduceOther(tasks[t], "ResumeRequested")
        BY <1>2, <2>1 DEF Reduce, PlainEvents, WaitEvents
    <3>2. tasks[t].state = "Paused"
        BY <1>1, <1>4, <2>1, <3>1 DEF ReduceOther, Rejected
    <3> QED BY <3>2 DEF Tended, WorkerServesActiveAttempt
  <2>2. CASE ~ResumeTask(t)
    BY <1>1, <2>2 DEF Tended, WorkerServesActiveAttempt
  <2> QED BY <2>1, <2>2
<1>7. strays' = strays
    BY <1>1, <1>6 DEF Unattended, HasWorker
<1>8. Applied(t, event).victims = {}
    BY <1>1, <1>4, <1>5 DEF IsSettled, SettledStates
<1>9. /\ tasks'[t] = r.task /\ (r.task.state = "Queued" \/ r.task.state = tasks[t].state)
      /\ \A d \in Task \ {t} : tasks'[d] = tasks[d]
    BY <1>1, <1>2, <1>4, <1>5, <1>8, ReduceFacts
<1>10. /\ worker'[t] = NoWorker
       /\ \A d \in Task \ {t} : worker'[d] = worker[d]
    BY <1>1 DEF Drop
<1> HIDE DEF event, r
<1>11. \A d \in Task : Attended(d)
    BY <1>9, <1>10 DEF Attended, HasWorker
<1>12. \A d \in Task : Reported(d)
    BY <1>1, <1>9 DEF Reported
<1>13. Parked
    BY <1>9 DEF Parked
<1> QED BY <1>1, <1>7, <1>11, <1>12, <1>13, NoPassMeets DEF Careful, Tended

\* Steps that leave every task in its state and attempt, and every handle in
\* its attempt.
Still ==
    /\ \A d \in Task :
        /\ tasks'[d].state = tasks[d].state /\ tasks'[d].attempt = tasks[d].attempt
        /\ worker'[d] # NoWorker =>
              /\ HasWorker(d) /\ worker'[d].attempt = worker[d].attempt
              /\ worker[d].cancelled => worker'[d].cancelled
    /\ UNCHANGED <<report, strays>>

\* A step that leaves every task and handle in its attempt is careful.
LEMMA StillCareful ==
    ASSUME Still, Collected', Told
    PROVE  Careful
<1>1. \A d \in Task : Attended(d)
    BY DEF Still, Attended, IsTerminal
<1>2. \A d \in Task : Reported(d)
    BY DEF Still, Reported
<1>3. Parked
    BY DEF Still, Parked
<1> QED BY <1>1, <1>2, <1>3 DEF Still, Careful

\* A worker posts to its handle; the task does not move.
LEMMA WorkerReportCareful ==
    ASSUME Tended, NEW t \in Task, NEW e \in WorkerReports, WorkerReport(t, e)
    PROVE  Careful
<1>1. /\ HasWorker(t) /\ worker[t] \in WorkerHandle /\ worker[t].event = "Pending"
      /\ UNCHANGED <<tasks, report, pass, strays>>
      /\ worker' = [worker EXCEPT ![t].event = e]
    BY DEF WorkerReport, HasWorker, Tended, TypeOK
<1>2. /\ worker'[t].attempt = worker[t].attempt /\ worker'[t].cancelled = worker[t].cancelled
      /\ \A d \in Task \ {t} : worker'[d] = worker[d]
    BY <1>1 DEF Tended, TypeOK, WorkerHandle
<1>3. Still
    BY <1>1, <1>2 DEF Still, HasWorker
<1>4. \A p \in pass.pending : p[1] \in Task
    BY DEF Tended, TypeOK, Pass
<1>5. Collected'
    BY <1>1, <1>2, <1>4 DEF Tended, Collected, HasWorker
<1>6. Told
    BY <1>1 DEF Told
<1> QED BY <1>3, <1>5, <1>6, StillCareful

\* A pass takes the events of every handle before it applies the first.
LEMMA ReconcileBeginCareful ==
    ASSUME Tended, ReconcileBegin
    PROVE  Careful
<1>1. /\ Unlocked /\ UNCHANGED <<tasks, report, strays>>
      /\ pass' = [active  |-> TRUE,
                  pending |-> {<<t, worker[t].event>> : t \in Posted},
                  changed |-> {}]
      /\ worker' = [t \in Task |-> IF t \in Posted
                                   THEN [worker[t] EXCEPT !.event = "Taken"]
                                   ELSE worker[t]]
    BY DEF ReconcileBegin
<1>2. ASSUME NEW d \in Posted
      PROVE  /\ d \in Task /\ HasWorker(d) /\ worker'[d].event = "Taken"
             /\ worker'[d].attempt = worker[d].attempt
             /\ worker'[d].cancelled = worker[d].cancelled
    BY <1>1, <1>2 DEF Posted, HasWorker, Tended, TypeOK, WorkerHandle
<1>3. \A d \in Task \ Posted : worker'[d] = worker[d]
    BY <1>1
<1>4. Still
    BY <1>1, <1>2, <1>3 DEF Still, HasWorker
<1>5. \A p \in pass'.pending : p[1] \in Posted
    BY <1>1
<1>6. Collected'
    BY <1>1, <1>2, <1>5 DEF Collected, HasWorker
<1>7. Told
    BY <1>1 DEF Told, Unlocked
<1> QED BY <1>4, <1>6, <1>7, StillCareful

\* A worker's event ends its attempt or pauses it; only a completion without
\* changes leaves its task completed without changes.
LEMMA ReportedOutcomes ==
    ASSUME NEW task \in AgentTask, NEW e \in FinalEvents
    PROVE  /\ Outcomes(task, TaskEventOf(e))
                \subseteq {"Completed", "CompletedNoChanges", "BudgetExhausted", "Paused",
                           "Cancelled", "Blocked", "Failed"}
           /\ e # "Completed" => "CompletedNoChanges" \notin Outcomes(task, TaskEventOf(e))
           /\ TaskEventOf(e) # "RetryRequested"
<1>1. TaskEventOf(e) \in {"WorkerDelivered", "WorkerDeliveredInvalid",
                          "WorkerCompletedNoChanges", "WorkerBudgetExhausted",
                          "PauseAcknowledged", "CancelRequested", "RecoveryConflict",
                          "WorkerFailed"}
    BY DEF TaskEventOf
<1>2. e # "Completed" => TaskEventOf(e) # "WorkerCompletedNoChanges"
    BY DEF TaskEventOf
<1> QED BY <1>1, <1>2 DEF Outcomes, PlainEvents, Target

\* What the events of a pass have in common.
LEMMA PassFacts ==
    ASSUME Tended, NEW t \in Task, NEW e \in FinalEvents, <<t, e>> \in pass.pending
    PROVE  /\ tasks[t] \in AgentTask
           /\ Event(TaskEventOf(e), tasks[t]) \in TaskEvent
           /\ Event(TaskEventOf(e), tasks[t]).kind = TaskEventOf(e)
           /\ Reduce(tasks[t], Event(TaskEventOf(e), tasks[t])).task \in AgentTask
           /\ HasWorker(t) => worker[t].event = "Taken"
<1>1. tasks[t] \in AgentTask
    BY PendingFacts DEF Tended
<1>2. Event(TaskEventOf(e), tasks[t]) \in TaskEvent
    BY <1>1, ReportedEvent
<1>3. HasWorker(<<t, e>>[1]) => worker[<<t, e>>[1]].event = "Taken"
    BY DEF Tended, Collected
<1> QED BY <1>1, <1>2, <1>3, ReduceFacts DEF Event

\* An applied event ends or pauses its task, and exactly the handles of the tasks
\* it moved go: the one it came from, and those whose tokens the cascade fired.
LEMMA ReconcileApplyCareful ==
    ASSUME Tended, NEW t \in Task, NEW e \in FinalEvents, ReconcileApply(t, e)
    PROVE  Careful
<1> DEFINE event == Event(TaskEventOf(e), tasks[t])
           r     == Reduce(tasks[t], event)
           a     == Applied(t, event)
           w     == CancelWorkers(a.victims)
           moved == Moved(t, a)
<1>1. /\ <<t, e>> \in pass.pending
      /\ ~IsTerminal(tasks[t]) /\ a.ok
      /\ tasks' = a.tasks
      /\ report' = IF e \in {"Completed", "BudgetExhausted"}
                   THEN [report EXCEPT ![t] = tasks[t].attempt]
                   ELSE report
      /\ worker' = Drop(w, moved)
      /\ strays' = strays \cup Unattended(w, moved)
      /\ pass' = [pass EXCEPT !.pending = @ \ {<<t, e>>}, !.changed = @ \cup moved]
    BY DEF ReconcileApply
<1>2. /\ tasks[t] \in AgentTask /\ event \in TaskEvent /\ event.kind = TaskEventOf(e)
      /\ r.task \in AgentTask
      /\ HasWorker(t) => worker[t].event = "Taken"
    BY <1>1, PassFacts
<1>3. /\ a.tasks[t] = r.task /\ a.ok = r.ok
      /\ t \notin a.victims /\ a.victims \subseteq Task
      /\ \A d \in Task \ {t} :
            IF d \in a.victims THEN Struck(d, a.tasks[d]) ELSE a.tasks[d] = tasks[d]
    BY <1>2, AppliedOthers DEF Tended
<1>4. r.task.state \in Outcomes(tasks[t], TaskEventOf(e))
    BY <1>1, <1>2, <1>3, OutcomeFacts
<1>5. /\ r.task.state \in {"Completed", "CompletedNoChanges", "BudgetExhausted", "Paused",
                           "Cancelled", "Blocked", "Failed"}
      /\ e # "Completed" => r.task.state # "CompletedNoChanges"
    BY <1>2, <1>4, ReportedOutcomes
<1> HIDE DEF event, r, a
<1>6. moved = {t} \cup a.victims
    BY <1>3, <1>5 DEF Moved, IsTerminal, TerminalStates, SettledStates, Struck
<1>7. /\ \A d \in moved : worker'[d] = NoWorker
      /\ \A d \in Task \ moved : worker'[d] = worker[d]
    BY <1>1, <1>3, <1>6 DEF Drop, CancelWorkers
<1>8. strays' = strays
  <2>1. ASSUME NEW d \in moved, w[d] # NoWorker
        PROVE  w[d].event # "Pending" \/ w[d].cancelled
    <3>1. d \in Task
        BY <1>3, <1>6
    <3>2. CASE d = t
        BY <1>2, <2>1, <3>1, <3>2, TokenFacts DEF Tended
    <3>3. CASE d \in a.victims
        BY <2>1, <3>1, <3>3, TokenFacts DEF Tended
    <3> QED BY <1>6, <3>2, <3>3
  <2> QED BY <1>1, <2>1 DEF Unattended
<1>9. \A d \in Task \ moved : tasks'[d] = tasks[d]
    BY <1>1, <1>3, <1>6
<1>10. \A d \in Task : Attended(d)
    BY <1>7, <1>9 DEF Attended, HasWorker
<1>11. ASSUME NEW d \in Task PROVE Reported(d)
  <2>1. CASE d = t
    <3>1. report'[t] = report[t] \/ (Exists(t) /\ report'[t] = tasks[t].attempt)
        BY <1>1, <1>2, NoTaskAssumption DEF Tended, TypeOK, Exists
    <3>2. e = "Completed" => report'[t] = tasks[t].attempt
        BY <1>1 DEF Tended, TypeOK
    <3> QED BY <1>1, <1>3, <1>5, <2>1, <3>1, <3>2 DEF Reported
  <2>2. CASE d # t
    <3>1. report'[d] = report[d]
        BY <1>1, <2>2 DEF Tended, TypeOK
    <3>2. tasks'[d].state = "CompletedNoChanges" => tasks[d].state = "CompletedNoChanges"
        BY <1>1, <1>3, <2>2, StruckFacts
    <3> QED BY <3>1, <3>2 DEF Reported
  <2> QED BY <2>1, <2>2
<1>12. Parked
  <2> SUFFICES ASSUME NEW d \in Task, tasks[d].state # "RecoveryRequired",
                      tasks'[d].state = "RecoveryRequired"
               PROVE  FALSE
    BY DEF Parked
  <2> QED BY <1>1, <1>3, <1>5, StruckFacts
<1> HIDE DEF moved, w
<1>13. /\ pass'.pending = pass.pending \ {<<t, e>>}
       /\ pass'.changed = pass.changed \cup moved
       /\ pass'.active = pass.active
       /\ \A p \in pass.pending : p[1] \in Task
    BY <1>1 DEF Tended, TypeOK, Pass
<1>14. Collected'
    BY <1>7, <1>13 DEF Collected, HasWorker, Tended
<1>15. Told
    BY <1>9, <1>13 DEF Told
<1> QED BY <1>8, <1>10, <1>11, <1>12, <1>14, <1>15 DEF Careful

\* A skipped or refused event, and the end of a pass, move no task.
LEMMA ReconcileRestCareful ==
    ASSUME Tended,
           \/ ReconcileReturn
           \/ \E t \in Task, e \in FinalEvents : ReconcileSkip(t, e) \/ ReconcileAbort(t, e)
    PROVE  Careful
<1>1. \A p \in pass.pending : p[1] \in Task
    BY DEF Tended, TypeOK, Pass
<1>2. NoPass.pending = {} /\ NoPass.active = FALSE
    BY DEF NoPass
<1>3. CASE ReconcileReturn
  <2>1. UNCHANGED <<tasks, worker, report, strays>> /\ pass' = NoPass /\ pass.pending = {}
    BY <1>3 DEF ReconcileReturn
  <2>2. Still
    BY <2>1 DEF Still, HasWorker
  <2>3. Collected' /\ Told
    BY <1>2, <2>1 DEF Collected, Told
  <2> QED BY <2>2, <2>3, StillCareful
<1>4. ASSUME NEW t \in Task, NEW e \in FinalEvents, ReconcileSkip(t, e) PROVE Careful
  <2>1. /\ UNCHANGED <<tasks, worker, report, strays>>
        /\ pass' = [pass EXCEPT !.pending = @ \ {<<t, e>>}]
    BY <1>4 DEF ReconcileSkip
  <2>2. Still
    BY <2>1 DEF Still, HasWorker
  <2>3. /\ pass'.pending \subseteq pass.pending /\ pass'.active = pass.active
        /\ pass'.changed = pass.changed
    BY <2>1 DEF Tended, TypeOK, Pass
  <2>4. Collected' /\ Told
    BY <1>1, <2>1, <2>3 DEF Tended, Collected, Told, HasWorker
  <2> QED BY <2>2, <2>4, StillCareful
<1>5. ASSUME NEW t \in Task, NEW e \in FinalEvents, ReconcileAbort(t, e) PROVE Careful
  <2> DEFINE event == Event(TaskEventOf(e), tasks[t])
             a     == Applied(t, event)
  <2>1. /\ <<t, e>> \in pass.pending
        /\ tasks' = tasks \/ (tasks' = a.tasks /\ ~a.ok)
        /\ pass' = NoPass
        /\ UNCHANGED <<worker, report, strays>>
    BY <1>5 DEF ReconcileAbort
  <2>2. /\ tasks[t] \in AgentTask /\ event \in TaskEvent /\ event.kind = TaskEventOf(e)
        /\ Reduce(tasks[t], event).task \in AgentTask
    BY <2>1, PassFacts
  <2>3. event.kind # "RetryRequested"
    BY <2>2, ReportedOutcomes
  <2>4. /\ Reduce(tasks[t], event).task.attempt = tasks[t].attempt
        /\ ~Reduce(tasks[t], event).ok =>
              Reduce(tasks[t], event).task.state = tasks[t].state
    BY <2>2, <2>3, ReduceFacts
  <2>5. /\ a.tasks[t] = Reduce(tasks[t], event).task /\ a.ok = Reduce(tasks[t], event).ok
        /\ ~a.ok => a.victims = {}
        /\ \A d \in Task \ {t} :
            IF d \in a.victims THEN Struck(d, a.tasks[d]) ELSE a.tasks[d] = tasks[d]
    BY <2>2, AppliedOthers DEF Tended
  <2> HIDE DEF event, a
  <2>6. \A d \in Task : tasks'[d].state = tasks[d].state /\ tasks'[d].attempt = tasks[d].attempt
    BY <2>1, <2>4, <2>5
  <2>7. Still
    BY <2>1, <2>6 DEF Still, HasWorker
  <2>8. Refused(t, e)
    BY <1>5 DEF ReconcileAbort, Refused
  <2>9. \E p \in pass.pending : Refused(p[1], p[2])
    <3>1. Refused(<<t, e>>[1], <<t, e>>[2])
        BY <2>8
    <3> QED BY <2>1, <3>1
  <2>10. Collected' /\ Told
    BY <1>2, <2>1, <2>6, <2>9 DEF Collected, Told
  <2> QED BY <2>7, <2>10, StillCareful
<1> QED BY <1>3, <1>4, <1>5

\* cancel_task_tree fires the token of every task it cancels.
LEMMA CancelCareful ==
    ASSUME Tended, NEW t \in Task,
           CancelWorker(t) \/ \E recursive \in BOOLEAN : CancelTaskTree(t, recursive)
    PROVE  Careful
<1>1. CASE CancelWorker(t)
  <2>1. /\ Unlocked /\ UNCHANGED <<tasks, report, pass, strays>>
        /\ worker' = CancelWorkers({t})
    BY <1>1 DEF CancelWorker
  <2>2. Still
    BY <2>1, TokenFacts DEF Still, Tended
  <2> QED BY <2>1, <2>2, NoPassMeets, StillCareful DEF Tended
<1>2. ASSUME NEW recursive \in BOOLEAN, CancelTaskTree(t, recursive) PROVE Careful
  <2> DEFINE targets   == {t} \cup (IF recursive THEN Descendants(t) ELSE {})
             cancelled == LiveIn(tasks, targets)
                            \cup (IF IsLive(tasks[t]) THEN LiveIn(tasks, Descendants(t)) ELSE {})
  <2>1. /\ Unlocked /\ UNCHANGED <<report, pass, strays>>
        /\ tasks' = CancelAll(tasks, cancelled)
        /\ worker' = CancelWorkers(targets \cup cancelled)
    BY <1>2 DEF CancelTaskTree
  <2>2. cancelled \subseteq LiveIn(tasks, Task)
    BY DEF LiveIn, Descendants
  <2> HIDE DEF targets, cancelled
  <2>3. ASSUME NEW d \in cancelled PROVE d \in Task /\ Struck(d, tasks'[d])
    <3>1. d \in Task /\ tasks[d] \in AgentTask /\ IsLive(tasks[d])
        BY <2>2, <2>3 DEF LiveIn, Tended, TypeOK
    <3>2. tasks'[d] = Cancel(tasks[d])
        BY <2>1, <2>3, <3>1 DEF CancelAll
    <3> QED BY <3>1, <3>2, CancelFacts DEF Struck
  <2>4. \A d \in Task \ cancelled : tasks'[d] = tasks[d]
    BY <2>1 DEF CancelAll
  <2>5. ASSUME NEW d \in Task, worker'[d] # NoWorker
        PROVE  /\ HasWorker(d) /\ worker'[d].attempt = worker[d].attempt
               /\ worker[d].cancelled => worker'[d].cancelled
               /\ d \in cancelled => worker'[d].cancelled
    BY <2>1, <2>5, TokenFacts DEF Tended
  <2>6. ASSUME NEW d \in Task PROVE Attended(d)
    <3>1. CASE d \in cancelled
        BY <2>3, <2>5, <3>1, StruckFacts DEF Attended
    <3>2. CASE d \notin cancelled
        BY <2>4, <2>5, <3>2 DEF Attended
    <3> QED BY <3>1, <3>2
  <2>7. ASSUME NEW d \in Task PROVE Reported(d)
    BY <2>1, <2>3, <2>4, StruckFacts DEF Reported
  <2>8. Parked
    <3> SUFFICES ASSUME NEW d \in Task, tasks[d].state # "RecoveryRequired",
                        tasks'[d].state = "RecoveryRequired"
                 PROVE  FALSE
        BY DEF Parked
    <3> QED BY <2>3, <2>4, StruckFacts
  <2> QED BY <2>1, <2>6, <2>7, <2>8, NoPassMeets DEF Careful, Tended
<1> QED BY <1>1, <1>2

\* A pause request moves no task.
LEMMA RequestPausesCareful ==
    ASSUME Tended, Unlocked, NEW S \in SUBSET {t \in Task : HasWorker(t)}, RequestPauses(S)
    PROVE  Careful
<1>1. ASSUME NEW d \in S
      PROVE  d \in Task /\ HasWorker(d) /\ tasks[d] \in AgentTask /\ worker[d] \in WorkerHandle
    BY <1>1 DEF HasWorker, Tended, TypeOK, TreeShape, Exists
<1>2. ASSUME NEW d \in S
      PROVE  /\ tasks'[d].state = tasks[d].state /\ tasks'[d].attempt = tasks[d].attempt
             /\ worker'[d].attempt = worker[d].attempt
             /\ worker'[d].cancelled = worker[d].cancelled
  <2>1. Reduce(tasks[d], Event("PauseRequested", tasks[d])).task
          = [tasks[d] EXCEPT !.pauseRequest = TRUE]
    BY DEF Reduce, Event, PlainEvents, WaitEvents, ReduceOther, Accepted
  <2>2. /\ tasks'[d] = [tasks[d] EXCEPT !.pauseRequest = TRUE]
        /\ worker'[d] = [worker[d] EXCEPT !.pause = TRUE]
    BY <1>1, <1>2, <2>1 DEF RequestPauses
  <2> QED BY <1>1, <1>2, <2>2 DEF AgentTask, WorkerHandle
<1>3. /\ UNCHANGED <<report, pass, strays>>
      /\ \A d \in Task \ S : tasks'[d] = tasks[d] /\ worker'[d] = worker[d]
    BY DEF RequestPauses
<1>4. Still
    BY <1>1, <1>2, <1>3 DEF Still, HasWorker
<1> QED BY <1>3, <1>4, NoPassMeets, StillCareful DEF Tended

\* An interruption parks the tasks whose handles it drops, and nothing else.
LEMMA InterruptCareful ==
    ASSUME Tended, Unlocked, NEW S \in SUBSET {t \in Task : HasWorker(t)}, NEW f,
           \A d \in S : Interrupted(d).ok,
           Interrupt(S, f)
    PROVE  Careful
<1> DEFINE ts == [d \in Task |-> IF d \in S THEN Interrupted(d).task ELSE tasks[d]]
           vs == UNION {Victims(ts, d) : d \in S}
           w  == CancelWorkers(S \cup f \cup vs)
<1>1. ASSUME NEW d \in S
      PROVE  /\ d \in Task /\ Interrupted(d).task.state = "RecoveryRequired"
             /\ Interrupted(d).task.attempt = tasks[d].attempt
  <2>1. d \in Task /\ tasks[d] \in AgentTask
    BY <1>1 DEF HasWorker, Tended, TypeOK, TreeShape, Exists
  <2>2. Interrupted(d) = TransitionTo(tasks[d], "RecoveryRequired", NoRequest)
    BY DEF Interrupted, Reduce, Event, PlainEvents, WaitEvents, Target
  <2>3. "RecoveryRequired" \in TaskStates
    BY DEF TaskStates, TerminalStates
  <2> QED BY <1>1, <2>1, <2>2, <2>3, TransitionFacts
<1>2. \A d \in Task : ts[d] = IF d \in S THEN Interrupted(d).task ELSE tasks[d]
    OBVIOUS
<1>3. /\ tasks' = CancelAll(ts, vs) /\ worker' = Drop(w, S)
      /\ UNCHANGED <<report, pass, strays>>
    BY DEF Interrupt
<1> HIDE DEF ts
<1>4. vs = {}
    BY <1>1, <1>2 DEF Victims, IsSettled, SettledStates
<1>5. \A d \in Task : tasks'[d] = ts[d]
    BY <1>3, <1>4 DEF CancelAll
<1> HIDE DEF vs
<1>6. ASSUME NEW d \in Task, worker'[d] # NoWorker
      PROVE  /\ HasWorker(d) /\ d \notin S
             /\ worker'[d].attempt = worker[d].attempt
             /\ worker[d].cancelled => worker'[d].cancelled
  <2>1. d \notin S /\ worker'[d] = w[d]
    BY <1>3, <1>6 DEF Drop
  <2> QED BY <1>6, <2>1, TokenFacts DEF Tended
<1>7. \A d \in Task : Attended(d)
    BY <1>2, <1>5, <1>6 DEF Attended
<1>8. ASSUME NEW d \in Task PROVE Reported(d)
    BY <1>1, <1>2, <1>3, <1>5, <1>8 DEF Reported
<1>9. Parked
    BY <1>1, <1>2, <1>5 DEF Parked
<1> QED BY <1>3, <1>7, <1>8, <1>9, NoPassMeets DEF Careful, Tended

\* The operations of a drain, on one worker or on all.
LEMMA DrainCareful ==
    ASSUME Tended,
           \/ InterruptUnacknowledgedWorkers
           \/ \E t \in Task : InterruptWorkerForRecovery(t)
           \/ RequestSafeCheckpoints
           \/ \E t \in Task : PauseTask(t)
    PROVE  Careful
<1>1. CASE InterruptUnacknowledgedWorkers
    BY <1>1, InterruptCareful DEF InterruptUnacknowledgedWorkers
<1>2. ASSUME NEW t \in Task, InterruptWorkerForRecovery(t) PROVE Careful
  <2>1. HasWorker(t) /\ Unlocked
    BY <1>2 DEF InterruptWorkerForRecovery
  <2>2. CASE Interrupted(t).ok
    <3>1. Interrupt({t}, {})
        BY <1>2, <2>2 DEF InterruptWorkerForRecovery
    <3> QED BY <2>1, <2>2, <3>1, InterruptCareful
  <2>3. CASE ~Interrupted(t).ok
    <3>1. Interrupt({}, {t})
        BY <1>2, <2>3 DEF InterruptWorkerForRecovery
    <3> QED BY <2>1, <3>1, InterruptCareful
  <2> QED BY <2>2, <2>3
<1>3. CASE RequestSafeCheckpoints
    BY <1>3, RequestPausesCareful DEF RequestSafeCheckpoints
<1>4. ASSUME NEW t \in Task, PauseTask(t) PROVE Careful
    BY <1>4, RequestPausesCareful DEF PauseTask
<1> QED BY <1>1, <1>2, <1>3, <1>4

\* A foreground root runs and pauses without a worker of its own.
LEMMA ForegroundCareful ==
    ASSUME Tended, StartForegroundRoot \/ PauseForegroundTask
    PROVE  Careful
<1>1. tasks[Root] \in AgentTask
    BY TaskAssumption DEF Tended, TypeOK, TreeShape, Exists
<1>2. \A kind \in {"AdmissionGranted", "PauseRequested"} :
        /\ Event(kind, tasks[Root]) \in TaskEvent
        /\ Event(kind, tasks[Root]).kind = kind
    BY <1>1, EventType DEF EventKinds, PlainEvents, OtherEvents
<1>3. \E kind \in {"AdmissionGranted", "PauseRequested"} :
        Transition(Root, Event(kind, tasks[Root]))
    BY DEF StartForegroundRoot, PauseForegroundTask
<1> QED BY <1>2, <1>3, TaskAssumption, TransitionCareful

\* A permission request and its answer leave the task live, or change nothing.
LEMMA PermissionCareful ==
    ASSUME Tended, NEW t \in Task, NEW q \in Requests,
           \/ RequestPermission(t, q)
           \/ \E decision \in {"PermissionAllowed", "PermissionDenied"} :
                 ResolvePermission(t, q, decision)
    PROVE  Careful
<1> DEFINE Kinds == {"PermissionRequested", "PermissionAllowed", "PermissionDenied"}
<1>1. ASSUME NEW kind \in Kinds
      PROVE  [Event(kind, tasks[t]) EXCEPT !.request = q].kind = kind
    BY DEF Event
<1>2. ASSUME NEW kind \in Kinds, Exists(t)
      PROVE  [Event(kind, tasks[t]) EXCEPT !.request = q] \in TaskEvent
    BY <1>2 DEF Event, TaskEvent, EventKinds, WaitEvents, Tended, TypeOK, AgentTask, Exists
<1>3. \E kind \in Kinds : Transition(t, [Event(kind, tasks[t]) EXCEPT !.request = q])
    BY DEF RequestPermission, ResolvePermission
<1> QED BY <1>1, <1>2, <1>3, TransitionCareful

\* Every step but a spawn is careful.
LEMMA StepCareful ==
    ASSUME Tended, Next
    PROVE  Careful \/ \E p \in Task, c \in Task : Spawn(p, c)
<1>1. ASSUME NEW t \in Task, TaskStep(t)
      PROVE  Careful \/ \E p \in Task, c \in Task : Spawn(p, c)
    BY <1>1, StartCareful, CancelCareful, ReopenCareful, WatchdogCareful,
       PermissionCareful, ConflictCareful, DrainCareful
    DEF TaskStep
<1>2. ASSUME Reconcile PROVE Careful
    BY <1>2, ReconcileBeginCareful, ReconcileApplyCareful, ReconcileRestCareful
    DEF Reconcile
<1> QED BY <1>1, <1>2, WorkerReportCareful, ForegroundCareful, DrainCareful DEF Next

-----------------------------------------------------------------------------
(* Workers, evidence and passes.                                           *)

\* A worker serves the active attempt of its task, and the events a pass holds
\* were taken from the handles: the two are inductive together, because a handle
\* may go only where its thread is done.
LEMMA TendedStays ==
    ASSUME Tended, Harmless, Careful
    PROVE  WorkerServesActiveAttempt' /\ Collected'
<1> SUFFICES ASSUME NEW d \in Task, HasWorker(d)'
             PROVE  /\ worker'[d].attempt = tasks'[d].attempt
                    /\ IsTerminal(tasks'[d]) => worker'[d].cancelled
                    /\ tasks'[d].state # "Paused"
    BY DEF WorkerServesActiveAttempt, Careful
<1>1. worker'[d] # NoWorker /\ Exists(d)
    BY DEF HasWorker, Harmless
<1>2. Attended(d)
    BY <1>1 DEF Careful
<1>3. CASE worker'[d].attempt = tasks'[d].attempt /\ tasks'[d].state = "Running"
    BY <1>3 DEF IsTerminal, TerminalStates, SettledStates
<1>4. CASE ~(worker'[d].attempt = tasks'[d].attempt /\ tasks'[d].state = "Running")
    BY <1>1, <1>2, <1>4 DEF Attended, Tended, WorkerServesActiveAttempt
<1> QED BY <1>3, <1>4

\* A spawned task has no handle, and no pass is under way.
LEMMA SpawnTends ==
    ASSUME Tended, NEW p \in Task, NEW c \in Task, Spawn(p, c)
    PROVE  WorkerServesActiveAttempt' /\ Collected' /\ strays' = strays
BY FreshFacts DEF Tended, WorkerServesActiveAttempt, Collected, HasWorker

\* The inductive invariant of the handles; no handle is dropped under a working thread.
THEOREM TendedCorrect == Spec => [](Tended /\ strays = {})
<1>1. Init => Tended /\ strays = {}
  <2> SUFFICES ASSUME Init PROVE Tended /\ strays = {}
    OBVIOUS
  <2>1. TypeOK /\ TreeShape
    BY InitFacts
  <2>2. \A t \in Task : ~HasWorker(t)
    BY DEF Init, HasWorker
  <2>3. pass.pending = {} /\ strays = {}
    BY DEF Init, NoPass
  <2> QED BY <2>1, <2>2, <2>3 DEF Tended, WorkerServesActiveAttempt, Collected
<1>2. Tended /\ strays = {} /\ [Next]_vars => (Tended /\ strays = {})'
  <2> SUFFICES ASSUME Tended, strays = {}, [Next]_vars PROVE Tended' /\ strays' = {}
    OBVIOUS
  <2>1. CASE UNCHANGED vars
    BY <2>1 DEF vars, Tended, TypeOK, TreeShape, Exists, HasWorker,
          WorkerServesActiveAttempt, Collected
  <2>2. CASE Next
    <3>1. TypeOK' /\ TreeShape'
        BY <2>2, StepFacts, HarmlessKeepsTree, SpawnKeepsType, SpawnKeepsTree
        DEF Tended, Harmless
    <3>2. ASSUME NEW p \in Task, NEW c \in Task, Spawn(p, c)
          PROVE  WorkerServesActiveAttempt' /\ Collected' /\ strays' = strays
        BY <3>2, SpawnTends
    <3>3. ASSUME Harmless, Careful
          PROVE  WorkerServesActiveAttempt' /\ Collected' /\ strays' = strays
        BY <3>3, TendedStays DEF Careful
    <3>4. \/ Harmless /\ Careful
          \/ \E p \in Task, c \in Task : Spawn(p, c)
        BY <2>2, StepFacts, StepCareful DEF Tended
    <3> QED BY <3>1, <3>2, <3>3, <3>4 DEF Tended
  <2> QED BY <2>1, <2>2
<1> QED BY <1>1, <1>2, PTL DEF Spec

\* No handle outlives the attempt it was started for, and no task finishes or
\* pauses under a worker that was not told to stop.
THEOREM WorkerServesActiveAttemptCorrect == Spec => []WorkerServesActiveAttempt
<1>1. Tended => WorkerServesActiveAttempt
    BY DEF Tended
<1> QED BY <1>1, TendedCorrect, PTL

\* Dropping a handle never leaves its thread working.
THEOREM NoUnattendedWorkerCorrect == Spec => []NoUnattendedWorker
<1>1. strays = {} => NoUnattendedWorker
    BY DEF NoUnattendedWorker
<1> QED BY <1>1, TendedCorrect, PTL

\* A report belongs to an attempt that was, and the report of a task that
\* completed without changes to the one that completed.
Credited ==
    \A t \in Task :
        /\ ~Exists(t) => report[t] = 0
        /\ Exists(t) =>
              /\ tasks[t].state = "CompletedNoChanges" => report[t] = tasks[t].attempt
              /\ report[t] <= tasks[t].attempt

\* A report kept for an attempt stays that attempt's.
LEMMA CreditedStays ==
    ASSUME Tended, Credited, Harmless, Careful
    PROVE  Credited'
<1>0. ASSUME NEW d \in Task, ~Exists(d)' PROVE report'[d] = 0
  <2>1. ~Exists(d) /\ Reported(d)
    BY <1>0 DEF Harmless, Evolution, Exists, Careful
  <2> QED BY <1>0, <2>1 DEF Credited, Reported
<1> SUFFICES ASSUME NEW d \in Task, Exists(d)'
             PROVE  /\ tasks'[d].state = "CompletedNoChanges" => report'[d] = tasks'[d].attempt
                    /\ report'[d] <= tasks'[d].attempt
    BY <1>0 DEF Credited
<1>1. Exists(d) /\ tasks[d] \in AgentTask /\ report[d] \in Nat
    BY DEF Harmless, Evolution, Exists, Tended, TypeOK
<1>2. EvolvesTo(tasks[d], tasks'[d]) /\ Reported(d)
    BY <1>1 DEF Harmless, Evolution, Careful
<1>3. tasks[d].attempt \in Nat /\ tasks'[d].attempt \in {tasks[d].attempt, tasks[d].attempt + 1}
    BY <1>1, <1>2 DEF EvolvesTo, AgentTask
<1>4. report'[d] <= tasks'[d].attempt
    BY <1>1, <1>2, <1>3 DEF Reported, Credited
<1>5. ASSUME tasks'[d].state = "CompletedNoChanges" PROVE report'[d] = tasks'[d].attempt
  <2>1. tasks'[d].attempt = tasks[d].attempt
    BY <1>2, <1>5 DEF EvolvesTo
  <2> QED BY <1>1, <1>2, <1>5, <2>1 DEF Reported, Credited
<1> QED BY <1>4, <1>5

\* What a parent reads of a finished child belongs to the attempt that finished.
THEOREM EvidenceMatchesOutcomeCorrect == Spec => []EvidenceMatchesOutcome
<1> DEFINE AllSound == \A t \in Task : Exists(t) => Sound(tasks[t])
<1>1. Init => Credited
    BY DEF Init, Credited, NewTask, Exists
<1>2. Tended /\ Credited /\ [Next]_vars => Credited'
  <2> SUFFICES ASSUME Tended, Credited, [Next]_vars PROVE Credited'
    OBVIOUS
  <2>1. CASE UNCHANGED vars
    BY <2>1 DEF vars, Credited, Exists
  <2>2. CASE Harmless /\ Careful
    BY <2>2, CreditedStays
  <2>3. ASSUME NEW p \in Task, NEW c \in Task, Spawn(p, c) PROVE Credited'
    <3>0. ~Exists(c) /\ report' = report
        BY <2>3 DEF Spawn
    <3>1. /\ tasks'[c] = NewTask /\ report' = report /\ report[c] = 0
          /\ \A d \in Task \ {c} : tasks'[d] = tasks[d]
      <4>1. report[c] = 0
        BY <3>0 DEF Credited
      <4>2. TypeOK
        BY DEF Tended
      <4>3. tasks' = [tasks EXCEPT ![c] = NewTask]
        BY <2>3 DEF Spawn
      <4> QED BY <3>0, <4>1, <4>2, <4>3 DEF TypeOK
    <3>2. NewTask.state = "Queued" /\ NewTask.attempt = 1 /\ NewTask # NoTask
        BY NewTaskFacts DEF NewTask
    <3> QED BY <3>1, <3>2 DEF Credited, Exists
  <2> QED BY <2>1, <2>2, <2>3, StepFacts, StepCareful DEF Tended
<1>3. AllSound /\ Credited => EvidenceMatchesOutcome
    BY DEF Credited, EvidenceMatchesOutcome, Sound
<1>4. Spec => []AllSound
    BY OutcomesAreSound
<1> QED BY <1>1, <1>2, <1>3, <1>4, TendedCorrect, PTL DEF Spec

\* Entering RecoveryRequired cancels no descendant.
THEOREM RecoveryKeepsTheSubtreeCorrect == Spec => RecoveryKeepsTheSubtree
<1> DEFINE Keeps == \A t \in Task :
                (Exists(t) /\ tasks[t].state # "RecoveryRequired"
                          /\ tasks'[t].state = "RecoveryRequired")
                => \A d \in Descendants(t) :
                      tasks'[d].state \in {tasks[d].state, "RecoveryRequired"}
<1>1. Tended /\ [Next]_vars => [Keeps]_vars
  <2> SUFFICES ASSUME Tended, Next PROVE Keeps
    OBVIOUS
  <2>1. CASE Careful
    BY <2>1 DEF Careful, Parked, Descendants
  <2>2. ASSUME NEW p \in Task, NEW c \in Task, Spawn(p, c) PROVE Keeps
    BY <2>2, FreshFacts DEF Tended, NewTask
  <2> QED BY <2>1, <2>2, StepCareful
<1>2. Spec => [][Keeps]_vars
    BY <1>1, TendedCorrect, PTL DEF Spec
<1> QED BY <1>2 DEF RecoveryKeepsTheSubtree

\* A pass collects every task it moves, the victims of its cascades included, and
\* keeps what it collected until it hands it over, unless an event is refused.
THEOREM PassReportsEveryChangeCorrect == Spec => PassReportsEveryChange
<1>1. Tended /\ [Next]_vars => [Told]_vars
  <2> SUFFICES ASSUME Tended, Next PROVE Told
    OBVIOUS
  <2>1. ASSUME NEW p \in Task, NEW c \in Task, Spawn(p, c) PROVE Told
    BY <2>1 DEF Spawn, Unlocked, Told
  <2> QED BY <2>1, StepCareful DEF Careful
<1>2. Spec => [][Told]_vars
    BY <1>1, TendedCorrect, PTL DEF Spec
<1> QED BY <1>2 DEF PassReportsEveryChange, Told

=============================================================================
