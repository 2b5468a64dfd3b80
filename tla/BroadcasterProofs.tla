-------------------------- MODULE BroadcasterProofs --------------------------
(***************************************************************************)
(* The fan-out centre implements FrameFeed, for any number of connections, *)
(* emitters and threads and for queues of any length.                      *)
(***************************************************************************)
EXTENDS Broadcaster, TLAPS, SequenceTheorems

USE ClientAssumption, CapAssumption

-----------------------------------------------------------------------------
(* The invariant.                                                          *)

\* A client that is registered, served or sent away has connected; a pump that
\* is not on has nothing in its queue.
Wired ==
    /\ \A c \in Client :
         /\ pump[c] = "none" <=> reading[c] = "none"
         /\ c \in clients => pump[c] # "none"
         /\ pump[c] # "on" => queue[c] = <<>>
    /\ \A e \in Emitter : task[e].op = "awaiting" =>
         \A c \in task[e].targets \cup task[e].evict : pump[c] # "none"
    /\ pump[Local] # "none"

\* What is queued for c of e is older than n.
Below(c, e, n) == \A i \in DOMAIN queue[c] : queue[c][i].from = e => queue[c][i].n < n

\* The frames of each emitter are in a queue in the order it emitted them, and
\* before the one it is about to send.
Ordered(c) ==
    \A i \in DOMAIN queue[c] :
        /\ queue[c][i].n <= emitted[queue[c][i].from]
        /\ \A j \in DOMAIN queue[c] :
             i < j /\ queue[c][i].from = queue[c][j].from /\ queue[c][j].n # Reply
                 => queue[c][i].n < queue[c][j].n

InOrder ==
    /\ \A c \in Client : Ordered(c)
    /\ \A e \in Emitter : task[e].op = "awaiting" =>
         /\ task[e].n = emitted[e]
         /\ \A c \in task[e].targets : Below(c, e, task[e].n)

HubInv == HubTypeOK /\ Wired /\ InOrder

-----------------------------------------------------------------------------
(* Sequences and tasks.                                                    *)

\* A sequence with one more element.
LEMMA Appended ==
    ASSUME NEW S, NEW q \in Seq(S), NEW x \in S
    PROVE  /\ Append(q, x) \in Seq(S) /\ Len(Append(q, x)) = Len(q) + 1
           /\ DOMAIN q = 1 .. Len(q) /\ DOMAIN Append(q, x) = 1 .. Len(q) + 1
           /\ Len(q) \in Nat /\ \A i \in DOMAIN q : Append(q, x)[i] = q[i]
           /\ Append(q, x)[Len(q) + 1] = x
  OBVIOUS

\* A sequence without its first element.
LEMMA Tailed ==
    ASSUME NEW S, NEW q \in Seq(S), q # <<>>
    PROVE  /\ Tail(q) \in Seq(S) /\ Len(Tail(q)) = Len(q) - 1
           /\ DOMAIN q = 1 .. Len(q) /\ DOMAIN Tail(q) = 1 .. Len(q) - 1
           /\ Len(q) \in Nat \ {0} /\ \A i \in DOMAIN Tail(q) : Tail(q)[i] = q[i + 1]
           /\ Head(q) = q[1] /\ Head(q) \in S
  OBVIOUS

\* Frames are frames.
LEMMA FrameFacts ==
    ASSUME NEW e \in Emitter, NEW n \in Nat
    PROVE  Frame(e, n) \in Frames /\ Frame(e, n).from = e /\ Frame(e, n).n = n
  BY DEF Frame, Frames

\* What a task may be doing is told apart by its kind.
LEMMA TaskFacts ==
    ASSUME NEW t \in Tasks
    PROVE  /\ t = Idle <=> t.op = "idle"
           /\ t.op = "awaiting" =>
                t.n \in Nat \ {0} /\ t.targets \subseteq Client /\ t.evict \subseteq Client
           /\ t.op \in {"idle", "awaiting", "replying", "ended"}
  BY DEF Tasks, Idle

\* What a task begins to do.
LEMMA NewTasks ==
    /\ Idle \in Tasks /\ Idle.op = "idle"
    /\ \A c \in Client : /\ Replying(c) \in Tasks /\ Replying(c).op = "replying"
                         /\ Refused(c) \in Tasks /\ Refused(c).op \in {"idle", "ended"}
  BY DEF Replying, Idle, Refused, Tasks

\* An emitter begins to wait, or goes on.
LEMMA NewAwaiting ==
    ASSUME NEW n \in Nat \ {0}, NEW T \in SUBSET Client, NEW V \in SUBSET Client
    PROVE  /\ Awaiting(n, T, V) \in Tasks /\ Awaiting(n, T, V).op = "awaiting"
           /\ Awaiting(n, T, V).n = n
           /\ Awaiting(n, T, V).targets = T /\ Awaiting(n, T, V).evict = V
  BY DEF Awaiting, Tasks

\* A task begins something: the others go on.
LEMMA DoesFacts ==
    ASSUME HubTypeOK, NEW e \in Emitter, NEW t \in Tasks, Does(e, t),
           e = Loop \/ t.op \in {"idle", "awaiting"}
    PROVE  /\ task' \in [Emitter -> Tasks] /\ task'[e] = t
           /\ \A g \in Emitter \ {e} : task'[g] = task[g]
           /\ \A g \in Driver : task'[g].op \in {"idle", "awaiting"}
  BY DEF Does, HubTypeOK, Emitter

\* One client's queue changes.
LEMMA QueueFacts ==
    ASSUME HubTypeOK, NEW c \in Client, NEW q \in Seq(Frames), Len(q) <= QueueCap,
           queue' = [queue EXCEPT ![c] = q]
    PROVE  /\ queue' \in [Client -> Seq(Frames)] /\ \A d \in Client : Len(queue'[d]) <= QueueCap
           /\ queue'[c] = q /\ \A d \in Client \ {c} : queue'[d] = queue[d]
  BY DEF HubTypeOK

\* A frame is put into the queue of c.
LEMMA SentFacts ==
    ASSUME HubTypeOK, NEW c \in Client, CanSend(c), NEW f \in Frames,
           queue' = [queue EXCEPT ![c] = Append(@, f)]
    PROVE  /\ queue' \in [Client -> Seq(Frames)] /\ \A d \in Client : Len(queue'[d]) <= QueueCap
           /\ queue'[c] = Append(queue[c], f) /\ \A d \in Client \ {c} : queue'[d] = queue[d]
<1>1. queue[c] \in Seq(Frames) /\ Len(queue[c]) < QueueCap
  BY DEF HubTypeOK, CanSend
<1>2. Append(queue[c], f) \in Seq(Frames) /\ Len(Append(queue[c], f)) <= QueueCap
  BY <1>1, Appended
<1>3. queue' = [queue EXCEPT ![c] = Append(queue[c], f)]
  BY DEF HubTypeOK
<1> HIDE DEF CanSend
<1> QED BY <1>2, <1>3, QueueFacts

\* The bounds of requests and channels are those of numbers.
LEMMA CountFacts ==
    ASSUME HubTypeOK
    PROVE  \A e \in Emitter : emitted[e] \in Nat /\ emitted[e] + 1 \in Nat \ {0}
  BY DEF HubTypeOK

-----------------------------------------------------------------------------
(* Queues.                                                                 *)

\* What a step may do to a queue: leave it, take its head, empty it ...
Shrinks(c) == queue'[c] \in {queue[c], <<>>} \/ (queue[c] # <<>> /\ queue'[c] = Tail(queue[c]))

\* ... or put in a reply, or the newest frame of an emitter.
Grows(c, e, n) ==
    /\ queue'[c] = Append(queue[c], Frame(e, n))
    /\ n # Reply => Below(c, e, n)
    /\ n <= emitted'[e]

\* The same, after the step.
BelowAfter(c, e, n) == \A i \in DOMAIN queue'[c] : queue'[c][i].from = e => queue'[c][i].n < n

\* Nothing of an emitter is newer than what it emitted.
LEMMA BelowNext ==
    ASSUME HubTypeOK, NEW c \in Client, Ordered(c), NEW e \in Emitter
    PROVE  Below(c, e, emitted[e] + 1)
<1>1. \A i \in DOMAIN queue[c] : queue[c][i] \in Frames
  BY DEF HubTypeOK
<1> QED BY <1>1 DEF Ordered, Below, HubTypeOK, Frames

\* The order of a queue that shrinks stays.
LEMMA ShrunkOrder ==
    ASSUME HubTypeOK, NEW c \in Client, Ordered(c), Shrinks(c),
           \A e \in Emitter : emitted'[e] \in Nat /\ emitted[e] <= emitted'[e]
    PROVE  Ordered(c)'
<1>1. queue[c] \in Seq(Frames) /\ \A i \in DOMAIN queue[c] : queue[c][i] \in Frames
  BY DEF HubTypeOK
<1>2. ASSUME NEW i \in DOMAIN queue[c]
      PROVE  queue[c][i].n <= emitted'[queue[c][i].from]
  <2>1. queue[c][i].from \in Emitter /\ queue[c][i].n \in Nat
    BY <1>1 DEF Frames
  <2>2. queue[c][i].n <= emitted[queue[c][i].from] /\ emitted[queue[c][i].from] \in Nat
    BY <2>1 DEF Ordered, HubTypeOK
  <2>3. /\ emitted'[queue[c][i].from] \in Nat
        /\ emitted[queue[c][i].from] <= emitted'[queue[c][i].from]
    BY <2>1
  <2> QED BY <2>1, <2>2, <2>3
<1>3. CASE queue'[c] = queue[c]
  BY <1>2, <1>3 DEF Ordered
<1>4. CASE queue'[c] = <<>>
  BY <1>4 DEF Ordered
<1>5. CASE queue[c] # <<>> /\ queue'[c] = Tail(queue[c])
  <2>1. /\ \A i \in DOMAIN queue'[c] : queue'[c][i] = queue[c][i + 1]
        /\ DOMAIN queue'[c] = 1 .. Len(queue[c]) - 1 /\ DOMAIN queue[c] = 1 .. Len(queue[c])
        /\ Len(queue[c]) \in Nat
    BY <1>1, <1>5, Tailed
  <2>2. \A i \in DOMAIN queue'[c] : i \in Nat /\ i + 1 \in DOMAIN queue[c]
    BY <2>1
  <2>3. \A i, j \in DOMAIN queue'[c] : i < j => i + 1 < j + 1
    BY <2>2
  <2> QED BY <1>2, <2>1, <2>2, <2>3 DEF Ordered
<1> QED BY <1>3, <1>4, <1>5 DEF Shrinks

\* The order of a queue that grows stays.
LEMMA GrownOrder ==
    ASSUME HubTypeOK, NEW c \in Client, Ordered(c), NEW e \in Emitter, NEW n \in Nat,
           Grows(c, e, n),
           \A g \in Emitter : emitted'[g] \in Nat /\ emitted[g] <= emitted'[g]
    PROVE  Ordered(c)'
<1>1. queue[c] \in Seq(Frames) /\ \A i \in DOMAIN queue[c] : queue[c][i] \in Frames
  BY DEF HubTypeOK
<1>2. ASSUME NEW i \in DOMAIN queue[c]
      PROVE  queue[c][i].n <= emitted'[queue[c][i].from]
  <2>1. queue[c][i].from \in Emitter /\ queue[c][i].n \in Nat
    BY <1>1 DEF Frames
  <2>2. queue[c][i].n <= emitted[queue[c][i].from] /\ emitted[queue[c][i].from] \in Nat
    BY <2>1 DEF Ordered, HubTypeOK
  <2>3. /\ emitted'[queue[c][i].from] \in Nat
        /\ emitted[queue[c][i].from] <= emitted'[queue[c][i].from]
    BY <2>1
  <2> QED BY <2>1, <2>2, <2>3
<1>3. /\ \A i \in DOMAIN queue[c] : queue'[c][i] = queue[c][i]
      /\ DOMAIN queue'[c] = 1 .. Len(queue[c]) + 1 /\ DOMAIN queue[c] = 1 .. Len(queue[c])
      /\ Len(queue[c]) \in Nat /\ queue'[c][Len(queue[c]) + 1] = Frame(e, n)
  BY <1>1, Appended, FrameFacts DEF Grows
<1> DEFINE last == Len(queue[c]) + 1
<1>4. /\ queue'[c][last].from = e /\ queue'[c][last].n = n
      /\ \A i \in DOMAIN queue'[c] : i \in DOMAIN queue[c] \/ i = last
      /\ \A i \in DOMAIN queue'[c] : ~(last < i)
  BY <1>3, FrameFacts
<1> HIDE DEF last
<1>5. \A i \in DOMAIN queue'[c] : queue'[c][i].n <= emitted'[queue'[c][i].from]
  BY <1>2, <1>3, <1>4 DEF Grows
<1>6. ASSUME NEW i \in DOMAIN queue'[c], NEW j \in DOMAIN queue'[c], i < j,
             queue'[c][i].from = queue'[c][j].from, queue'[c][j].n # Reply
      PROVE  queue'[c][i].n < queue'[c][j].n
  <2>1. i \in DOMAIN queue[c]
    BY <1>4, <1>6
  <2>2. CASE j = last
    BY <1>3, <1>4, <1>6, <2>1, <2>2 DEF Grows, Below
  <2>3. CASE j \in DOMAIN queue[c]
    BY <1>3, <1>6, <2>1, <2>3 DEF Ordered
  <2> QED BY <1>4, <2>2, <2>3
<1> QED BY <1>5, <1>6 DEF Ordered

\* A frame that is newer than a queue stays so, unless its emitter sends another.
LEMMA BelowStays ==
    ASSUME HubTypeOK, NEW c \in Client, NEW e \in Emitter, NEW n, Below(c, e, n),
           Shrinks(c) \/ \E g \in Emitter \ {e}, m \in Nat : Grows(c, g, m)
    PROVE  BelowAfter(c, e, n)
<1>1. queue[c] \in Seq(Frames) /\ \A i \in DOMAIN queue[c] : queue[c][i] \in Frames
  BY DEF HubTypeOK
<1>2. CASE queue'[c] = queue[c] \/ queue'[c] = <<>>
  BY <1>2 DEF Below, BelowAfter
<1>3. CASE queue[c] # <<>> /\ queue'[c] = Tail(queue[c])
  <2>1. /\ \A i \in DOMAIN queue'[c] : queue'[c][i] = queue[c][i + 1]
        /\ DOMAIN queue'[c] = 1 .. Len(queue[c]) - 1 /\ DOMAIN queue[c] = 1 .. Len(queue[c])
        /\ Len(queue[c]) \in Nat
    BY <1>1, <1>3, Tailed
  <2>2. \A i \in DOMAIN queue'[c] : i + 1 \in DOMAIN queue[c]
    BY <2>1
  <2> QED BY <2>1, <2>2 DEF Below, BelowAfter
<1>4. CASE \E g \in Emitter \ {e}, m \in Nat : Grows(c, g, m)
  <2>1. PICK g \in Emitter \ {e}, m \in Nat : Grows(c, g, m)
    BY <1>4
  <2>2. /\ \A i \in DOMAIN queue[c] : queue'[c][i] = queue[c][i]
        /\ DOMAIN queue'[c] = 1 .. Len(queue[c]) + 1 /\ DOMAIN queue[c] = 1 .. Len(queue[c])
        /\ Len(queue[c]) \in Nat /\ queue'[c][Len(queue[c]) + 1] = Frame(g, m)
    BY <1>1, <2>1, Appended, FrameFacts DEF Grows
  <2>3. queue'[c][Len(queue[c]) + 1].from # e
    BY <2>1, <2>2, FrameFacts
  <2> QED BY <2>2, <2>3 DEF Below, BelowAfter
<1> QED BY <1>2, <1>3, <1>4 DEF Shrinks

\* Steps that let every queue shrink, or one emitter send what is new, and let no
\* other emitter begin, keep the order.
LEMMA OrderStays ==
    ASSUME HubTypeOK, InOrder,
           \A e \in Emitter : emitted'[e] \in Nat /\ emitted[e] <= emitted'[e],
           NEW e \in Emitter,
           \A c \in Client : Shrinks(c) \/ \E n \in Nat : Grows(c, e, n),
           \A g \in Emitter : \/ task'[g].op # "awaiting"
                              \/ /\ task[g].op = "awaiting" /\ task'[g].n = task[g].n
                                 /\ emitted'[g] = emitted[g]
                                 /\ task'[g].targets \subseteq task[g].targets
                                 /\ \A c \in task'[g].targets :
                                       c \in Client /\ (g = e => Shrinks(c))
                              \/ /\ g = e /\ task'[g].n = emitted'[g]
                                 /\ \A c \in task'[g].targets : BelowAfter(c, g, task'[g].n)
    PROVE  InOrder'
<1>1. \A c \in Client : Ordered(c)'
  BY ShrunkOrder, GrownOrder DEF InOrder
<1>2. ASSUME NEW g \in Emitter, task'[g].op = "awaiting"
      PROVE  task'[g].n = emitted'[g] /\ \A c \in task'[g].targets : BelowAfter(c, g, task'[g].n)
  <2>1. CASE /\ task[g].op = "awaiting" /\ task'[g].n = task[g].n /\ emitted'[g] = emitted[g]
             /\ task'[g].targets \subseteq task[g].targets
             /\ \A c \in task'[g].targets : c \in Client /\ (g = e => Shrinks(c))
    <3>1. task[g].n = emitted[g] /\ \A c \in task[g].targets : Below(c, g, task[g].n)
      BY <2>1 DEF InOrder
    <3>2. ASSUME NEW c \in task'[g].targets
          PROVE  BelowAfter(c, g, task'[g].n)
      <4>1. c \in Client /\ Below(c, g, task[g].n) /\ task'[g].n = task[g].n
        BY <2>1, <3>1
      <4>2. Shrinks(c) \/ \E h \in Emitter \ {g}, m \in Nat : Grows(c, h, m)
        BY <2>1, <4>1
      <4>3. BelowAfter(c, g, task[g].n)
        BY <4>1, <4>2, BelowStays
      <4> QED BY <4>1, <4>3
    <3> QED BY <2>1, <3>1, <3>2
  <2> QED BY <1>2, <2>1
<1> QED BY <1>1, <1>2 DEF InOrder, Below, BelowAfter

-----------------------------------------------------------------------------
(* The invariant is inductive.                                             *)

\* A frame is counted.
LEMMA EmitsFacts ==
    ASSUME HubTypeOK, NEW e \in Emitter, emitted' = [emitted EXCEPT ![e] = emitted[e] + 1]
    PROVE  /\ emitted' \in [Emitter -> Nat] /\ emitted'[e] = emitted[e] + 1
           /\ emitted[e] + 1 \in Nat \ {0}
           /\ \A g \in Emitter \ {e} : emitted'[g] = emitted[g]
           /\ \A g \in Emitter : emitted'[g] \in Nat /\ emitted[g] <= emitted'[g]
<1>1. emitted \in [Emitter -> Nat]
  BY DEF HubTypeOK
<1> QED BY <1>1

\* Who a frame is for, and who has room for it.
Targets(key) == {c \in clients : Accepts(c, key)}
Takers(key)  == {c \in Targets(key) : CanSend(c)}

\* What a broadcast does: it counts a frame and puts it where there is room.
LEMMA BroadcastForFacts ==
    ASSUME HubTypeOK, NEW e \in Emitter, NEW key, BroadcastFor(e, key)
    PROVE  /\ task[e] = Idle
           /\ emitted' = [emitted EXCEPT ![e] = emitted[e] + 1]
           /\ queue' \in [Client -> Seq(Frames)] /\ \A c \in Client : Len(queue'[c]) <= QueueCap
           /\ \A c \in Takers(key) : queue'[c] = Append(queue[c], Frame(e, emitted[e] + 1))
           /\ \A c \in Client \ Takers(key) : queue'[c] = queue[c]
           /\ clients' = (clients \ Targets(key)) \cup Takers(key) \cup (Targets(key) \cap {Local})
           /\ UNCHANGED <<feed, pump, reading, inbound, task, seen, asked>>
           /\ Takers(key) \subseteq Targets(key) /\ Targets(key) \subseteq clients
<1>1. /\ task[e] = Idle
      /\ emitted' = [emitted EXCEPT ![e] = emitted[e] + 1]
      /\ queue' = [c \in Client |-> IF c \in Takers(key)
                                    THEN Append(queue[c], Frame(e, emitted[e] + 1)) ELSE queue[c]]
      /\ clients' = (clients \ Targets(key)) \cup Takers(key) \cup (Targets(key) \cap {Local})
      /\ UNCHANGED <<feed, pump, reading, inbound, task, seen, asked>>
  BY DEF BroadcastFor, Targets, Takers
<1>2. Takers(key) \subseteq Targets(key) /\ Targets(key) \subseteq clients /\ clients \subseteq Client
  BY DEF Targets, Takers, HubTypeOK
<1>3. Frame(e, emitted[e] + 1) \in Frames
  BY CountFacts, FrameFacts
<1>4. ASSUME NEW c \in Client
      PROVE  queue'[c] \in Seq(Frames) /\ Len(queue'[c]) <= QueueCap
  <2>1. queue[c] \in Seq(Frames) /\ Len(queue[c]) \in Nat /\ Len(queue[c]) <= QueueCap
    BY DEF HubTypeOK
  <2>2. c \in Takers(key) => Len(queue[c]) < QueueCap
    BY DEF Takers, CanSend
  <2>3. Append(queue[c], Frame(e, emitted[e] + 1)) \in Seq(Frames)
        /\ Len(Append(queue[c], Frame(e, emitted[e] + 1))) = Len(queue[c]) + 1
    BY <1>3, <2>1, Appended
  <2> QED BY <1>1, <2>1, <2>2, <2>3
<1>5. queue' \in [Client -> Seq(Frames)]
  BY <1>1, <1>4
<1> QED BY <1>1, <1>2, <1>4, <1>5

\* A broadcast keeps the invariant.
LEMMA BroadcastForHeld ==
    ASSUME HubInv, NEW e \in Emitter, NEW key, BroadcastFor(e, key)
    PROVE  HubInv'
<1>1. HubTypeOK /\ Wired /\ InOrder
  BY DEF HubInv
<1>2. /\ task[e] = Idle
      /\ emitted' = [emitted EXCEPT ![e] = emitted[e] + 1]
      /\ queue' \in [Client -> Seq(Frames)] /\ \A c \in Client : Len(queue'[c]) <= QueueCap
      /\ \A c \in Takers(key) : queue'[c] = Append(queue[c], Frame(e, emitted[e] + 1))
      /\ \A c \in Client \ Takers(key) : queue'[c] = queue[c]
      /\ clients' \subseteq clients
      /\ UNCHANGED <<feed, pump, reading, inbound, task, seen, asked>>
      /\ Takers(key) \subseteq clients
  BY <1>1, BroadcastForFacts
<1>3. /\ emitted' \in [Emitter -> Nat] /\ emitted'[e] = emitted[e] + 1
      /\ \A g \in Emitter \ {e} : emitted'[g] = emitted[g]
      /\ \A g \in Emitter : emitted'[g] \in Nat /\ emitted[g] <= emitted'[g]
      /\ emitted[e] + 1 \in Nat
  BY <1>1, <1>2, EmitsFacts
<1>4. HubTypeOK'
  BY <1>1, <1>2, <1>3 DEF HubTypeOK
<1>5. Wired'
  <2>1. \A c \in Client : pump[c] # "on" => queue'[c] = queue[c]
    BY <1>2 DEF Takers, CanSend
  <2> QED BY <1>1, <1>2, <2>1 DEF Wired
<1>6. \A c \in Client : Shrinks(c) \/ \E n \in Nat : Grows(c, e, n)
  <2>1. ASSUME NEW c \in Takers(key)
        PROVE  Grows(c, e, emitted[e] + 1)
    <3>1. c \in Client
      BY <1>1, <1>2 DEF HubTypeOK
    <3>2. Below(c, e, emitted[e] + 1)
      BY <1>1, <3>1, BelowNext DEF InOrder
    <3> QED BY <1>2, <1>3, <3>2 DEF Grows
  <2> QED BY <1>2, <1>3, <2>1 DEF Shrinks
<1>7. task[e].op # "awaiting"
  BY <1>2 DEF Idle
<1>8. InOrder'
  <2>1. \A g \in Emitter : task[g].op = "awaiting" =>
            emitted'[g] = emitted[g] /\ g # e /\ task[g].targets \subseteq Client
    BY <1>1, <1>3, <1>7, TaskFacts DEF HubTypeOK
  <2> QED BY <1>1, <1>2, <1>3, <1>6, <2>1, OrderStays
<1> QED BY <1>4, <1>5, <1>8 DEF HubInv

\* The first half of an awaited broadcast: nothing is sent yet.
LEMMA AwaitStartHeld ==
    ASSUME HubInv, NEW e \in Emitter, NEW key, AwaitStart(e, key)
    PROVE  HubInv'
<1>1. HubTypeOK /\ Wired /\ InOrder
  BY DEF HubInv
<1> DEFINE n == emitted[e] + 1
           t == Awaiting(n, Targets(key), {})
<1>2. /\ task[e] = Idle /\ emitted' = [emitted EXCEPT ![e] = n]
      /\ Does(e, t)
      /\ UNCHANGED <<clients, feed, queue, pump, reading, inbound, seen, asked>>
  BY DEF AwaitStart, Targets
<1>3. /\ emitted' \in [Emitter -> Nat] /\ emitted'[e] = n /\ n \in Nat \ {0}
      /\ \A g \in Emitter \ {e} : emitted'[g] = emitted[g]
      /\ \A g \in Emitter : emitted'[g] \in Nat /\ emitted[g] <= emitted'[g]
  BY <1>1, <1>2, EmitsFacts
<1>4. Targets(key) \subseteq clients /\ Targets(key) \subseteq Client
  BY <1>1 DEF Targets, HubTypeOK
<1>5. t \in Tasks /\ t.op = "awaiting" /\ t.n = n /\ t.targets = Targets(key) /\ t.evict = {}
  <2>1. {} \in SUBSET Client
    OBVIOUS
  <2> HIDE DEF n
  <2> QED BY <1>3, <1>4, <2>1, NewAwaiting
<1> HIDE DEF t, n
<1>6. /\ task' \in [Emitter -> Tasks] /\ task'[e] = t
      /\ \A g \in Emitter \ {e} : task'[g] = task[g]
      /\ \A g \in Driver : task'[g].op \in {"idle", "awaiting"}
  BY <1>1, <1>2, <1>5, DoesFacts
<1>7. HubTypeOK'
  BY <1>1, <1>2, <1>3, <1>6 DEF HubTypeOK
<1>8. Wired'
  BY <1>1, <1>2, <1>4, <1>5, <1>6 DEF Wired
<1>9. \A c \in Client : Shrinks(c)
  BY <1>2 DEF Shrinks
<1>10. InOrder'
  <2>1. \A c \in Targets(key) : BelowAfter(c, e, n)
    <3>1. \A c \in Targets(key) : Below(c, e, n)
      BY <1>1, <1>4, BelowNext DEF InOrder, n
    <3> QED BY <1>2, <3>1 DEF Below, BelowAfter
  <2>2. \A g \in Emitter \ {e} : task[g].op = "awaiting" => task[g].targets \subseteq Client
    BY <1>1, TaskFacts DEF HubTypeOK
  <2> QED BY <1>1, <1>3, <1>5, <1>6, <1>9, <2>1, <2>2, OrderStays
<1> QED BY <1>7, <1>8, <1>10 DEF HubInv

\* The frame of e goes to c, or c will be removed.
LEMMA AwaitSendFacts ==
    ASSUME HubTypeOK, NEW e \in Emitter, NEW c \in Client, AwaitSend(e, c)
    PROVE  /\ task[e].op = "awaiting" /\ c \in task[e].targets
           /\ task[e].n \in Nat \ {0} /\ task[e].targets \subseteq Client
           /\ queue' \in [Client -> Seq(Frames)] /\ \A d \in Client : Len(queue'[d]) <= QueueCap
           /\ \A d \in Client \ {c} : queue'[d] = queue[d]
           /\ queue'[c] = IF CanSend(c) THEN Append(queue[c], Frame(e, task[e].n)) ELSE queue[c]
           /\ task' \in [Emitter -> Tasks] /\ \A g \in Emitter \ {e} : task'[g] = task[g]
           /\ \A g \in Driver : task'[g].op \in {"idle", "awaiting"}
           /\ task'[e].op = "awaiting" /\ task'[e].n = task[e].n
           /\ task'[e].targets = task[e].targets \ {c}
           /\ task'[e].evict = IF CanSend(c) \/ c = Local THEN task[e].evict
                               ELSE task[e].evict \cup {c}
           /\ UNCHANGED <<clients, feed, pump, reading, inbound, emitted, seen, asked>>
<1> DEFINE V == IF CanSend(c) \/ c = Local THEN task[e].evict ELSE task[e].evict \cup {c}
           t == Awaiting(task[e].n, task[e].targets \ {c}, V)
<1>1. /\ task[e].op = "awaiting" /\ c \in task[e].targets
      /\ queue' = IF CanSend(c) THEN [queue EXCEPT ![c] = Append(@, Frame(e, task[e].n))] ELSE queue
      /\ Does(e, t)
      /\ UNCHANGED <<clients, feed, pump, reading, inbound, emitted, seen, asked>>
  BY DEF AwaitSend
<1>2. /\ task[e].n \in Nat \ {0} /\ task[e].targets \subseteq Client
      /\ task[e].evict \subseteq Client
  BY <1>1, TaskFacts DEF HubTypeOK
<1>3. V \in SUBSET Client
  BY <1>2
<1> HIDE DEF V
<1>4. /\ t \in Tasks /\ t.op = "awaiting" /\ t.n = task[e].n
      /\ t.targets = task[e].targets \ {c} /\ t.evict = V
  BY <1>2, <1>3, NewAwaiting
<1> HIDE DEF t
<1>5. /\ task' \in [Emitter -> Tasks] /\ task'[e] = t
      /\ \A g \in Emitter \ {e} : task'[g] = task[g]
      /\ \A g \in Driver : task'[g].op \in {"idle", "awaiting"}
  BY <1>1, <1>4, DoesFacts
<1>6. /\ queue' \in [Client -> Seq(Frames)] /\ \A d \in Client : Len(queue'[d]) <= QueueCap
      /\ \A d \in Client \ {c} : queue'[d] = queue[d]
      /\ queue'[c] = IF CanSend(c) THEN Append(queue[c], Frame(e, task[e].n)) ELSE queue[c]
  <2>1. CASE CanSend(c)
    <3>1. Frame(e, task[e].n) \in Frames
      BY <1>2, FrameFacts
    <3>2. queue' = [queue EXCEPT ![c] = Append(@, Frame(e, task[e].n))]
      BY <1>1, <2>1
    <3> QED BY <2>1, <3>1, <3>2, SentFacts
  <2>2. CASE ~CanSend(c)
    BY <1>1, <2>2 DEF HubTypeOK
  <2> QED BY <2>1, <2>2
<1> QED BY <1>1, <1>2, <1>4, <1>5, <1>6 DEF V

\* The frame that is sent is newer than what its client has queued.
LEMMA AwaitSendHeld ==
    ASSUME HubInv, NEW e \in Emitter, NEW c \in Client, AwaitSend(e, c)
    PROVE  HubInv'
<1>1. HubTypeOK /\ Wired /\ InOrder
  BY DEF HubInv
<1>2. /\ task[e].op = "awaiting" /\ c \in task[e].targets
      /\ task[e].n \in Nat \ {0} /\ task[e].targets \subseteq Client
      /\ queue' \in [Client -> Seq(Frames)] /\ \A d \in Client : Len(queue'[d]) <= QueueCap
      /\ \A d \in Client \ {c} : queue'[d] = queue[d]
      /\ queue'[c] = IF CanSend(c) THEN Append(queue[c], Frame(e, task[e].n)) ELSE queue[c]
      /\ task' \in [Emitter -> Tasks] /\ \A g \in Emitter \ {e} : task'[g] = task[g]
      /\ \A g \in Driver : task'[g].op \in {"idle", "awaiting"}
      /\ task'[e].op = "awaiting" /\ task'[e].n = task[e].n
      /\ task'[e].targets = task[e].targets \ {c}
      /\ task'[e].evict \subseteq task[e].evict \cup {c}
      /\ UNCHANGED <<clients, feed, pump, reading, inbound, emitted, seen, asked>>
  BY <1>1, AwaitSendFacts
<1>3. HubTypeOK'
  BY <1>1, <1>2 DEF HubTypeOK
<1>4. Wired'
  <2>1. \A d \in Client : pump[d] # "on" => queue'[d] = queue[d]
    BY <1>2 DEF CanSend
  <2> QED BY <1>1, <1>2, <2>1 DEF Wired
<1>5. InOrder'
  <2>1. task[e].n = emitted[e] /\ Below(c, e, task[e].n)
    BY <1>1, <1>2 DEF InOrder
  <2>2. Shrinks(c) \/ Grows(c, e, task[e].n)
    BY <1>1, <1>2, <2>1 DEF Shrinks, Grows, HubTypeOK
  <2>3. \A d \in Client \ {c} : Shrinks(d)
    BY <1>2 DEF Shrinks
  <2>4. \A d \in Client : Shrinks(d) \/ \E n \in Nat : Grows(d, e, n)
    BY <1>2, <2>2, <2>3
  <2>5. \A g \in Emitter : emitted'[g] \in Nat /\ emitted[g] <= emitted'[g]
    BY <1>1, <1>2 DEF HubTypeOK
  <2>6. \A g \in Emitter \ {e} : task[g].op = "awaiting" => task[g].targets \subseteq Client
    BY <1>1, TaskFacts DEF HubTypeOK
  <2>7. ASSUME NEW g \in Emitter, task'[g].op = "awaiting"
        PROVE  /\ task[g].op = "awaiting" /\ task'[g].n = task[g].n
               /\ emitted'[g] = emitted[g] /\ task'[g].targets \subseteq task[g].targets
               /\ \A d \in task'[g].targets : d \in Client /\ (g = e => Shrinks(d))
    <3>1. CASE g = e
      BY <1>2, <2>3, <3>1
    <3>2. CASE g # e
      BY <1>2, <2>6, <2>7, <3>2
    <3> QED BY <3>1, <3>2
  <2> QED BY <1>1, <2>4, <2>5, <2>7, OrderStays
<1> QED BY <1>3, <1>4, <1>5 DEF HubInv

\* A step in which queues only shrink and tasks go on, or end what they did, keeps
\* the order.
LEMMA QuietOrder ==
    ASSUME HubTypeOK, InOrder, emitted' = emitted, \A c \in Client : Shrinks(c),
           \A g \in Emitter : task'[g] = task[g] \/ task'[g].op # "awaiting"
    PROVE  InOrder'
<1>1. \A g \in Emitter : emitted'[g] \in Nat /\ emitted[g] <= emitted'[g]
  BY DEF HubTypeOK
<1>2. \A g \in Emitter : task[g].op = "awaiting" => task[g].targets \subseteq Client
  BY TaskFacts DEF HubTypeOK
<1>3. Loop \in Emitter
  BY DEF Emitter
<1> QED BY <1>1, <1>2, <1>3, OrderStays

\* A task ends what it did, or begins what is not awaited: the wiring stays.
LEMMA QuietWired ==
    ASSUME HubTypeOK, Wired, UNCHANGED <<pump, reading>>, clients' \subseteq clients,
           \A c \in Client : pump[c] # "on" => queue'[c] = queue[c],
           \A g \in Emitter : task'[g] = task[g] \/ task'[g].op # "awaiting"
    PROVE  Wired'
  BY DEF Wired

\* The second half of an awaited broadcast ends.
LEMMA AwaitEndHeld ==
    ASSUME HubInv, NEW e \in Emitter, AwaitEnd(e)
    PROVE  HubInv'
<1>1. HubTypeOK /\ Wired /\ InOrder
  BY DEF HubInv
<1>2. /\ clients' \subseteq clients /\ Does(e, Idle)
      /\ UNCHANGED <<feed, queue, pump, reading, inbound, emitted, seen, asked>>
  BY DEF AwaitEnd
<1>3. Idle \in Tasks /\ Idle.op = "idle"
  BY NewTasks
<1>4. /\ task' \in [Emitter -> Tasks] /\ task'[e].op = "idle"
      /\ \A g \in Emitter \ {e} : task'[g] = task[g]
      /\ \A g \in Driver : task'[g].op \in {"idle", "awaiting"}
  BY <1>1, <1>2, <1>3, DoesFacts
<1>5. HubTypeOK'
  BY <1>1, <1>2, <1>4 DEF HubTypeOK
<1>6. \A g \in Emitter : task'[g] = task[g] \/ task'[g].op # "awaiting"
  BY <1>4
<1>7. \A c \in Client : Shrinks(c)
  BY <1>2 DEF Shrinks
<1> QED BY <1>1, <1>2, <1>5, <1>6, <1>7, QuietOrder, QuietWired DEF HubInv

\* What the main loop does with a request.
LEMMA HandleFacts ==
    ASSUME HubTypeOK, NEW c \in Client, Handle(c)
    PROVE  /\ inbound # <<>> /\ inbound' = Tail(inbound)
           /\ UNCHANGED <<queue, pump, reading, emitted, seen, asked>>
           /\ task' \in [Emitter -> Tasks] /\ \A g \in Emitter \ {Loop} : task'[g] = task[g]
           /\ \A g \in Driver : task'[g].op \in {"idle", "awaiting"}
           /\ task[Loop].op = "idle" /\ task'[Loop].op # "awaiting"
           /\ \/ UNCHANGED <<clients, feed>>
              \/ \E threads \in SUBSET Thread :
                   /\ c # Local /\ c \in clients
                   /\ feed' = [feed EXCEPT ![c] = threads] /\ UNCHANGED clients
              \/ \E d \in clients \ {Local} : clients' = clients \ {d} /\ UNCHANGED feed
<1>1. /\ task[Loop] = Idle /\ inbound # <<>> /\ inbound' = Tail(inbound)
      /\ UNCHANGED <<queue, pump, reading, emitted, seen, asked>>
  BY DEF Handle
<1>2. Loop \in Emitter /\ task[Loop].op = "idle"
  BY <1>1, NewTasks DEF Emitter
<1>3. CASE c \in clients \cup {Local}
  <2>1. Served(c)
    BY <1>3 DEF Handle
  <2> DEFINE t == IF c \in clients' THEN Replying(c) ELSE Refused(c)
  <2>2. Does(Loop, t)
    BY <2>1 DEF Served
  <2>3. t \in Tasks /\ t.op # "awaiting"
    BY NewTasks
  <2> HIDE DEF t
  <2>4. /\ task' \in [Emitter -> Tasks] /\ task'[Loop] = t
        /\ \A g \in Emitter \ {Loop} : task'[g] = task[g]
        /\ \A g \in Driver : task'[g].op \in {"idle", "awaiting"}
    BY <1>2, <2>2, <2>3, DoesFacts
  <2> QED BY <1>1, <1>2, <1>3, <2>1, <2>3, <2>4 DEF Served
<1>4. CASE c \notin clients \cup {Local}
  <2>1. UNCHANGED <<clients, feed, task>>
    BY <1>4 DEF Handle
  <2> QED BY <1>1, <1>2, <2>1 DEF HubTypeOK
<1> QED BY <1>3, <1>4

\* Whatever a request does, its client has connected.
LEMMA HandleHeld ==
    ASSUME HubInv, NEW c \in Client, Handle(c)
    PROVE  HubInv'
<1>1. HubTypeOK /\ Wired /\ InOrder
  BY DEF HubInv
<1>2. /\ inbound # <<>> /\ inbound' = Tail(inbound)
      /\ UNCHANGED <<queue, pump, reading, emitted, seen, asked>>
      /\ task' \in [Emitter -> Tasks] /\ \A g \in Emitter \ {Loop} : task'[g] = task[g]
      /\ \A g \in Driver : task'[g].op \in {"idle", "awaiting"}
      /\ task'[Loop].op # "awaiting"
      /\ clients' \subseteq clients /\ feed' \in [Client -> SUBSET Thread]
  BY <1>1, HandleFacts DEF HubTypeOK
<1>3. inbound' \in Seq(Client) /\ Len(inbound') <= InboundCap
  BY <1>1, <1>2, Tailed DEF HubTypeOK
<1>4. HubTypeOK'
  BY <1>1, <1>2, <1>3 DEF HubTypeOK
<1>5. \A g \in Emitter : task'[g] = task[g] \/ task'[g].op # "awaiting"
  BY <1>2
<1>6. \A d \in Client : Shrinks(d)
  BY <1>2 DEF Shrinks
<1> QED BY <1>1, <1>2, <1>4, <1>5, <1>6, QuietOrder, QuietWired DEF HubInv

\* The reply is refused.
LEMMA ReplyRefusedHeld ==
    ASSUME HubInv, NEW c \in Client, ReplyRefused(c)
    PROVE  HubInv'
<1>1. HubTypeOK /\ Wired /\ InOrder
  BY DEF HubInv
<1>2. /\ clients' = clients \ {c} /\ Does(Loop, Refused(c))
      /\ UNCHANGED <<feed, queue, pump, reading, inbound, emitted, seen, asked>>
  BY DEF ReplyRefused
<1>3. Refused(c) \in Tasks /\ Refused(c).op # "awaiting" /\ Loop \in Emitter
  BY NewTasks DEF Emitter
<1>4. /\ task' \in [Emitter -> Tasks] /\ task'[Loop] = Refused(c)
      /\ \A g \in Emitter \ {Loop} : task'[g] = task[g]
      /\ \A g \in Driver : task'[g].op \in {"idle", "awaiting"}
  BY <1>1, <1>2, <1>3, DoesFacts
<1>5. HubTypeOK'
  BY <1>1, <1>2, <1>4 DEF HubTypeOK
<1>6. \A g \in Emitter : task'[g] = task[g] \/ task'[g].op # "awaiting"
  BY <1>3, <1>4
<1>7. \A d \in Client : Shrinks(d)
  BY <1>2 DEF Shrinks
<1> QED BY <1>1, <1>2, <1>5, <1>6, <1>7, QuietOrder, QuietWired DEF HubInv

\* What a reply does to the queue of c: it is a frame that is not counted.
LEMMA ReplySentFacts ==
    ASSUME HubTypeOK, NEW c \in Client, ReplySent(c)
    PROVE  /\ queue' \in [Client -> Seq(Frames)] /\ \A d \in Client : Len(queue'[d]) <= QueueCap
           /\ \A d \in Client \ {c} : queue'[d] = queue[d]
           /\ queue'[c] = Append(queue[c], Frame(Loop, Reply)) /\ pump[c] = "on"
           /\ task' \in [Emitter -> Tasks] /\ \A g \in Emitter \ {Loop} : task'[g] = task[g]
           /\ \A g \in Driver : task'[g].op \in {"idle", "awaiting"}
           /\ task[Loop].op = "replying" /\ task'[Loop].op = "idle"
           /\ UNCHANGED <<clients, feed, pump, reading, inbound, emitted, seen, asked>>
<1>1. /\ task[Loop] = Replying(c) /\ CanSend(c) /\ Does(Loop, Idle)
      /\ queue' = [queue EXCEPT ![c] = Append(@, Frame(Loop, Reply))]
      /\ UNCHANGED <<clients, feed, pump, reading, inbound, emitted, seen, asked>>
  BY DEF ReplySent
<1>2. Loop \in Emitter /\ Idle \in Tasks /\ Idle.op = "idle" /\ Replying(c).op = "replying"
  BY NewTasks DEF Emitter
<1>3. Frame(Loop, Reply) \in Frames
  BY <1>2, FrameFacts DEF Reply
<1>4. /\ task' \in [Emitter -> Tasks] /\ task'[Loop] = Idle
      /\ \A g \in Emitter \ {Loop} : task'[g] = task[g]
      /\ \A g \in Driver : task'[g].op \in {"idle", "awaiting"}
  BY <1>1, <1>2, DoesFacts
<1>5. /\ queue' \in [Client -> Seq(Frames)] /\ \A d \in Client : Len(queue'[d]) <= QueueCap
      /\ queue'[c] = Append(queue[c], Frame(Loop, Reply))
      /\ \A d \in Client \ {c} : queue'[d] = queue[d]
  BY <1>1, <1>3, SentFacts
<1> QED BY <1>1, <1>2, <1>4, <1>5 DEF CanSend

\* The reply is sent.
LEMMA ReplySentHeld ==
    ASSUME HubInv, NEW c \in Client, ReplySent(c)
    PROVE  HubInv'
<1>1. HubTypeOK /\ Wired /\ InOrder
  BY DEF HubInv
<1>2. /\ queue' \in [Client -> Seq(Frames)] /\ \A d \in Client : Len(queue'[d]) <= QueueCap
      /\ \A d \in Client \ {c} : queue'[d] = queue[d]
      /\ queue'[c] = Append(queue[c], Frame(Loop, Reply)) /\ pump[c] = "on"
      /\ task' \in [Emitter -> Tasks] /\ \A g \in Emitter \ {Loop} : task'[g] = task[g]
      /\ \A g \in Driver : task'[g].op \in {"idle", "awaiting"}
      /\ task'[Loop].op = "idle"
      /\ UNCHANGED <<clients, feed, pump, reading, inbound, emitted, seen, asked>>
  BY <1>1, ReplySentFacts
<1>3. HubTypeOK'
  BY <1>1, <1>2 DEF HubTypeOK
<1>4. Wired'
  BY <1>1, <1>2, QuietWired
<1>5. InOrder'
  <2>1. \A g \in Emitter : emitted'[g] \in Nat /\ emitted[g] <= emitted'[g]
    BY <1>1, <1>2 DEF HubTypeOK
  <2>2. Loop \in Emitter /\ Grows(c, Loop, Reply) /\ Reply \in Nat
    <3>1. Loop \in Emitter /\ Reply \in Nat
      BY DEF Emitter, Reply
    <3>2. Reply <= emitted'[Loop]
      BY <2>1, <3>1 DEF Reply
    <3> QED BY <1>2, <3>1, <3>2 DEF Grows
  <2>3. \A d \in Client : Shrinks(d) \/ \E n \in Nat : Grows(d, Loop, n)
    BY <1>2, <2>2 DEF Shrinks
  <2>4. \A g \in Emitter : task[g].op = "awaiting" => task[g].targets \subseteq Client
    BY <1>1, TaskFacts DEF HubTypeOK
  <2>5. ASSUME NEW g \in Emitter, task'[g].op = "awaiting"
        PROVE  /\ task[g].op = "awaiting" /\ task'[g].n = task[g].n
               /\ emitted'[g] = emitted[g] /\ task'[g].targets \subseteq task[g].targets
               /\ \A d \in task'[g].targets : d \in Client /\ (g = Loop => Shrinks(d))
    BY <1>2, <2>4, <2>5
  <2> QED BY <1>1, <2>1, <2>2, <2>3, <2>5, OrderStays
<1> QED BY <1>3, <1>4, <1>5 DEF HubInv

\* A connection is made: it has nothing queued, and nothing is awaited for it.
LEMMA ConnectHeld ==
    ASSUME HubInv, NEW c \in Client, Connect(c)
    PROVE  HubInv'
<1>1. HubTypeOK /\ Wired /\ InOrder
  BY DEF HubInv
<1>2. /\ clients' = clients \cup {c} /\ pump' = [pump EXCEPT ![c] = "on"]
      /\ reading' = [reading EXCEPT ![c] = "waiting"]
      /\ UNCHANGED <<feed, queue, inbound, task, emitted, seen, asked>>
  BY DEF Connect
<1>3. HubTypeOK'
  BY <1>1, <1>2 DEF HubTypeOK
<1>4. Wired'
  BY <1>1, <1>2, TaskFacts DEF Wired, HubTypeOK
<1>5. \A d \in Client : Shrinks(d)
  BY <1>2 DEF Shrinks
<1> QED BY <1>1, <1>2, <1>3, <1>4, <1>5, QuietOrder DEF HubInv

\* A client asks, and its request is taken.
LEMMA AskHeld ==
    ASSUME HubInv, NEW c \in Client, Ask(c) \/ Offer(c)
    PROVE  HubInv'
<1>1. HubTypeOK /\ Wired /\ InOrder
  BY DEF HubInv
<1>2. /\ UNCHANGED <<clients, feed, queue, pump, task, emitted, seen>>
      /\ reading[c] \in {"waiting", "offering"}
      /\ \E r \in {"waiting", "offering"} : reading' = [reading EXCEPT ![c] = r]
  BY DEF Ask, Offer
<1>3. asked' \in 0 .. MaxAsks /\ inbound' \in Seq(Client) /\ Len(inbound') <= InboundCap
  <2>1. CASE Ask(c)
    BY <1>1, <2>1 DEF Ask, HubTypeOK
  <2>2. CASE Offer(c)
    BY <1>1, <2>2, Appended DEF Offer, HubTypeOK
  <2> QED BY <2>1, <2>2
<1>4. HubTypeOK'
  BY <1>1, <1>2, <1>3 DEF HubTypeOK
<1>5. Wired'
  BY <1>1, <1>2 DEF Wired, HubTypeOK
<1>6. \A d \in Client : Shrinks(d)
  BY <1>2 DEF Shrinks
<1> QED BY <1>1, <1>2, <1>4, <1>5, <1>6, QuietOrder DEF HubInv

\* What a pump does: it takes the head of its queue.
LEMMA PumpFacts ==
    ASSUME HubTypeOK, NEW c \in Client, Pump(c)
    PROVE  /\ pump[c] = "on" /\ queue[c] # <<>> /\ Head(queue[c]) \in Frames
           /\ queue' \in [Client -> Seq(Frames)] /\ \A d \in Client : Len(queue'[d]) <= QueueCap
           /\ queue'[c] = Tail(queue[c]) /\ \A d \in Client \ {c} : queue'[d] = queue[d]
           /\ seen' = IF Head(queue[c]).n = Reply THEN seen
                      ELSE [seen EXCEPT ![c][Head(queue[c]).from] = Head(queue[c]).n]
           /\ seen' \in [Client -> [Emitter -> Nat]]
           /\ UNCHANGED <<clients, feed, pump, reading, inbound, task, emitted, asked>>
<1>1. /\ pump[c] = "on" /\ queue[c] # <<>>
      /\ queue' = [queue EXCEPT ![c] = Tail(queue[c])]
      /\ seen' = IF Head(queue[c]).n = Reply THEN seen
                 ELSE [seen EXCEPT ![c][Head(queue[c]).from] = Head(queue[c]).n]
      /\ UNCHANGED <<clients, feed, pump, reading, inbound, task, emitted, asked>>
  BY DEF Pump, HubTypeOK
<1>2. queue[c] \in Seq(Frames) /\ Len(queue[c]) <= QueueCap
  BY DEF HubTypeOK
<1>3. /\ Tail(queue[c]) \in Seq(Frames) /\ Len(Tail(queue[c])) <= QueueCap
      /\ Head(queue[c]) \in Frames
  BY <1>1, <1>2, Tailed
<1>4. seen' \in [Client -> [Emitter -> Nat]]
  BY <1>1, <1>3 DEF HubTypeOK, Frames
<1> QED BY <1>1, <1>3, <1>4, QueueFacts

\* A pump writes a frame.
LEMMA PumpHeld ==
    ASSUME HubInv, NEW c \in Client, Pump(c)
    PROVE  HubInv'
<1>1. HubTypeOK /\ Wired /\ InOrder
  BY DEF HubInv
<1>2. /\ pump[c] = "on" /\ queue[c] # <<>>
      /\ queue' \in [Client -> Seq(Frames)] /\ \A d \in Client : Len(queue'[d]) <= QueueCap
      /\ queue'[c] = Tail(queue[c]) /\ \A d \in Client \ {c} : queue'[d] = queue[d]
      /\ seen' \in [Client -> [Emitter -> Nat]]
      /\ UNCHANGED <<clients, feed, pump, reading, inbound, task, emitted, asked>>
  BY <1>1, PumpFacts
<1>3. HubTypeOK'
  BY <1>1, <1>2 DEF HubTypeOK
<1>4. \A d \in Client : Shrinks(d)
  BY <1>2 DEF Shrinks
<1> QED BY <1>1, <1>2, <1>3, <1>4, QuietOrder, QuietWired DEF HubInv

\* A connection ends: its queue is dropped with its pump.
LEMMA CloseHeld ==
    ASSUME HubInv, NEW c \in Client, Closes(c), pump[c] # "none",
           clients' \subseteq clients,
           reading' = reading \/ reading' = [reading EXCEPT ![c] = "closed"],
           UNCHANGED <<feed, inbound, task, emitted, seen, asked>>
    PROVE  HubInv'
<1>1. HubTypeOK /\ Wired /\ InOrder
  BY DEF HubInv
<1>2. pump' = [pump EXCEPT ![c] = "dead"] /\ queue' = [queue EXCEPT ![c] = <<>>]
  BY DEF Closes
<1>3. <<>> \in Seq(Frames) /\ Len(<<>>) <= QueueCap
  OBVIOUS
<1>4. /\ queue' \in [Client -> Seq(Frames)] /\ \A d \in Client : Len(queue'[d]) <= QueueCap
      /\ queue'[c] = <<>> /\ \A d \in Client \ {c} : queue'[d] = queue[d]
  BY <1>1, <1>2, <1>3, QueueFacts
<1>5. HubTypeOK'
  BY <1>1, <1>2, <1>4 DEF HubTypeOK
<1>6. Wired'
  <2>1. reading[c] # "none"
    BY <1>1 DEF Wired
  <2> QED BY <1>1, <1>2, <1>4, <2>1 DEF Wired, HubTypeOK
<1>7. \A d \in Client : Shrinks(d)
  BY <1>4 DEF Shrinks
<1> QED BY <1>1, <1>5, <1>6, <1>7, QuietOrder DEF HubInv

\* The ways in which a connection ends.
LEMMA Ending ==
    ASSUME HubInv, NEW c \in Client, PumpFails(c) \/ Hangup(c) \/ Kicked(c)
    PROVE  /\ Closes(c) /\ pump[c] \in {"on", "dead"}
           /\ clients' = clients \/ clients' = clients \ {c}
           /\ reading' = reading \/ reading' = [reading EXCEPT ![c] = "closed"]
           /\ UNCHANGED <<feed, inbound, task, emitted, seen, asked>>
<1>1. HubTypeOK /\ Wired
  BY DEF HubInv
<1>2. CASE PumpFails(c)
  BY <1>2 DEF PumpFails
<1>3. CASE Hangup(c) \/ Kicked(c)
  <2>1. reading[c] = "waiting" /\ TearDown(c)
    BY <1>3 DEF Hangup, Kicked
  <2>2. pump[c] \in {"on", "dead"}
    BY <1>1, <2>1 DEF Wired, HubTypeOK
  <2> QED BY <2>1, <2>2 DEF TearDown
<1> QED BY <1>2, <1>3

\* Every step keeps the invariant.
LEMMA HubInvIsInductive ==
    ASSUME HubInv, [HubNext]_hubVars
    PROVE  HubInv'
<1>1. ASSUME NEW e \in Emitter, FansOut(e)
      PROVE  HubInv'
  BY <1>1, BroadcastForHeld, AwaitStartHeld DEF FansOut
<1>2. ASSUME NEW e \in Emitter, Waits(e)
      PROVE  HubInv'
  BY <1>2, AwaitEndHeld, AwaitSendHeld DEF Waits
<1>3. CASE Serves
  BY <1>3, HandleHeld, ReplyRefusedHeld, ReplySentHeld DEF Serves
<1>4. ASSUME NEW c \in Client, Connect(c) \/ Ask(c) \/ Offer(c) \/ Pump(c)
      PROVE  HubInv'
  BY <1>4, ConnectHeld, AskHeld, PumpHeld
<1>5. ASSUME NEW c \in Client, PumpFails(c) \/ Hangup(c) \/ Kicked(c)
      PROVE  HubInv'
  <2>1. /\ Closes(c) /\ pump[c] # "none" /\ clients' \subseteq clients
        /\ reading' = reading \/ reading' = [reading EXCEPT ![c] = "closed"]
        /\ UNCHANGED <<feed, inbound, task, emitted, seen, asked>>
    BY <1>5, Ending
  <2> QED BY <2>1, CloseHeld
<1>6. CASE UNCHANGED hubVars
  BY <1>6 DEF hubVars, HubInv, HubTypeOK, Wired, InOrder, Ordered, Below
<1> QED BY <1>1, <1>2, <1>3, <1>4, <1>5, <1>6 DEF HubNext

\* It holds of a server that starts.
LEMMA HubInitInv ==
    ASSUME HubInit
    PROVE  HubInv
<1>1. HubTypeOK
  <2>1. Idle \in Tasks /\ Idle.op = "idle"
    BY NewTasks
  <2> QED BY <2>1 DEF HubInit, HubTypeOK, Emitter
<1>2. Wired /\ InOrder
  BY DEF HubInit, Wired, InOrder, Ordered, Idle
<1> QED BY <1>1, <1>2 DEF HubInv

\* HubTypeOK, and what the refinement needs: whoever is registered or waited for has
\* connected, and the frames of each emitter are queued in the order of their numbers.
THEOREM HubCorrect == HubSpec => []HubInv
BY HubInitInv, HubInvIsInductive, PTL DEF HubSpec

-----------------------------------------------------------------------------
(* The refinement.                                                         *)

\* What FrameFeed sees of a client is as before.
Same(c) ==
    /\ Standing(c)' = Standing(c) /\ Holes(c)' = Holes(c)
    /\ \A e \in Emitter : Owed(c, e)' = Owed(c, e)

FeedStep == [Feed!FeedNext]_(Feed!feedVars)

\* A step that FrameFeed does not see.
LEMMA StepIsHidden ==
    ASSUME UNCHANGED <<emitted, feed, seen>>, Keeping' = Keeping, \A c \in Client : Same(c)
    PROVE  FeedStep
<1>1. /\ [c \in Client |-> Standing(c)]' = [c \in Client |-> Standing(c)]
      /\ [c \in Client |-> Holes(c)]' = [c \in Client |-> Holes(c)]
      /\ [c \in Client |-> [e \in Emitter |-> Owed(c, e)]]'
            = [c \in Client |-> [e \in Emitter |-> Owed(c, e)]]
  BY DEF Same
<1> QED BY <1>1 DEF FeedStep, Feed!feedVars

\* A client joins.
LEMMA StepIsJoin ==
    ASSUME NEW c \in Client, UNCHANGED <<emitted, feed, seen>>, Keeping' = Keeping,
           \A d \in Client \ {c} : Same(d),
           Standing(c) = "absent", Standing(c)' = "present", Holes(c)' = Holes(c),
           \A e \in Emitter : Owed(c, e)' = Owed(c, e)
    PROVE  FeedStep
<1>1. /\ [d \in Client |-> Standing(d)]' = [[d \in Client |-> Standing(d)] EXCEPT ![c] = "present"]
      /\ [d \in Client |-> Holes(d)]' = [d \in Client |-> Holes(d)]
      /\ [d \in Client |-> [e \in Emitter |-> Owed(d, e)]]'
            = [d \in Client |-> [e \in Emitter |-> Owed(d, e)]]
  BY DEF Same
<1>2. Feed!Join(c)
  BY <1>1 DEF Feed!Join
<1> QED BY <1>2 DEF FeedStep, Feed!FeedNext

\* A client chooses what it follows.
LEMMA StepIsFollow ==
    ASSUME NEW c \in Client \ {Local}, NEW threads \in SUBSET Thread,
           UNCHANGED <<emitted, seen>>, Keeping' = Keeping,
           feed' = [feed EXCEPT ![c] = threads], Standing(c) # "absent",
           \A d \in Client : Same(d)
    PROVE  FeedStep
<1>1. /\ [d \in Client |-> Standing(d)]' = [d \in Client |-> Standing(d)]
      /\ [d \in Client |-> Holes(d)]' = [d \in Client |-> Holes(d)]
      /\ [d \in Client |-> [e \in Emitter |-> Owed(d, e)]]'
            = [d \in Client |-> [e \in Emitter |-> Owed(d, e)]]
  BY DEF Same
<1>2. Feed!Follow(c, threads)
  BY <1>1 DEF Feed!Follow
<1> QED BY <1>2 DEF FeedStep, Feed!FeedNext

\* A client is revoked.
LEMMA StepIsRevoke ==
    ASSUME NEW c \in Client \ {Local}, UNCHANGED <<emitted, feed, seen>>, Keeping' = Keeping,
           \A d \in Client \ {c} : Same(d),
           Standing(c) = "present", Standing(c)' = "leaving", Holes(c)' = Holes(c),
           \A e \in Emitter : Owed(c, e)' = Owed(c, e)
    PROVE  FeedStep
<1>1. /\ [d \in Client |-> Standing(d)]' = [[d \in Client |-> Standing(d)] EXCEPT ![c] = "leaving"]
      /\ [d \in Client |-> Holes(d)]' = [d \in Client |-> Holes(d)]
      /\ [d \in Client |-> [e \in Emitter |-> Owed(d, e)]]'
            = [d \in Client |-> [e \in Emitter |-> Owed(d, e)]]
  BY DEF Same
<1>2. Feed!Revoke(c)
  BY <1>1 DEF Feed!Revoke
<1> QED BY <1>2 DEF FeedStep, Feed!FeedNext

\* A client parts.
LEMMA StepIsPart ==
    ASSUME NEW c \in Client, UNCHANGED <<emitted, feed, seen>>, Keeping' = Keeping,
           \A d \in Client \ {c} : Same(d),
           Standing(c) \in {"present", "leaving"}, Standing(c)' = "gone", Holes(c)' = {},
           \A e \in Emitter : Owed(c, e)' = {}
    PROVE  FeedStep
<1>1. /\ [d \in Client |-> Standing(d)]' = [[d \in Client |-> Standing(d)] EXCEPT ![c] = "gone"]
      /\ [d \in Client |-> Holes(d)]' = [[d \in Client |-> Holes(d)] EXCEPT ![c] = {}]
  BY DEF Same
<1>2. [d \in Client |-> [e \in Emitter |-> Owed(d, e)]]'
         = [[d \in Client |-> [e \in Emitter |-> Owed(d, e)]] EXCEPT ![c] = [e \in Emitter |-> {}]]
  BY DEF Same
<1>3. Feed!Part(c)
  BY <1>1, <1>2 DEF Feed!Part
<1> QED BY <1>3 DEF FeedStep, Feed!FeedNext

\* One client's frames of one emitter change.
LEMMA OwedChanges ==
    ASSUME NEW c \in Client, NEW e \in Emitter, NEW S, Owed(c, e)' = S,
           \A g \in Emitter \ {e} : Owed(c, g)' = Owed(c, g),
           \A d \in Client \ {c} : Same(d)
    PROVE  [d \in Client |-> [g \in Emitter |-> Owed(d, g)]]'
              = [[d \in Client |-> [g \in Emitter |-> Owed(d, g)]] EXCEPT ![c][e] = S]
<1> DEFINE old == [d \in Client |-> [g \in Emitter |-> Owed(d, g)]]
<1>1. [g \in Emitter |-> Owed(c, g)'] = [[g \in Emitter |-> Owed(c, g)] EXCEPT ![e] = S]
  OBVIOUS
<1>2. [old EXCEPT ![c][e] = S] = [old EXCEPT ![c] = [[g \in Emitter |-> Owed(c, g)] EXCEPT ![e] = S]]
  OBVIOUS
<1>3. \A d \in Client \ {c} : [g \in Emitter |-> Owed(d, g)'] = [g \in Emitter |-> Owed(d, g)]
  BY DEF Same
<1>4. old' = [d \in Client |-> [g \in Emitter |-> Owed(d, g)']]
  OBVIOUS
<1>5. old' = [old EXCEPT ![c] = [g \in Emitter |-> Owed(c, g)']]
  BY <1>3, <1>4
<1> QED BY <1>1, <1>2, <1>5

\* A client receives the oldest frame it is owed.
LEMMA StepIsReceive ==
    ASSUME NEW c \in Client, NEW e \in Emitter, NEW n \in Owed(c, e),
           \A m \in Owed(c, e) : n <= m,
           UNCHANGED <<emitted, feed>>, Keeping' = Keeping, seen' = [seen EXCEPT ![c][e] = n],
           \A d \in Client \ {c} : Same(d),
           Standing(c) \in {"present", "leaving"}, Standing(c)' = Standing(c),
           Holes(c)' = Holes(c), Owed(c, e)' = Owed(c, e) \ {n},
           \A g \in Emitter \ {e} : Owed(c, g)' = Owed(c, g)
    PROVE  FeedStep
<1>1. /\ [d \in Client |-> Standing(d)]' = [d \in Client |-> Standing(d)]
      /\ [d \in Client |-> Holes(d)]' = [d \in Client |-> Holes(d)]
  BY DEF Same
<1> DEFINE rest == Owed(c, e) \ {n}
<1>2. [d \in Client |-> [g \in Emitter |-> Owed(d, g)]]'
         = [[d \in Client |-> [g \in Emitter |-> Owed(d, g)]] EXCEPT ![c][e] = rest]
  <2>1. Owed(c, e)' = rest /\ \A g \in Emitter \ {e} : Owed(c, g)' = Owed(c, g)
    OBVIOUS
  <2> HIDE DEF rest
  <2> QED BY <2>1, OwedChanges
<1>3. Feed!Receive(c, e)
  BY <1>1, <1>2 DEF Feed!Receive
<1> QED BY <1>3 DEF FeedStep, Feed!FeedNext

\* A client does without the frame that e sees through.
LEMMA StepIsGiveUp ==
    ASSUME NEW c \in Client \ {Local}, NEW e \in Keeping, emitted[e] \in Owed(c, e),
           UNCHANGED <<emitted, feed, seen>>, Keeping' = Keeping,
           \A d \in Client \ {c} : Same(d), Standing(c)' = Standing(c),
           Holes(c)' = Holes(c) \cup {e}, Owed(c, e)' = Owed(c, e) \ {emitted[e]},
           \A g \in Emitter \ {e} : Owed(c, g)' = Owed(c, g)
    PROVE  FeedStep
<1>1. /\ [d \in Client |-> Standing(d)]' = [d \in Client |-> Standing(d)]
      /\ [d \in Client |-> Holes(d)]' = [[d \in Client |-> Holes(d)] EXCEPT ![c] = Holes(c) \cup {e}]
  BY DEF Same
<1>2. e \in Emitter
  BY DEF Keeping
<1> DEFINE rest == Owed(c, e) \ {emitted[e]}
<1>3. [d \in Client |-> [g \in Emitter |-> Owed(d, g)]]'
         = [[d \in Client |-> [g \in Emitter |-> Owed(d, g)]] EXCEPT ![c][e] = rest]
  <2>1. Owed(c, e)' = rest /\ \A g \in Emitter \ {e} : Owed(c, g)' = Owed(c, g)
    OBVIOUS
  <2> HIDE DEF rest
  <2> QED BY <1>2, <2>1, OwedChanges
<1>4. Feed!GiveUp(c, e)
  BY <1>1, <1>2, <1>3 DEF Feed!GiveUp
<1> QED BY <1>2, <1>4 DEF FeedStep, Feed!FeedNext

\* Who did without a frame of e is sent away.
LEMMA StepIsSettle ==
    ASSUME NEW e \in Keeping, Keeping' = Keeping \ {e}, UNCHANGED <<emitted, feed, seen>>,
           \A c \in Client :
              /\ Standing(c)' = IF e \in Holes(c) /\ Standing(c) = "present"
                                THEN "leaving" ELSE Standing(c)
              /\ Holes(c)' = Holes(c) \ {e}
              /\ \A g \in Emitter : Owed(c, g)' = Owed(c, g)
    PROVE  FeedStep
<1>1. /\ [d \in Client |-> Standing(d)]'
            = [d \in Client |-> IF e \in Holes(d) /\ Standing(d) = "present"
                                THEN "leaving" ELSE Standing(d)]
      /\ [d \in Client |-> Holes(d)]' = [d \in Client |-> Holes(d) \ {e}]
      /\ [d \in Client |-> [g \in Emitter |-> Owed(d, g)]]'
            = [d \in Client |-> [g \in Emitter |-> Owed(d, g)]]
  OBVIOUS
<1>2. e \in Emitter
  BY DEF Keeping
<1>3. Feed!Settle(e)
  BY <1>1 DEF Feed!Settle
<1> QED BY <1>2, <1>3 DEF FeedStep, Feed!FeedNext

\* Who is there and wants a frame.
Wanted(key) == {c \in Client : Standing(c) = "present" /\ Accepts(c, key)}

\* The same set, as FrameFeed names it.
LEMMA WantedIsWanting ==
    ASSUME NEW key
    PROVE  Feed!Wanting(key) = Wanted(key)
  BY DEF Wanted, Accepts, Feed!Wanting, Feed!Wants

\* What is owed after a frame of e to those of T.
LEMMA OwedToMany ==
    ASSUME NEW e \in Emitter, NEW n, NEW T,
           \A c \in Client :
              /\ Owed(c, e)' = IF c \in T THEN Owed(c, e) \cup {n} ELSE Owed(c, e)
              /\ \A g \in Emitter \ {e} : Owed(c, g)' = Owed(c, g),
           NEW owes, owes = [d \in Client |-> [g \in Emitter |-> Owed(d, g)]]
    PROVE  [d \in Client |-> [g \in Emitter |-> Owed(d, g)]]'
              = [d \in Client |-> IF d \in T THEN [owes[d] EXCEPT ![e] = @ \cup {n}] ELSE owes[d]]
<1>1. \A d \in Client : [g \in Emitter |-> Owed(d, g)']
        = IF d \in T
          THEN [[g \in Emitter |-> Owed(d, g)] EXCEPT ![e] = Owed(d, e) \cup {n}]
          ELSE [g \in Emitter |-> Owed(d, g)]
  OBVIOUS
<1>2. [d \in Client |-> [g \in Emitter |-> Owed(d, g)]]'
         = [d \in Client |-> [g \in Emitter |-> Owed(d, g)']]
  OBVIOUS
<1>3. \A d \in Client : owes[d] = [g \in Emitter |-> Owed(d, g)] /\ owes[d][e] = Owed(d, e)
  OBVIOUS
<1> QED BY <1>1, <1>2, <1>3

\* A frame that carries no state is fanned out: those of T take it.
LEMMA StepIsFanOut ==
    ASSUME NEW e \in Emitter, NEW key \in Thread \cup {Everyone},
           emitted' = [emitted EXCEPT ![e] = emitted[e] + 1],
           UNCHANGED <<feed, seen>>, e \notin Keeping, Keeping' = Keeping,
           NEW T \in SUBSET Wanted(key),
           \A c \in Client :
              /\ Holes(c)' = Holes(c)
              /\ Standing(c)' = IF c \in Wanted(key) /\ c \notin T /\ c # Local
                                THEN "leaving" ELSE Standing(c)
              /\ Owed(c, e)' = IF c \in T THEN Owed(c, e) \cup {emitted[e] + 1} ELSE Owed(c, e)
              /\ \A g \in Emitter \ {e} : Owed(c, g)' = Owed(c, g)
    PROVE  FeedStep
<1> DEFINE n == emitted[e] + 1
           owes == [d \in Client |-> [g \in Emitter |-> Owed(d, g)]]
           stands == [d \in Client |-> Standing(d)]
           lost == Wanted(key) \ T
<1>1. stands' = [d \in Client |-> IF d \in lost \ {Local} THEN "leaving" ELSE stands[d]]
  OBVIOUS
<1>2. [d \in Client |-> Holes(d)]' = [d \in Client |-> Holes(d)]
  OBVIOUS
<1>3. owes' = [d \in Client |-> IF d \in T THEN [owes[d] EXCEPT ![e] = @ \cup {n}] ELSE owes[d]]
  <2>1. \A c \in Client :
          /\ Owed(c, e)' = IF c \in T THEN Owed(c, e) \cup {n} ELSE Owed(c, e)
          /\ \A g \in Emitter \ {e} : Owed(c, g)' = Owed(c, g)
    OBVIOUS
  <2> HIDE DEF n
  <2> QED BY <2>1, OwedToMany
<1>4. lost \in SUBSET Feed!Wanting(key) /\ Feed!Wanting(key) \ lost = T
  BY WantedIsWanting
<1> HIDE DEF owes, stands, lost
<1>5. \E l \in SUBSET Feed!Wanting(key) :
        /\ owes' = [d \in Client |-> IF d \in Feed!Wanting(key) \ l
                                     THEN [owes[d] EXCEPT ![e] = @ \cup {n}] ELSE owes[d]]
        /\ stands' = [d \in Client |-> IF d \in l \ {Local} THEN "leaving" ELSE stands[d]]
  BY <1>1, <1>3, <1>4
<1>6. Feed!FanOut(e, key)
  BY <1>2, <1>5 DEF Feed!FanOut, owes, stands
<1> QED BY <1>6 DEF FeedStep, Feed!FeedNext

\* One that does is owed to everybody who is there and wants it.
LEMMA StepIsPromise ==
    ASSUME NEW e \in Emitter, NEW key \in Thread \cup {Everyone},
           emitted' = [emitted EXCEPT ![e] = emitted[e] + 1],
           UNCHANGED <<feed, seen>>, e \notin Keeping, Keeping' = Keeping \cup {e},
           \A c \in Client :
              /\ Holes(c)' = Holes(c) /\ Standing(c)' = Standing(c)
              /\ Owed(c, e)' = IF c \in Wanted(key)
                               THEN Owed(c, e) \cup {emitted[e] + 1} ELSE Owed(c, e)
              /\ \A g \in Emitter \ {e} : Owed(c, g)' = Owed(c, g)
    PROVE  FeedStep
<1> DEFINE n == emitted[e] + 1
           owes == [d \in Client |-> [g \in Emitter |-> Owed(d, g)]]
<1>1. /\ [d \in Client |-> Standing(d)]' = [d \in Client |-> Standing(d)]
      /\ [d \in Client |-> Holes(d)]' = [d \in Client |-> Holes(d)]
  OBVIOUS
<1>2. owes' = [d \in Client |-> IF d \in Feed!Wanting(key)
                                THEN [owes[d] EXCEPT ![e] = @ \cup {n}] ELSE owes[d]]
  BY OwedToMany, WantedIsWanting
<1>3. Feed!Promise(e, key)
  BY <1>1, <1>2 DEF Feed!Promise
<1> QED BY <1>3 DEF FeedStep, Feed!FeedNext

\* What is queued for c of e.
LEMMA QueuedMember ==
    ASSUME NEW c, NEW e, NEW n
    PROVE  n \in Queued(c, e) <=>
              n # Reply /\ \E i \in DOMAIN queue[c] : queue[c][i].from = e /\ queue[c][i].n = n
  BY DEF Queued

\* The same after a step.
LEMMA QueuedMemberNext ==
    ASSUME NEW c, NEW e, NEW n
    PROVE  n \in Queued(c, e)' <=>
              n # Reply /\ \E i \in DOMAIN queue'[c] : queue'[c][i].from = e /\ queue'[c][i].n = n
  BY DEF Queued

\* A frame is queued.
LEMMA QueuedGrows ==
    ASSUME HubTypeOK, NEW c \in Client, NEW e \in Emitter, NEW n \in Nat,
           queue'[c] = Append(queue[c], Frame(e, n))
    PROVE  /\ Queued(c, e)' = Queued(c, e) \cup ({n} \ {Reply})
           /\ \A g \in Emitter \ {e} : Queued(c, g)' = Queued(c, g)
<1>1. queue[c] \in Seq(Frames)
  BY DEF HubTypeOK
<1>2. Frame(e, n) \in Frames /\ Frame(e, n).from = e /\ Frame(e, n).n = n
  BY FrameFacts
<1> DEFINE q == queue[c]  p == queue'[c]  k == Len(queue[c]) + 1
<1>3. /\ DOMAIN q = 1 .. Len(q) /\ DOMAIN p = 1 .. Len(q) + 1 /\ Len(q) \in Nat
      /\ \A i \in DOMAIN q : p[i] = q[i]
      /\ p[Len(q) + 1] = Frame(e, n)
  BY <1>1, <1>2, Appended
<1>4. /\ DOMAIN p = DOMAIN q \cup {k} /\ k \notin DOMAIN q
      /\ p[k].from = e /\ p[k].n = n /\ \A i \in DOMAIN q : p[i] = q[i]
  BY <1>2, <1>3
<1>5. \A g, m : m \in Queued(c, g) <=> m # Reply /\ \E i \in DOMAIN q : q[i].from = g /\ q[i].n = m
  BY QueuedMember
<1>6. \A g, m : m \in Queued(c, g)' <=> m # Reply /\ \E i \in DOMAIN p : p[i].from = g /\ p[i].n = m
  BY QueuedMemberNext
<1> HIDE DEF q, p, k
<1>7. \A g, m : m \in Queued(c, g)' <=> m \in Queued(c, g) \/ (g = e /\ m = n /\ m # Reply)
  BY <1>4, <1>5, <1>6
<1>8. Queued(c, e)' = Queued(c, e) \cup ({n} \ {Reply})
  BY <1>7
<1>9. \A g \in Emitter \ {e} : Queued(c, g)' = Queued(c, g)
  BY <1>7
<1> QED BY <1>8, <1>9

\* The oldest frame leaves a queue.
LEMMA QueuedShrinks ==
    ASSUME HubInv, NEW c \in Client, queue[c] # <<>>, queue'[c] = Tail(queue[c]),
           NEW f, f = Head(queue[c])
    PROVE  /\ f.n = Reply => \A g \in Emitter : Queued(c, g)' = Queued(c, g)
           /\ f.n # Reply =>
                /\ f.n \in Queued(c, f.from) /\ \A m \in Queued(c, f.from) : f.n <= m
                /\ Queued(c, f.from)' = Queued(c, f.from) \ {f.n}
                /\ \A g \in Emitter \ {f.from} : Queued(c, g)' = Queued(c, g)
<1>1. queue[c] \in Seq(Frames) /\ \A i \in DOMAIN queue[c] : queue[c][i] \in Frames
  BY DEF HubInv, HubTypeOK
<1>2. Ordered(c)
  BY DEF HubInv, InOrder
<1> DEFINE q == queue[c]  p == queue'[c]
<1>3. /\ DOMAIN q = 1 .. Len(q) /\ DOMAIN p = 1 .. Len(q) - 1 /\ Len(q) \in Nat \ {0}
      /\ \A i \in DOMAIN p : p[i] = q[i + 1]
      /\ f = q[1]
  BY <1>1, Tailed
<1>4. /\ 1 \in DOMAIN q /\ \A i \in DOMAIN p : i + 1 \in DOMAIN q /\ i + 1 # 1
      /\ \A j \in DOMAIN q \ {1} : j - 1 \in DOMAIN p /\ (j - 1) + 1 = j /\ 1 < j
  BY <1>3
<1>5. \A g, m : m \in Queued(c, g) <=> m # Reply /\ \E i \in DOMAIN q : q[i].from = g /\ q[i].n = m
  BY QueuedMember
<1>6. \A g, m : m \in Queued(c, g)' <=> m # Reply /\ \E i \in DOMAIN p : p[i].from = g /\ p[i].n = m
  BY QueuedMemberNext
<1>7. \A j \in DOMAIN q \ {1} : q[j].n # Reply /\ q[j].from = f.from => f.n < q[j].n
  BY <1>2, <1>3, <1>4 DEF Ordered
<1>8. \A i \in DOMAIN q : q[i].n \in Nat
  BY <1>1 DEF Frames
<1>9. ASSUME NEW g, NEW m
      PROVE  m \in Queued(c, g)' <=>
                m # Reply /\ \E j \in DOMAIN q \ {1} : q[j].from = g /\ q[j].n = m
  <2>1. ASSUME NEW j \in DOMAIN q \ {1}, q[j].from = g, q[j].n = m
        PROVE  \E i \in DOMAIN p : p[i].from = g /\ p[i].n = m
    <3>1. j - 1 \in DOMAIN p /\ p[j - 1] = q[j]
      BY <1>3, <1>4
    <3> HIDE DEF q, p
    <3> QED BY <2>1, <3>1
  <2>2. ASSUME NEW i \in DOMAIN p, p[i].from = g, p[i].n = m
        PROVE  \E j \in DOMAIN q \ {1} : q[j].from = g /\ q[j].n = m
    <3>1. i + 1 \in DOMAIN q \ {1} /\ p[i] = q[i + 1]
      BY <1>3, <1>4
    <3> HIDE DEF q, p
    <3> QED BY <2>2, <3>1
  <2> HIDE DEF q, p
  <2> QED BY <1>6, <2>1, <2>2
<1>10. f = q[1] /\ 1 \in DOMAIN q
  BY <1>3, <1>4
<1> HIDE DEF q, p
<1>11. \A g, m : m \in Queued(c, g)' => m \in Queued(c, g)
  BY <1>5, <1>9
<1>12. \A g, m : m \in Queued(c, g) =>
          m \in Queued(c, g)' \/ (g = f.from /\ m = f.n /\ m # Reply)
  BY <1>5, <1>9, <1>10
<1>13. f.n \notin Queued(c, f.from)'
  BY <1>7, <1>8, <1>9, <1>10
<1>14. f.n # Reply =>
         f.n \in Queued(c, f.from) /\ \A m \in Queued(c, f.from) : f.n <= m
  <2>1. f.n # Reply => f.n \in Queued(c, f.from)
    BY <1>5, <1>10
  <2>2. ASSUME NEW m \in Queued(c, f.from)
        PROVE  f.n <= m
    <3>1. PICK i \in DOMAIN q : q[i].from = f.from /\ q[i].n = m /\ m # Reply
      BY <1>5
    <3> QED BY <1>7, <1>8, <1>10, <3>1
  <2> QED BY <2>1, <2>2
<1>15. ASSUME f.n = Reply, NEW g \in Emitter
       PROVE  Queued(c, g)' = Queued(c, g)
  <2>1. \A m : m \in Queued(c, g)' <=> m \in Queued(c, g)
    BY <1>11, <1>12, <1>15
  <2> QED BY <2>1
<1>16. Queued(c, f.from)' = Queued(c, f.from) \ {f.n}
  BY <1>11, <1>12, <1>13
<1>17. \A g \in Emitter \ {f.from} : Queued(c, g)' = Queued(c, g)
  BY <1>11, <1>12
<1> QED BY <1>14, <1>15, <1>16, <1>17

\* What is about to be sent is newer than what is queued.
LEMMA SendingIsNewest ==
    ASSUME HubInv, NEW e \in Emitter, task[e].op = "awaiting", NEW c \in task[e].targets
    PROVE  /\ c \in Client /\ task[e].n \in Nat \ {0}
           /\ \A m \in Queued(c, e) : m < task[e].n
<1>1. c \in Client /\ task[e].n \in Nat \ {0}
  BY TaskFacts DEF HubInv, HubTypeOK
<1>2. Below(c, e, task[e].n)
  BY DEF HubInv, InOrder
<1> QED BY <1>1, <1>2, QueuedMember DEF Below

\* Where a client stands.
LEMMA StandingFacts ==
    ASSUME NEW c \in Client
    PROVE  /\ pump[c] = "none" => Standing(c) = "absent"
           /\ pump[c] = "dead" => Standing(c) = "gone"
           /\ pump[c] = "on" => Standing(c) = IF c \in clients THEN "present" ELSE "leaving"
           /\ pump[c] # "on" => Holes(c) = {} /\ \A e \in Emitter : Owed(c, e) = {}
  BY DEF Standing, Holes, Owed

\* The same after a step.
LEMMA StandingNext ==
    ASSUME NEW c \in Client
    PROVE  /\ pump'[c] = "none" => Standing(c)' = "absent"
           /\ pump'[c] = "dead" => Standing(c)' = "gone"
           /\ pump'[c] = "on" => Standing(c)' = IF c \in clients' THEN "present" ELSE "leaving"
           /\ pump'[c] # "on" => Holes(c)' = {} /\ \A e \in Emitter : Owed(c, e)' = {}
  BY DEF Standing, Holes, Owed

\* What e is about to do to c.
Slated(e, c) == task[e].op = "awaiting" /\ c \in task[e].evict

\* What decides how FrameFeed sees a client.
LEMMA SameIf ==
    ASSUME HubTypeOK, NEW c \in Client, pump'[c] = pump[c],
           pump[c] = "on" =>
             /\ c \in clients' <=> c \in clients
             /\ \A e \in Emitter :
                  /\ Queued(c, e)' \cup Sending(c, e)' = Queued(c, e) \cup Sending(c, e)
                  /\ Slated(e, c)' <=> Slated(e, c)
    PROVE  Same(c)
<1>1. CASE pump[c] = "on"
  <2>1. Standing(c)' = Standing(c)
    BY <1>1, StandingFacts, StandingNext
  <2>2. Holes(c)' = Holes(c)
    BY <1>1 DEF Holes, Slated
  <2>3. \A e \in Emitter : Owed(c, e)' = Owed(c, e)
    BY <1>1 DEF Owed
  <2> QED BY <2>1, <2>2, <2>3 DEF Same
<1>2. CASE pump[c] # "on"
  <2>1. pump[c] \in {"none", "dead"}
    BY <1>2 DEF HubTypeOK
  <2> QED BY <1>2, <2>1, StandingFacts, StandingNext DEF Same
<1> QED BY <1>1, <1>2

-----------------------------------------------------------------------------
(* Every step is one of FrameFeed's, or hidden.                            *)

\* Queues, pumps and the registry are as before, and no task begins or ends to send.
LEMMA QuietIsHidden ==
    ASSUME HubTypeOK, UNCHANGED <<emitted, feed, seen, queue, pump>>,
           \A c \in Client : pump[c] = "on" => (c \in clients' <=> c \in clients),
           \A g \in Emitter : \/ task'[g] = task[g]
                              \/ task[g].op # "awaiting" /\ task'[g].op # "awaiting"
    PROVE  FeedStep
<1>1. ASSUME NEW c \in Client
      PROVE  Same(c)
  <2>1. \A e \in Emitter : /\ Queued(c, e)' = Queued(c, e) /\ Sending(c, e)' = Sending(c, e)
                           /\ Slated(e, c)' <=> Slated(e, c)
    BY DEF Queued, Sending, Slated
  <2> QED BY <2>1, SameIf
<1>2. Keeping' = Keeping
  BY DEF Keeping
<1> QED BY <1>1, <1>2, StepIsHidden

\* A client that is not concerned: its queue is as before, and so is what tasks are
\* to do for it.
LEMMA Unconcerned ==
    ASSUME HubTypeOK, NEW c \in Client, queue'[c] = queue[c], pump'[c] = pump[c],
           pump[c] = "on" =>
             /\ c \in clients' <=> c \in clients
             /\ \A e \in Emitter : /\ Sending(c, e)' = Sending(c, e)
                                   /\ Slated(e, c)' <=> Slated(e, c)
    PROVE  Same(c)
<1>1. \A e \in Emitter : Queued(c, e)' = Queued(c, e)
  BY DEF Queued
<1> QED BY <1>1, SameIf

\* What is sent to c, and who is about to have it removed, with a task that stays.
LEMMA TaskStays ==
    ASSUME NEW c \in Client, NEW e \in Emitter, task'[e] = task[e]
    PROVE  Sending(c, e)' = Sending(c, e) /\ (Slated(e, c)' <=> Slated(e, c))
  BY DEF Sending, Slated

\* A broadcast that waits for nobody: who had no room does without.
LEMMA BroadcastForMaps ==
    ASSUME HubInv, NEW e \in Emitter, NEW key \in Thread \cup {Everyone}, BroadcastFor(e, key)
    PROVE  FeedStep
<1>1. HubTypeOK /\ Wired
  BY DEF HubInv
<1> DEFINE n == emitted[e] + 1
<1>2. /\ task[e] = Idle
      /\ emitted' = [emitted EXCEPT ![e] = n]
      /\ \A c \in Takers(key) : queue'[c] = Append(queue[c], Frame(e, n))
      /\ \A c \in Client \ Takers(key) : queue'[c] = queue[c]
      /\ clients' = (clients \ Targets(key)) \cup Takers(key) \cup (Targets(key) \cap {Local})
      /\ UNCHANGED <<feed, pump, reading, inbound, task, seen, asked>>
      /\ Takers(key) \subseteq Targets(key) /\ Targets(key) \subseteq clients
  BY <1>1, BroadcastForFacts
<1>3. n \in Nat \ {0} /\ n # Reply /\ task[e].op = "idle"
  BY <1>1, <1>2, CountFacts, NewTasks DEF Reply
<1>4. clients \subseteq Client
  BY <1>1 DEF HubTypeOK
<1> HIDE DEF n
<1>5. \A c \in Takers(key) : pump[c] = "on"
  BY DEF Takers, CanSend
<1>6. Wanted(key) = {c \in Targets(key) : pump[c] = "on"}
  BY <1>1, <1>4, StandingFacts DEF Wanted, Targets, HubTypeOK
<1>7. Takers(key) \in SUBSET Wanted(key)
  BY <1>2, <1>5, <1>6
<1>8. ASSUME NEW c \in Client
      PROVE  /\ Holes(c)' = Holes(c)
             /\ Standing(c)' = IF c \in Wanted(key) /\ c \notin Takers(key) /\ c # Local
                               THEN "leaving" ELSE Standing(c)
             /\ Owed(c, e)' = IF c \in Takers(key) THEN Owed(c, e) \cup {n} ELSE Owed(c, e)
             /\ \A g \in Emitter \ {e} : Owed(c, g)' = Owed(c, g)
  <2>1. Holes(c)' = Holes(c)
    BY <1>2 DEF Holes
  <2>2. Standing(c)' = IF c \in Wanted(key) /\ c \notin Takers(key) /\ c # Local
                       THEN "leaving" ELSE Standing(c)
    <3>1. CASE pump[c] = "on"
      BY <1>2, <1>5, <1>6, <3>1, StandingFacts, StandingNext
    <3>2. CASE pump[c] \in {"none", "dead"}
      BY <1>2, <1>6, <3>2, StandingFacts, StandingNext
    <3> QED BY <1>1, <3>1, <3>2 DEF HubTypeOK
  <2>3. \A g \in Emitter : Sending(c, g)' = Sending(c, g)
    BY <1>2 DEF Sending
  <2>4. CASE c \in Takers(key)
    <3>1. /\ Queued(c, e)' = Queued(c, e) \cup ({n} \ {Reply})
          /\ \A g \in Emitter \ {e} : Queued(c, g)' = Queued(c, g)
      BY <1>1, <1>2, <1>3, <2>4, QueuedGrows
    <3> QED BY <1>2, <1>3, <1>5, <2>1, <2>2, <2>3, <2>4, <3>1 DEF Owed
  <2>5. CASE c \notin Takers(key)
    <3>1. \A g \in Emitter : Queued(c, g)' = Queued(c, g)
      BY <1>2, <2>5 DEF Queued
    <3> QED BY <1>2, <2>1, <2>2, <2>3, <2>5, <3>1 DEF Owed
  <2> QED BY <2>4, <2>5
<1>9. e \notin Keeping /\ Keeping' = Keeping
  BY <1>2, <1>3 DEF Keeping
<1> QED BY <1>2, <1>7, <1>8, <1>9, StepIsFanOut DEF n

\* One that waits: the frame is owed from now on to everybody who is there.
LEMMA AwaitStartMaps ==
    ASSUME HubInv, NEW e \in Emitter, NEW key \in Thread \cup {Everyone}, AwaitStart(e, key)
    PROVE  FeedStep
<1>1. HubTypeOK /\ Wired
  BY DEF HubInv
<1> DEFINE n == emitted[e] + 1
           t == Awaiting(n, Targets(key), {})
<1>2. /\ task[e] = Idle /\ emitted' = [emitted EXCEPT ![e] = n]
      /\ Does(e, t)
      /\ UNCHANGED <<clients, feed, queue, pump, reading, inbound, seen, asked>>
  BY DEF AwaitStart, Targets
<1>3. n \in Nat \ {0} /\ task[e].op = "idle" /\ Targets(key) \in SUBSET Client
  BY <1>1, <1>2, CountFacts, NewTasks DEF Targets, HubTypeOK
<1>4. t \in Tasks /\ t.op = "awaiting" /\ t.n = n /\ t.targets = Targets(key) /\ t.evict = {}
  <2>1. {} \in SUBSET Client
    OBVIOUS
  <2> HIDE DEF n
  <2> QED BY <1>3, <2>1, NewAwaiting
<1> HIDE DEF t
<1>5. task'[e] = t /\ \A g \in Emitter \ {e} : task'[g] = task[g]
  BY <1>1, <1>2, <1>4, DoesFacts
<1> HIDE DEF n
<1>6. Wanted(key) = {c \in Targets(key) : pump[c] = "on"}
  BY <1>1, <1>3, StandingFacts DEF Wanted, Targets, HubTypeOK
<1>7. ASSUME NEW c \in Client
      PROVE  /\ Holes(c)' = Holes(c)
             /\ Standing(c)' = Standing(c)
             /\ Owed(c, e)' = IF c \in Wanted(key) THEN Owed(c, e) \cup {n} ELSE Owed(c, e)
             /\ \A g \in Emitter \ {e} : Owed(c, g)' = Owed(c, g)
  <2>1. Holes(c)' = Holes(c)
    BY <1>2, <1>3, <1>4, <1>5 DEF Holes
  <2>2. Standing(c)' = Standing(c)
    BY <1>2 DEF Standing
  <2>3. \A g \in Emitter : Queued(c, g)' = Queued(c, g)
    BY <1>2 DEF Queued
  <2>4. \A g \in Emitter \ {e} : Sending(c, g)' = Sending(c, g)
    BY <1>5, TaskStays
  <2>5. Sending(c, e) = {} /\ Sending(c, e)' = IF c \in Targets(key) THEN {n} ELSE {}
    BY <1>3, <1>4, <1>5 DEF Sending
  <2> QED BY <1>2, <1>6, <2>1, <2>2, <2>3, <2>4, <2>5 DEF Owed
<1>8. e \notin Keeping /\ Keeping' = Keeping \cup {e}
  BY <1>3, <1>4, <1>5 DEF Keeping
<1>9. emitted' = [emitted EXCEPT ![e] = emitted[e] + 1] /\ UNCHANGED <<feed, seen>>
  BY <1>2 DEF n
<1> QED BY <1>7, <1>8, <1>9, StepIsPromise DEF n

\* Its frame is queued, or given up: the desktop's never.
LEMMA AwaitSendMaps ==
    ASSUME HubInv, NEW e \in Emitter, NEW c \in Client, AwaitSend(e, c)
    PROVE  FeedStep
<1>1. HubTypeOK /\ Wired
  BY DEF HubInv
<1>2. /\ task[e].op = "awaiting" /\ c \in task[e].targets
      /\ task[e].n \in Nat \ {0}
      /\ \A d \in Client \ {c} : queue'[d] = queue[d]
      /\ queue'[c] = IF CanSend(c) THEN Append(queue[c], Frame(e, task[e].n)) ELSE queue[c]
      /\ \A g \in Emitter \ {e} : task'[g] = task[g]
      /\ task'[e].op = "awaiting" /\ task'[e].n = task[e].n
      /\ task'[e].targets = task[e].targets \ {c}
      /\ task'[e].evict = IF CanSend(c) \/ c = Local THEN task[e].evict ELSE task[e].evict \cup {c}
      /\ UNCHANGED <<clients, feed, pump, reading, inbound, emitted, seen, asked>>
  BY <1>1, AwaitSendFacts
<1>3. c = Local /\ pump[c] = "on" => CanSend(c)
  BY DEF AwaitSend
<1> DEFINE n == task[e].n
<1>4. Keeping' = Keeping /\ e \in Keeping /\ n = emitted[e]
  BY <1>2 DEF Keeping, HubInv, InOrder
<1>5. n \in Nat \ {0} /\ n # Reply /\ \A m \in Queued(c, e) : m < n
  BY <1>2, SendingIsNewest DEF Reply
<1>6. Sending(c, e) = {n} /\ Sending(c, e)' = {}
  BY <1>2 DEF Sending
<1>7. \A d \in Client, g \in Emitter \ {e} :
         Sending(d, g)' = Sending(d, g) /\ (Slated(g, d)' <=> Slated(g, d))
  BY <1>2, TaskStays
<1> HIDE DEF n
<1>8. ASSUME NEW d \in Client \ {c}
      PROVE  Same(d)
  <2>1. Sending(d, e)' = Sending(d, e) /\ (Slated(e, d)' <=> Slated(e, d))
    BY <1>2 DEF Sending, Slated
  <2> QED BY <1>1, <1>2, <1>7, <2>1, Unconcerned
<1>9. CASE CanSend(c)
  <2>1. /\ Queued(c, e)' = Queued(c, e) \cup ({n} \ {Reply})
        /\ \A g \in Emitter \ {e} : Queued(c, g)' = Queued(c, g)
    BY <1>1, <1>2, <1>5, <1>9, QueuedGrows DEF n
  <2>2. Slated(e, c)' <=> Slated(e, c)
    BY <1>2, <1>9 DEF Slated
  <2>3. \A g \in Emitter : /\ Queued(c, g)' \cup Sending(c, g)' = Queued(c, g) \cup Sending(c, g)
                           /\ Slated(g, c)' <=> Slated(g, c)
    BY <1>5, <1>6, <1>7, <2>1, <2>2
  <2>4. Same(c)
    BY <1>1, <1>2, <2>3, SameIf
  <2> QED BY <1>2, <1>4, <1>8, <2>4, StepIsHidden
<1>10. CASE pump[c] # "on"
  <2>1. ~CanSend(c)
    BY <1>10 DEF CanSend
  <2>2. Same(c)
    BY <1>1, <1>2, <1>10, <2>1, Unconcerned
  <2> QED BY <1>2, <1>4, <1>8, <2>2, StepIsHidden
<1>11. CASE pump[c] = "on" /\ ~CanSend(c)
  <2>1. c \in Client \ {Local}
    BY <1>3, <1>11
  <2>2. Standing(c)' = Standing(c)
    BY <1>2 DEF Standing
  <2>3. \A g \in Emitter : Queued(c, g)' = Queued(c, g)
    BY <1>2, <1>11 DEF Queued
  <2>4. /\ Owed(c, e) = Queued(c, e) \cup {n} /\ Owed(c, e)' = Queued(c, e)
        /\ \A g \in Emitter \ {e} : Owed(c, g)' = Owed(c, g)
    BY <1>2, <1>6, <1>7, <1>11, <2>3 DEF Owed
  <2>5. n \notin Queued(c, e)
    <3>1. n \in Nat /\ (n \in Queued(c, e) => n < n)
      BY <1>5
    <3> QED BY <3>1
  <2>6. Holes(c)' = Holes(c) \cup {e}
    BY <1>2, <1>11, <2>1 DEF Holes
  <2>7. emitted[e] \in Owed(c, e) /\ Owed(c, e)' = Owed(c, e) \ {emitted[e]}
    BY <1>4, <2>4, <2>5
  <2> QED BY <1>2, <1>4, <1>8, <2>1, <2>2, <2>4, <2>6, <2>7, StepIsGiveUp
<1> QED BY <1>9, <1>10, <1>11

\* Who did without it is removed.
LEMMA AwaitEndMaps ==
    ASSUME HubInv, NEW e \in Emitter, AwaitEnd(e)
    PROVE  FeedStep
<1>1. HubTypeOK /\ Wired
  BY DEF HubInv
<1>2. /\ task[e].op = "awaiting" /\ task[e].targets = {}
      /\ clients' = clients \ task[e].evict /\ Does(e, Idle)
      /\ UNCHANGED <<feed, queue, pump, reading, inbound, emitted, seen, asked>>
  BY DEF AwaitEnd
<1>3. task'[e].op = "idle" /\ \A g \in Emitter \ {e} : task'[g] = task[g]
  <2>1. Idle \in Tasks /\ Idle.op = "idle"
    BY NewTasks
  <2> QED BY <1>1, <1>2, <2>1, DoesFacts
<1>4. ASSUME NEW c \in Client
      PROVE  /\ Standing(c)' = IF e \in Holes(c) /\ Standing(c) = "present"
                               THEN "leaving" ELSE Standing(c)
             /\ Holes(c)' = Holes(c) \ {e}
             /\ \A g \in Emitter : Owed(c, g)' = Owed(c, g)
  <2>1. Holes(c)' = Holes(c) \ {e}
    BY <1>2, <1>3 DEF Holes
  <2>2. \A g \in Emitter : Queued(c, g)' = Queued(c, g) /\ Sending(c, g)' = Sending(c, g)
    BY <1>2, <1>3 DEF Queued, Sending
  <2>3. \A g \in Emitter : Owed(c, g)' = Owed(c, g)
    BY <1>2, <2>2 DEF Owed
  <2>4. e \in Holes(c) <=> pump[c] = "on" /\ c \in task[e].evict
    BY <1>2 DEF Holes
  <2>5. CASE pump[c] = "on"
    BY <1>2, <2>1, <2>3, <2>4, <2>5, StandingFacts, StandingNext
  <2>6. CASE pump[c] \in {"none", "dead"}
    BY <1>2, <2>1, <2>3, <2>4, <2>6, StandingFacts, StandingNext
  <2> QED BY <1>1, <2>5, <2>6 DEF HubTypeOK
<1>5. e \in Keeping /\ Keeping' = Keeping \ {e}
  BY <1>2, <1>3 DEF Keeping
<1> QED BY <1>2, <1>4, <1>5, StepIsSettle

\* A request is handled: it may choose what its client follows, or revoke a device.
LEMMA HandleMaps ==
    ASSUME HubInv, NEW c \in Client, Handle(c)
    PROVE  FeedStep
<1>1. HubTypeOK /\ Wired
  BY DEF HubInv
<1>2. /\ UNCHANGED <<queue, pump, reading, emitted, seen, asked>>
      /\ \A g \in Emitter \ {Loop} : task'[g] = task[g]
      /\ task[Loop].op = "idle" /\ task'[Loop].op # "awaiting"
      /\ \/ UNCHANGED <<clients, feed>>
         \/ \E threads \in SUBSET Thread :
              /\ c # Local /\ c \in clients
              /\ feed' = [feed EXCEPT ![c] = threads] /\ UNCHANGED clients
         \/ \E d \in clients \ {Local} : clients' = clients \ {d} /\ UNCHANGED feed
  BY <1>1, HandleFacts
<1>3. \A g \in Emitter : \/ task'[g] = task[g]
                         \/ task[g].op # "awaiting" /\ task'[g].op # "awaiting"
  BY <1>2
<1>4. Keeping' = Keeping
  BY <1>3 DEF Keeping
<1>5. \A d \in Client, e \in Emitter :
         Sending(d, e)' = Sending(d, e) /\ (Slated(e, d)' <=> Slated(e, d))
  BY <1>3 DEF Sending, Slated
<1>6. CASE UNCHANGED <<clients, feed>>
  BY <1>1, <1>2, <1>3, <1>6, QuietIsHidden
<1>7. ASSUME NEW threads \in SUBSET Thread, c # Local, c \in clients,
             feed' = [feed EXCEPT ![c] = threads], UNCHANGED clients
      PROVE  FeedStep
  <2>1. \A d \in Client : Same(d)
    BY <1>1, <1>2, <1>5, <1>7, Unconcerned
  <2>2. Standing(c) # "absent"
    <3>1. pump[c] \in {"on", "dead"}
      BY <1>1, <1>7 DEF Wired, HubTypeOK
    <3> QED BY <1>7, <3>1, StandingFacts
  <2> QED BY <1>2, <1>4, <1>7, <2>1, <2>2, StepIsFollow
<1>8. ASSUME NEW d \in clients \ {Local}, clients' = clients \ {d}, UNCHANGED feed
      PROVE  FeedStep
  <2>1. d \in Client \ {Local}
    BY <1>1 DEF HubTypeOK
  <2>2. \A b \in Client \ {d} : Same(b)
    BY <1>1, <1>2, <1>5, <1>8, Unconcerned
  <2>3. CASE pump[d] = "on"
    <3>1. Standing(d) = "present" /\ Standing(d)' = "leaving"
      BY <1>2, <1>8, <2>1, <2>3, StandingFacts, StandingNext
    <3>2. Holes(d)' = Holes(d)
      BY <1>2, <1>5, <2>1 DEF Holes, Slated
    <3>3. \A e \in Emitter : Owed(d, e)' = Owed(d, e)
      <4>1. \A e \in Emitter : Queued(d, e)' = Queued(d, e)
        BY <1>2 DEF Queued
      <4> QED BY <1>2, <1>5, <2>1, <4>1 DEF Owed
    <3> QED BY <1>2, <1>4, <1>8, <2>1, <2>2, <3>1, <3>2, <3>3, StepIsRevoke
  <2>4. CASE pump[d] # "on"
    <3>1. Same(d)
      BY <1>1, <1>2, <2>1, <2>4, Unconcerned
    <3> QED BY <1>2, <1>4, <1>8, <2>2, <3>1, StepIsHidden
  <2> QED BY <2>3, <2>4
<1> QED BY <1>2, <1>6, <1>7, <1>8

\* FrameFeed does not see replies.
LEMMA ReplyMaps ==
    ASSUME HubInv, NEW c \in Client, ReplyRefused(c) \/ ReplySent(c)
    PROVE  FeedStep
<1>1. HubTypeOK
  BY DEF HubInv
<1>2. CASE ReplyRefused(c)
  <2>1. /\ clients' = clients \ {c} /\ Does(Loop, Refused(c)) /\ pump[c] = "dead"
        /\ task[Loop] = Replying(c)
        /\ UNCHANGED <<feed, queue, pump, reading, inbound, emitted, seen, asked>>
    BY <1>2 DEF ReplyRefused
  <2>2. /\ Refused(c) \in Tasks /\ Refused(c).op \in {"idle", "ended"} /\ Loop \in Emitter
        /\ task[Loop].op = "replying"
    BY <2>1, NewTasks DEF Emitter
  <2>3. task'[Loop] = Refused(c) /\ \A g \in Emitter \ {Loop} : task'[g] = task[g]
    BY <1>1, <2>1, <2>2, DoesFacts
  <2>4. \A g \in Emitter : \/ task'[g] = task[g]
                           \/ task[g].op # "awaiting" /\ task'[g].op # "awaiting"
    BY <2>2, <2>3
  <2> QED BY <1>1, <2>1, <2>4, QuietIsHidden
<1>3. CASE ReplySent(c)
  <2>1. /\ \A d \in Client \ {c} : queue'[d] = queue[d]
        /\ queue'[c] = Append(queue[c], Frame(Loop, Reply))
        /\ \A g \in Emitter \ {Loop} : task'[g] = task[g]
        /\ task[Loop].op = "replying" /\ task'[Loop].op = "idle"
        /\ UNCHANGED <<clients, feed, pump, reading, inbound, emitted, seen, asked>>
    BY <1>1, <1>3, ReplySentFacts
  <2>2. \A d \in Client, e \in Emitter :
           Sending(d, e)' = Sending(d, e) /\ (Slated(e, d)' <=> Slated(e, d))
    BY <2>1 DEF Sending, Slated
  <2>3. \A d \in Client \ {c} : Same(d)
    BY <1>1, <2>1, <2>2, Unconcerned
  <2>4. Same(c)
    <3>1. Loop \in Emitter /\ Reply \in Nat
      BY DEF Emitter, Reply
    <3>2. /\ Queued(c, Loop)' = Queued(c, Loop) \cup ({Reply} \ {Reply})
          /\ \A g \in Emitter \ {Loop} : Queued(c, g)' = Queued(c, g)
      BY <1>1, <2>1, <3>1, QueuedGrows
    <3>3. \A g \in Emitter : Queued(c, g)' = Queued(c, g)
      BY <3>2
    <3> QED BY <1>1, <2>1, <2>2, <3>3, SameIf
  <2>5. Keeping' = Keeping
    BY <2>1 DEF Keeping
  <2> QED BY <2>1, <2>3, <2>4, <2>5, StepIsHidden
<1> QED BY <1>2, <1>3

\* A client connects: nothing is queued or awaited for it.
LEMMA ConnectMaps ==
    ASSUME HubInv, NEW c \in Client, Connect(c)
    PROVE  FeedStep
<1>1. HubTypeOK /\ Wired
  BY DEF HubInv
<1>2. /\ reading[c] = "none" /\ clients' = clients \cup {c}
      /\ pump' = [pump EXCEPT ![c] = "on"]
      /\ UNCHANGED <<feed, queue, inbound, task, emitted, seen, asked>>
  BY DEF Connect
<1>3. pump'[c] = "on" /\ \A d \in Client \ {c} : pump'[d] = pump[d]
  BY <1>1, <1>2 DEF HubTypeOK
<1>4. /\ pump[c] = "none" /\ queue[c] = <<>>
      /\ \A e \in Emitter : task[e].op = "awaiting" =>
            c \notin task[e].targets /\ c \notin task[e].evict
  BY <1>1, <1>2 DEF Wired
<1>5. \A d \in Client, e \in Emitter :
         Sending(d, e)' = Sending(d, e) /\ (Slated(e, d)' <=> Slated(e, d))
  BY <1>2, TaskStays
<1>6. \A d \in Client \ {c} : Same(d)
  BY <1>1, <1>2, <1>3, <1>5, Unconcerned
<1>7. Standing(c) = "absent" /\ Standing(c)' = "present"
  BY <1>2, <1>3, <1>4, StandingFacts, StandingNext
<1>8. Holes(c) = {} /\ Holes(c)' = {}
  BY <1>2, <1>4 DEF Holes
<1>9. ASSUME NEW e \in Emitter
      PROVE  Owed(c, e)' = Owed(c, e)
  <2>1. Queued(c, e)' = {}
    BY <1>2, <1>4 DEF Queued
  <2>2. Sending(c, e)' = {}
    BY <1>2, <1>4 DEF Sending
  <2> QED BY <1>3, <1>4, <2>1, <2>2 DEF Owed
<1>10. Keeping' = Keeping
  BY <1>2 DEF Keeping
<1> QED BY <1>2, <1>6, <1>7, <1>8, <1>9, <1>10, StepIsJoin

\* A pump writes a reply, or the oldest frame of its emitter.
LEMMA PumpMaps ==
    ASSUME HubInv, NEW c \in Client, Pump(c)
    PROVE  FeedStep
<1>1. HubTypeOK
  BY DEF HubInv
<1>2. /\ pump[c] = "on" /\ queue[c] # <<>> /\ Head(queue[c]) \in Frames
      /\ queue'[c] = Tail(queue[c]) /\ \A d \in Client \ {c} : queue'[d] = queue[d]
      /\ seen' = IF Head(queue[c]).n = Reply THEN seen
                 ELSE [seen EXCEPT ![c][Head(queue[c]).from] = Head(queue[c]).n]
      /\ UNCHANGED <<clients, feed, pump, reading, inbound, task, emitted, asked>>
  BY <1>1, PumpFacts
<1>3. PICK f \in Frames : f = Head(queue[c])
  BY <1>2
<1>4. /\ f.n = Reply => \A g \in Emitter : Queued(c, g)' = Queued(c, g)
      /\ f.n # Reply =>
           /\ f.n \in Queued(c, f.from) /\ \A m \in Queued(c, f.from) : f.n <= m
           /\ Queued(c, f.from)' = Queued(c, f.from) \ {f.n}
           /\ \A g \in Emitter \ {f.from} : Queued(c, g)' = Queued(c, g)
  BY <1>2, <1>3, QueuedShrinks
<1>5. f.from \in Emitter /\ f.n \in Nat
  BY DEF Frames
<1>6. \A d \in Client, e \in Emitter :
         Sending(d, e)' = Sending(d, e) /\ (Slated(e, d)' <=> Slated(e, d))
  BY <1>2, TaskStays
<1>7. \A d \in Client \ {c} : Same(d)
  BY <1>1, <1>2, <1>6, Unconcerned
<1>8. Keeping' = Keeping
  BY <1>2 DEF Keeping
<1>9. CASE f.n = Reply
  <2>1. Same(c)
    BY <1>1, <1>2, <1>4, <1>6, <1>9, SameIf
  <2> QED BY <1>2, <1>7, <1>8, <1>9, <1>3, <2>1, StepIsHidden
<1>10. CASE f.n # Reply
  <2> PICK e \in Emitter, n \in Nat : e = f.from /\ n = f.n
    BY <1>5
  <2>1. /\ n \in Queued(c, e) /\ \A m \in Queued(c, e) : n <= m
        /\ Queued(c, e)' = Queued(c, e) \ {n}
        /\ \A g \in Emitter \ {e} : Queued(c, g)' = Queued(c, g)
        /\ e \in Emitter /\ n \in Nat /\ seen' = [seen EXCEPT ![c][e] = n]
    BY <1>2, <1>4, <1>10, <1>3
  <2>2. \A m \in Sending(c, e) : n < m /\ n <= m
    <3>1. CASE task[e].op = "awaiting" /\ c \in task[e].targets
      <4>1. n < task[e].n /\ task[e].n \in Nat
        BY <2>1, <3>1, SendingIsNewest
      <4> QED BY <2>1, <3>1, <4>1 DEF Sending
    <3>2. CASE ~(task[e].op = "awaiting" /\ c \in task[e].targets)
      BY <3>2 DEF Sending
    <3> QED BY <3>1, <3>2
  <2>3. n \notin Sending(c, e)
    BY <2>1, <2>2
  <2>4. /\ Owed(c, e) = Queued(c, e) \cup Sending(c, e)
        /\ Owed(c, e)' = (Queued(c, e) \ {n}) \cup Sending(c, e)
        /\ \A g \in Emitter \ {e} : Owed(c, g)' = Owed(c, g)
    <3>1. \A g \in Emitter : /\ Owed(c, g) = Queued(c, g) \cup Sending(c, g)
                             /\ Owed(c, g)' = Queued(c, g)' \cup Sending(c, g)'
      BY <1>2 DEF Owed
    <3>2. \A g \in Emitter : Sending(c, g)' = Sending(c, g)
      BY <1>6
    <3> QED BY <2>1, <3>1, <3>2
  <2>5. /\ n \in Owed(c, e) /\ \A m \in Owed(c, e) : n <= m
        /\ Owed(c, e)' = Owed(c, e) \ {n}
    BY <2>1, <2>2, <2>3, <2>4
  <2>6. /\ Standing(c) \in {"present", "leaving"} /\ Standing(c)' = Standing(c)
        /\ Holes(c)' = Holes(c)
    <3>1. Standing(c) \in {"present", "leaving"}
      BY <1>2, StandingFacts
    <3>2. Standing(c)' = Standing(c) /\ Holes(c)' = Holes(c)
      BY <1>2 DEF Standing, Holes
    <3> QED BY <3>1, <3>2
  <2>7. UNCHANGED <<emitted, feed>>
    BY <1>2
  <2> QED BY <1>7, <1>8, <2>1, <2>4, <2>5, <2>6, <2>7, StepIsReceive
<1> QED BY <1>9, <1>10

\* A connection ends, with whatever is queued; or its read loop follows its pump.
LEMMA EndingMaps ==
    ASSUME HubInv, NEW c \in Client, PumpFails(c) \/ Hangup(c) \/ Kicked(c)
    PROVE  FeedStep
<1>1. HubTypeOK /\ Wired
  BY DEF HubInv
<1>2. /\ Closes(c) /\ pump[c] \in {"on", "dead"}
      /\ clients' = clients \/ clients' = clients \ {c}
      /\ UNCHANGED <<feed, inbound, task, emitted, seen, asked>>
  BY Ending
<1>3. /\ pump'[c] = "dead" /\ \A d \in Client \ {c} : pump'[d] = pump[d]
      /\ \A d \in Client \ {c} : queue'[d] = queue[d]
  BY <1>1, <1>2 DEF Closes, HubTypeOK
<1>4. \A d \in Client, e \in Emitter :
         Sending(d, e)' = Sending(d, e) /\ (Slated(e, d)' <=> Slated(e, d))
  BY <1>2, TaskStays
<1>5. \A d \in Client \ {c} : Same(d)
  BY <1>1, <1>2, <1>3, <1>4, Unconcerned
<1>6. Keeping' = Keeping
  BY <1>2 DEF Keeping
<1>7. Standing(c)' = "gone" /\ Holes(c)' = {} /\ \A e \in Emitter : Owed(c, e)' = {}
  BY <1>3, StandingNext
<1>8. CASE pump[c] = "on"
  <2>1. Standing(c) \in {"present", "leaving"}
    BY <1>8, StandingFacts
  <2> QED BY <1>2, <1>5, <1>6, <1>7, <2>1, StepIsPart
<1>9. CASE pump[c] = "dead"
  <2>1. Same(c)
    BY <1>7, <1>9, StandingFacts DEF Same
  <2> QED BY <1>2, <1>5, <1>6, <2>1, StepIsHidden
<1> QED BY <1>2, <1>8, <1>9

\* Every step of the fan-out centre is one of FrameFeed's, or hidden from it.
LEMMA StepMaps ==
    ASSUME HubInv, [HubNext]_hubVars
    PROVE  FeedStep
<1>1. HubTypeOK
  BY DEF HubInv
<1>2. ASSUME NEW e \in Emitter, FansOut(e)
      PROVE  FeedStep
  BY <1>2, BroadcastForMaps, AwaitStartMaps DEF FansOut
<1>3. ASSUME NEW e \in Emitter, Waits(e)
      PROVE  FeedStep
  BY <1>3, AwaitEndMaps, AwaitSendMaps DEF Waits
<1>4. CASE Serves
  BY <1>4, HandleMaps, ReplyMaps DEF Serves
<1>5. ASSUME NEW c \in Client, Ask(c) \/ Offer(c)
      PROVE  FeedStep
  <2>1. UNCHANGED <<clients, feed, queue, pump, task, emitted, seen>>
    BY <1>5 DEF Ask, Offer
  <2> QED BY <1>1, <2>1, QuietIsHidden
<1>6. ASSUME NEW c \in Client, Connect(c) \/ Pump(c)
      PROVE  FeedStep
  BY <1>6, ConnectMaps, PumpMaps
<1>7. ASSUME NEW c \in Client, PumpFails(c) \/ Hangup(c) \/ Kicked(c)
      PROVE  FeedStep
  BY <1>7, EndingMaps
<1>8. CASE UNCHANGED hubVars
  BY <1>1, <1>8, QuietIsHidden DEF hubVars
<1> QED BY <1>2, <1>3, <1>4, <1>5, <1>6, <1>7, <1>8 DEF HubNext

\* A server that starts shows FrameFeed what it starts from.
LEMMA InitMaps ==
    ASSUME HubInit
    PROVE  Feed!FeedInit
<1>1. Keeping = {}
  BY DEF HubInit, Keeping, Idle
<1>2. ASSUME NEW c \in Client
      PROVE  /\ Standing(c) = IF c = Local THEN "present" ELSE "absent"
             /\ Holes(c) = {} /\ \A e \in Emitter : Owed(c, e) = {}
  <2>1. pump[c] = (IF c = Local THEN "on" ELSE "none") /\ (c \in clients <=> c = Local)
    BY DEF HubInit
  <2>2. Standing(c) = IF c = Local THEN "present" ELSE "absent"
    BY <2>1, StandingFacts
  <2>3. Holes(c) = {}
    BY DEF HubInit, Holes, Idle
  <2>4. ASSUME NEW e \in Emitter
        PROVE  Owed(c, e) = {}
    <3>1. Queued(c, e) = {}
      BY DEF HubInit, Queued
    <3>2. Sending(c, e) = {}
      BY DEF HubInit, Sending, Idle
    <3> QED BY <3>1, <3>2 DEF Owed
  <2> QED BY <2>2, <2>3, <2>4
<1> QED BY <1>1, <1>2 DEF HubInit, Feed!FeedInit

\* FeedIsKept: the fan-out centre implements FrameFeed, however its tasks interleave.
THEOREM FeedIsKeptCorrect == HubSpec => FeedIsKept
<1>1. HubInit => Feed!FeedInit
  BY InitMaps
<1>2. HubInv /\ [HubNext]_hubVars => FeedStep
  BY StepMaps
<1> QED BY <1>1, <1>2, HubCorrect, PTL DEF HubSpec, FeedIsKept, Feed!FeedSpec, FeedStep

=============================================================================
