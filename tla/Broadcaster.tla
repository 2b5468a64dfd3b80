----------------------------- MODULE Broadcaster -----------------------------
(***************************************************************************)
(* The fan-out centre of the app server (yi-agent-app-server, broadcast.rs)*)
(* with what feeds and drains it: the shared main loop and the turn        *)
(* drivers (server.rs), the connections' read loops and outlet pumps       *)
(* (ws.rs, server.rs).  Tasks interleave at every await; the registry's    *)
(* mutex is never held across one.                                         *)
(*                                                                         *)
(* A frame is its emitter and number; replies carry no number.             *)
(***************************************************************************)
EXTENDS Naturals, Sequences, Functions

CONSTANTS
    Client, Local,  \* connections; Local is the desktop's own, on stdio
    Driver,         \* the tasks that drive turns
    Loop,           \* the main loop: the other emitter
    Thread, Everyone,
    QueueCap,       \* CLIENT_QUEUE
    InboundCap,     \* the capacity of the inbound channel
    MaxFrames,      \* bound: frames in all
    MaxAsks         \* bound: requests in all

Emitter == Driver \cup {Loop}

ASSUME ClientAssumption == Local \in Client /\ Loop \notin Driver /\ Everyone \notin Thread
ASSUME CapAssumption ==
    /\ QueueCap \in Nat \ {0} /\ InboundCap \in Nat \ {0}
    /\ MaxFrames \in Nat /\ MaxAsks \in Nat

VARIABLES
    clients,    \* the registered clients
    feed,       \* [Client -> the threads it follows: all, or those it asked for]
    queue,      \* [Client -> its outbound queue]
    pump,       \* [Client -> "none", "on" or "dead"]
    reading,    \* [Client -> "none", "waiting", "offering" or "closed": its read loop]
    inbound,    \* the requests the main loop will read, by client
    task,       \* [Emitter -> what it awaits]
    emitted,    \* [Emitter -> number of frames it fanned out]
    seen,       \* [Client -> [Emitter -> the last frame its pump wrote]]
    asked       \* number of requests made

hubVars == <<clients, feed, queue, pump, reading, inbound, task, emitted, seen, asked>>

Reply == 0

Idle == [op |-> "idle"]
Awaiting(n, targets, evict) == [op |-> "awaiting", n |-> n, targets |-> targets, evict |-> evict]
Replying(c) == [op |-> "replying", to |-> c]

HubInit ==
    /\ clients = {Local}
    /\ feed    = [c \in Client |-> Thread]
    /\ queue   = [c \in Client |-> <<>>]
    /\ pump    = [c \in Client |-> IF c = Local THEN "on" ELSE "none"]
    /\ reading = [c \in Client |-> IF c = Local THEN "waiting" ELSE "none"]
    /\ inbound = <<>>
    /\ task    = [e \in Emitter |-> Idle]
    /\ emitted = [e \in Emitter |-> 0]
    /\ seen    = [c \in Client |-> [e \in Emitter |-> 0]]
    /\ asked   = 0

Total(count) == FoldFunction(+, 0, count)

Frame(e, n) == [from |-> e, n |-> n]

Accepts(c, key) == key = Everyone \/ key \in feed[c]

\* try_send fails on a full queue and on one whose receiver is gone.
CanSend(c) == pump[c] = "on" /\ Len(queue[c]) < QueueCap

Does(e, what) == task' = [task EXCEPT ![e] = what]

-----------------------------------------------------------------------------
(* Fanning out.                                                            *)

\* broadcast_for: one pass under the lock, nobody is waited for
BroadcastFor(e, key) ==
    LET n       == emitted[e] + 1
        targets == {c \in clients : Accepts(c, key)}
        takers  == {c \in targets : CanSend(c)}
    IN
    /\ task[e] = Idle /\ Total(emitted) < MaxFrames
    /\ emitted' = [emitted EXCEPT ![e] = n]
    /\ queue' = [c \in Client |-> IF c \in takers THEN Append(queue[c], Frame(e, n))
                                                  ELSE queue[c]]
    /\ clients' = (clients \ targets) \cup takers \cup (targets \cap {Local})
    /\ UNCHANGED <<feed, pump, reading, inbound, task, seen, asked>>

\* broadcast_await: the targets are taken under the lock ...
AwaitStart(e, key) ==
    LET n == emitted[e] + 1 IN
    /\ task[e] = Idle /\ Total(emitted) < MaxFrames
    /\ emitted' = [emitted EXCEPT ![e] = n]
    /\ Does(e, Awaiting(n, {c \in clients : Accepts(c, key)}, {}))
    /\ UNCHANGED <<clients, feed, queue, pump, reading, inbound, seen, asked>>

\* Mutant of AwaitSend: the desktop is not waited for either.
AwaitSendTries(e, c) ==
    LET t == task[e] IN
    /\ t.op = "awaiting" /\ c \in t.targets
    /\ queue' = IF CanSend(c) THEN [queue EXCEPT ![c] = Append(@, Frame(e, t.n))] ELSE queue
    /\ Does(e, Awaiting(t.n, t.targets \ {c},
                        IF CanSend(c) \/ c = Local THEN t.evict ELSE t.evict \cup {c}))
    /\ UNCHANGED <<clients, feed, pump, reading, inbound, emitted, seen, asked>>

\* ... served without it, in the order of a hash map, only the desktop waited for ...
AwaitSend(e, c) ==
    LET t == task[e] IN
    /\ t.op = "awaiting" /\ c \in t.targets
    /\ c = Local /\ pump[c] = "on" => CanSend(c)
    /\ queue' = IF CanSend(c) THEN [queue EXCEPT ![c] = Append(@, Frame(e, t.n))] ELSE queue
    /\ Does(e, Awaiting(t.n, t.targets \ {c},
                        IF CanSend(c) \/ c = Local THEN t.evict ELSE t.evict \cup {c}))
    /\ UNCHANGED <<clients, feed, pump, reading, inbound, emitted, seen, asked>>

\* ... and those that were full removed by their id.
AwaitEnd(e) ==
    /\ task[e].op = "awaiting" /\ task[e].targets = {}
    /\ clients' = clients \ task[e].evict
    /\ Does(e, Idle)
    /\ UNCHANGED <<feed, queue, pump, reading, inbound, emitted, seen, asked>>

-----------------------------------------------------------------------------
(* The main loop.                                                          *)

\* write_response to a client that is gone: without its desktop the session ends.
Refused(c) == IF c = Local THEN [op |-> "ended"] ELSE Idle

\* A request is read and handled: it may subscribe its client (the desktop
\* never does), or revoke a device; then the reply's queue is looked up.
Served(c) ==
    /\ \/ UNCHANGED <<clients, feed>>
       \/ \E threads \in SUBSET Thread :
            c # Local /\ feed' = [feed EXCEPT ![c] = threads] /\ UNCHANGED clients
       \/ \E d \in clients \ {Local} : clients' = clients \ {d} /\ UNCHANGED feed
    /\ Does(Loop, IF c \in clients' THEN Replying(c) ELSE Refused(c))

\* What a ws client left in the channel before it was removed is dropped.
Handle(c) ==
    /\ task[Loop] = Idle /\ inbound # <<>> /\ c = Head(inbound)
    /\ inbound' = Tail(inbound)
    /\ IF c \in clients \cup {Local} THEN Served(c) ELSE UNCHANGED <<clients, feed, task>>
    /\ UNCHANGED <<queue, pump, reading, emitted, seen, asked>>

\* Mutant of ReplyRefused: a queue that closes while it is waited for goes unnoticed.
ReplyRefusedDesktopOnly(c) ==
    /\ c = Local /\ task[Loop] = Replying(c) /\ pump[c] = "dead"
    /\ clients' = clients \ {c}
    /\ Does(Loop, Refused(c))
    /\ UNCHANGED <<feed, queue, pump, reading, inbound, emitted, seen, asked>>

\* reply finds the queue closed.
ReplyRefused(c) ==
    /\ task[Loop] = Replying(c) /\ pump[c] = "dead"
    /\ clients' = clients \ {c}
    /\ Does(Loop, Refused(c))
    /\ UNCHANGED <<feed, queue, pump, reading, inbound, emitted, seen, asked>>

\* reply waits for room in the client's queue, whoever the client is, and whether
\* or not it is removed meanwhile
ReplySent(c) ==
    /\ task[Loop] = Replying(c) /\ CanSend(c)
    /\ queue' = [queue EXCEPT ![c] = Append(@, Frame(Loop, Reply))]
    /\ Does(Loop, Idle)
    /\ UNCHANGED <<clients, feed, pump, reading, inbound, emitted, seen, asked>>

-----------------------------------------------------------------------------
(* Connections.                                                            *)

\* handle_ws
Connect(c) ==
    /\ reading[c] = "none"
    /\ clients' = clients \cup {c}
    /\ pump'    = [pump EXCEPT ![c] = "on"]
    /\ reading' = [reading EXCEPT ![c] = "waiting"]
    /\ UNCHANGED <<feed, queue, inbound, task, emitted, seen, asked>>

\* The client asks; its read loop has the line in hand ...
Ask(c) ==
    /\ reading[c] = "waiting" /\ asked < MaxAsks
    /\ asked' = asked + 1
    /\ reading' = [reading EXCEPT ![c] = "offering"]
    /\ UNCHANGED <<clients, feed, queue, pump, inbound, task, emitted, seen>>

\* ... and hands it on when the channel has room.
Offer(c) ==
    /\ reading[c] = "offering" /\ Len(inbound) < InboundCap
    /\ inbound' = Append(inbound, c)
    /\ reading' = [reading EXCEPT ![c] = "waiting"]
    /\ UNCHANGED <<clients, feed, queue, pump, task, emitted, seen, asked>>

\* The outlet pump writes a frame.
Pump(c) ==
    /\ pump[c] = "on" /\ queue[c] # <<>>
    /\ LET f == Head(queue[c]) IN
         seen' = IF f.n = Reply THEN seen ELSE [seen EXCEPT ![c][f.from] = f.n]
    /\ queue' = [queue EXCEPT ![c] = Tail(@)]
    /\ UNCHANGED <<clients, feed, pump, reading, inbound, task, emitted, asked>>

Closes(c) ==
    /\ pump'  = [pump EXCEPT ![c] = "dead"]
    /\ queue' = [queue EXCEPT ![c] = <<>>]

\* A write fails.  pump_stdout takes the desktop out of the registry.
PumpFails(c) ==
    /\ pump[c] = "on" /\ queue[c] # <<>>
    /\ Closes(c)
    /\ clients' = IF c = Local THEN clients \ {c} ELSE clients
    /\ UNCHANGED <<feed, reading, inbound, task, emitted, seen, asked>>

TearDown(c) ==
    /\ Closes(c)
    /\ clients' = clients \ {c}
    /\ reading' = [reading EXCEPT ![c] = "closed"]
    /\ UNCHANGED <<feed, inbound, task, emitted, seen, asked>>

\* The peer closes a ws connection ...
Hangup(c) == c # Local /\ reading[c] = "waiting" /\ TearDown(c)

\* Mutant of Kicked: the loop looks only between two of its client's lines.
KickedBetweenLines(c) ==
    c # Local /\ reading[c] = "offering" /\ c \notin clients /\ TearDown(c)

\* ... or its read loop finds it was removed; it does not look while it hands on a
\* line.
Kicked(c) == c # Local /\ reading[c] = "waiting" /\ c \notin clients /\ TearDown(c)

-----------------------------------------------------------------------------
FansOut(e) ==
    \E key \in Thread \cup {Everyone} : BroadcastFor(e, key) \/ AwaitStart(e, key)

Waits(e) == AwaitEnd(e) \/ \E c \in Client : AwaitSend(e, c)

Serves == \E c \in Client : Handle(c) \/ ReplyRefused(c) \/ ReplySent(c)

Over == task[Loop].op = "ended"

\* With the session everything ends.
HubNext ==
    /\ ~Over
    /\ \/ \E e \in Emitter : FansOut(e) \/ Waits(e)
       \/ Serves
       \/ \E c \in Client :
            \/ Connect(c) \/ Ask(c) \/ Offer(c) \/ Pump(c) \/ PumpFails(c)
            \/ Hangup(c) \/ Kicked(c)

HubSpec == HubInit /\ [][HubNext]_hubVars

\* The runtime schedules every task.  That a peer reads what is written to it,
\* nobody can promise: the pumps may stop for good.
FairHubSpec ==
    /\ HubSpec
    /\ WF_hubVars(~Over /\ Serves)
    /\ \A e \in Emitter : WF_hubVars(~Over /\ Waits(e))
    /\ \A c \in Client : WF_hubVars(~Over /\ Offer(c)) /\ WF_hubVars(~Over /\ Kicked(c))

-----------------------------------------------------------------------------
Frames == [from : Emitter, n : Nat]

Tasks ==
    [op : {"awaiting"}, n : Nat \ {0}, targets : SUBSET Client, evict : SUBSET Client]
        \cup [op : {"replying"}, to : Client] \cup [op : {"idle", "ended"}]

HubTypeOK ==
    /\ clients \subseteq Client
    /\ feed \in [Client -> SUBSET Thread]
    /\ queue \in [Client -> Seq(Frames)] /\ \A c \in Client : Len(queue[c]) <= QueueCap
    /\ pump \in [Client -> {"none", "on", "dead"}]
    /\ reading \in [Client -> {"none", "waiting", "offering", "closed"}]
    /\ inbound \in Seq(Client) /\ Len(inbound) <= InboundCap
    /\ task \in [Emitter -> Tasks]
    /\ \A e \in Driver : task[e].op \in {"idle", "awaiting"}
    /\ emitted \in [Emitter -> Nat]
    /\ seen \in [Client -> [Emitter -> Nat]]
    /\ asked \in 0 .. MaxAsks

\* What e has queued for a client, and the frame it has yet to send it.
Queued(c, e) ==
    {queue[c][i].n : i \in {j \in DOMAIN queue[c] : queue[c][j].from = e}} \ {Reply}

Sending(c, e) == IF task[e].op = "awaiting" /\ c \in task[e].targets THEN {task[e].n} ELSE {}

Owed(c, e) == IF pump[c] = "on" THEN Queued(c, e) \cup Sending(c, e) ELSE {}

\* The emitters that are about to have the client removed.
Holes(c) ==
    {e \in Emitter : pump[c] = "on" /\ task[e].op = "awaiting" /\ c \in task[e].evict}

\* The emitters that wait until everybody is served.
Keeping == {e \in Emitter : task[e].op = "awaiting"}

Standing(c) ==
    CASE pump[c] = "none" -> "absent"
      [] pump[c] = "dead" -> "gone"
      [] OTHER            -> IF c \in clients THEN "present" ELSE "leaving"

Feed == INSTANCE FrameFeed WITH
            standing <- [c \in Client |-> Standing(c)],
            owed     <- [c \in Client |-> [e \in Emitter |-> Owed(c, e)]],
            holes    <- [c \in Client |-> Holes(c)],
            keeping  <- Keeping

\* The fan-out centre keeps FrameFeed's promise, tasks interleaved as they may be:
\* each client gets each emitter's frames in order, the desktop every frame that
\* carries state, and no client that missed a frame goes on as if it had not
\* (broadcast.rs:119-122 and server.rs:3888-3902).
FeedIsKept == Feed!FeedSpec

\* The main loop waits for room in the queue of a peer that is not reading: of any
\* client it owes a reply, or of the desktop when it fans out.
HeldUp ==
    \E c \in Client :
        /\ pump[c] = "on" /\ ~CanSend(c)
        /\ \/ task[Loop] = Replying(c)
           \/ c = Local /\ task[Loop].op = "awaiting" /\ c \in task[Loop].targets

\* A ws client that was removed, for being slow or revoked, is disconnected soon
\* (ws.rs:447-451), whether it reads or not, also while its own request is in the
\* main loop's hands -- but for one that has a line to hand on while the loop is
\* held up for ever, by whoever it be: its read loop does not look up.
RemovedIsDisconnected ==
    \A c \in Client \ {Local} :
        []<>~(reading[c] = "offering" /\ HeldUp) =>
            ((reading[c] # "none" /\ c \notin clients) ~> reading[c] = "closed" \/ Over)

\* No connection that fails keeps the shared loop from serving the others
\* (write_response, server.rs:3866-3877): while the desktop lives, every request
\* gets to it, whoever hangs up, is revoked or breaks.  A connection that does not
\* fail but stops reading is what the loop has no defence against.
RequestsAreTaken ==
    []<>~HeldUp =>
        \A c \in Client : reading[c] = "offering" ~> reading[c] # "offering" \/ Over
=============================================================================
