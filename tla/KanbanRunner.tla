---------------------------- MODULE KanbanRunner ----------------------------
(***************************************************************************)
(* The kanban plugin: a board of cards on disk, the daemon of the plugin   *)
(* that starts a session for each queued card and one merge at a time, the *)
(* host that executes its actions, and the sessions and users that write   *)
(* the state of the cards through processes of their own.                  *)
(*                                                                         *)
(* The host asks once per tick (driver/next); the plugin answers with at   *)
(* most one action, and learns at the next tick what came of it.  Three    *)
(* kinds of memory survive different failures: the board, the observations *)
(* and the record of the merge holder are files; the leases, the merge     *)
(* lock and the actions in flight die with the plugin; the sessions die    *)
(* with the host.                                                          *)
(***************************************************************************)
EXTENDS Naturals, FiniteSets, Sequences, SequencesExt

CONSTANTS
    Card,           \* the cards of one project
    MergeKind,      \* those that were delivered as merge cards (CardKind::Merge)
    Spoken,         \* bound: the states that sessions and users declare,
    Outcomes,       \*        and those that the session of a merge does
    Limit,          \* the peak of the calendar: slots in the pool of leases
    MaxSessions,    \* bound: sessions the host ever starts
    MaxRequests,    \* bound: verbs that queue a card again
    MaxFaults,      \* bound: restarts of plugin and host, lost answers, closed merges,
                    \*        records that are not written
    None

ASSUME KanbanAssumption ==
    /\ MergeKind \subseteq Card
    /\ Spoken \subseteq {"queued", "running", "needs_you", "awaiting_merge", "failed", "done"}
    /\ Outcomes \subseteq {"needs_you", "awaiting_merge", "failed", "done"}
    /\ Limit \in Nat \ {0}
    /\ {MaxSessions, MaxRequests, MaxFaults} \subseteq Nat
    /\ IsFiniteSet(Card) /\ None \notin Card /\ None \notin Nat

VARIABLES
    board,      \* board.json: the state of each card
    shelf,      \* board.json: the cards in the order they start in
    line,       \* board.json: the cards by the time of their merge-request
    thread,     \* board.json: the session of each card
    observed,   \* observations.json: what was last seen of each session
    holder,     \* merge.lock.holder: the card, and the process that wrote it
    life,       \* the process of the plugin that runs now
    leases,     \* its leases, by card
    gate,       \* does it hold merge.lock?
    minted,     \* the actions it has given a number
    pending,    \* the actions it has given out and not heard of
    at,         \* where its driver_step stands
    rest,       \* the candidates promote_merge_queue has not tried
    answer,     \* the action it answers with
    room,       \* does the host say that the machine has room this tick?
    session,    \* the sessions of the host, in the order they were started
    result,     \* what the host has to report at its next tick
    requests,   \* how many verbs queued a card
    faults,     \* how many processes, answers, merges and records were lost
    overruled,  \* history: the cards somebody settled while a session merged them
    unnamed     \* history: the records that were never written, though the lock was taken

files   == <<board, shelf, line, thread, observed, holder>>
memory  == <<life, leases, gate, minted, pending>>
step    == <<at, rest, answer, room>>
host    == <<session, result>>
budgets == <<requests, faults>>
history == <<overruled, unnamed>>
kvars   == <<files, memory, step, host, budgets, history>>

CardState == {"absent", "queued", "running", "needs_you", "awaiting_merge",
              "merge_queued", "failed", "done"}
Terminal  == {"failed", "done"}

NoHolder == [card |-> None, of |-> 0]
NoAction == [id |-> <<0, 0>>, card |-> None, does |-> "nothing"]
NoResult == [id |-> <<0, 0>>, session |-> None]

Actions == [id : (1..MaxFaults + 1) \X (Nat \ {0}), card : Card, kind : {"launch", "for_merge"}]

KanbanInit ==
    /\ board = [c \in Card |-> "absent"]
    /\ shelf = <<>> /\ line = <<>>
    /\ thread = [c \in Card |-> None]
    /\ observed = [s \in 1..MaxSessions |-> "unseen"]
    /\ holder = NoHolder
    /\ life = 1 /\ leases = {} /\ gate = FALSE /\ minted = 0 /\ pending = {}
    /\ at = "idle" /\ rest = <<>> /\ answer = NoAction /\ room = FALSE
    /\ session = <<>> /\ result = NoResult
    /\ requests = 0 /\ faults = 0
    /\ overruled = {} /\ unnamed = {}
-----------------------------------------------------------------------------
(***************************************************************************)
(* The sessions.  The session of a merge owes the board two words: that it *)
(* is done with the slot, and what came of the merge.  Every session stays *)
(* alive until somebody closes it.                                         *)
(***************************************************************************)
Sessions == DOMAIN session
Alive(s) == s \in Sessions /\ session[s].does # "over"
Merging  == {s \in Sessions : session[s].does = "merge"}
Owing    == {s \in Sessions : session[s].does \in {"merge", "merged"}}

CanTransitionTo(from, to) == from \notin Terminal /\ from # to

\* The card's merge is under way, or about to be: its session was asked for, or
\* owes the board a word.
MergeTurn(c) ==
    \/ answer.card = c /\ answer.does = "merge"
    \/ \E s \in Owing : session[s].card = c

\* Somebody else settles the card, by its state or by its record.
Settled(c) == overruled' = IF MergeTurn(c) THEN overruled \cup {c} ELSE overruled

(***************************************************************************)
(* The writers of the board: each verb is a process of its own, or the     *)
(* loop of the daemon, and holds board.lock for one read-change-write.     *)
(***************************************************************************)
Fault == faults < MaxFaults /\ faults' = faults + 1

Verb == UNCHANGED <<thread, observed, memory, step, result, faults, unnamed>>

\* The inbox delivers a card.  Who delivers a merge has confirmed it already.
Enqueue(c) ==
    /\ board[c] = "absent"
    /\ board' = [board EXCEPT ![c] = IF c \in MergeKind THEN "merge_queued" ELSE "queued"]
    /\ line' = IF c \in MergeKind THEN Append(line, c) ELSE line
    /\ shelf' = Append(shelf, c)
    /\ Verb /\ UNCHANGED <<holder, session, requests, overruled>>

Requeues == requests < MaxRequests /\ requests' = requests + 1

\* `state <card> <st>`, by anyone, whatever becomes of the card meanwhile.
SetState(c, st) ==
    /\ board[c] # "absent"
    /\ CanTransitionTo(board[c], st)
    /\ board' = [board EXCEPT ![c] = st]
    /\ line' = Remove(line, c)
    /\ IF st = "queued" THEN Requeues ELSE UNCHANGED requests
    /\ Settled(c)
    /\ Verb /\ UNCHANGED <<shelf, holder, session>>

MergeRequest(c) ==
    /\ Requeues
    /\ board[c] = "awaiting_merge"
    /\ board' = [board EXCEPT ![c] = "merge_queued"]
    /\ line' = Append(Remove(line, c), c)
    /\ Verb /\ UNCHANGED <<shelf, holder, session, overruled>>

MergeCancel(c) ==
    /\ board[c] = "merge_queued"
    /\ board' = [board EXCEPT ![c] = "awaiting_merge"]
    /\ line' = Remove(line, c)
    /\ Verb /\ UNCHANGED <<shelf, holder, session, requests, overruled>>

\* `merge-finish` in a process without the lock clears what a dead one left.
AbandonedOrNot(c) == holder.card = c

Abandoned(c) == holder.card = c /\ holder.of # life

Cleared(c) == IF Abandoned(c) THEN NoHolder ELSE holder

\* The session of a merge releases the slot, as its objective tells it to.
FinishMerge(s) ==
    /\ s \in Merging
    /\ holder' = Cleared(session[s].card)
    /\ session' = [session EXCEPT ![s].does = "merged"]
    /\ Verb /\ UNCHANGED <<board, shelf, line, requests, overruled>>

\* It records the outcome, unless the card is settled for good; a merge that was
\* not finished is over by that.
RecordMerge(s, st) ==
    /\ s \in Owing
    /\ LET c == session[s].card IN
       IF CanTransitionTo(board[c], st)
       THEN board' = [board EXCEPT ![c] = st] /\ line' = Remove(line, c)
       ELSE UNCHANGED <<board, line>>
    /\ session' = [session EXCEPT ![s].does = "rest"]
    /\ Verb /\ UNCHANGED <<shelf, holder, requests, overruled>>

\* A user settles a merge by hand, or believes to.
ClearStale(c) ==
    /\ Abandoned(c)
    /\ holder' = Cleared(c)
    /\ Settled(c)
    /\ Verb /\ UNCHANGED <<board, shelf, line, session, requests>>
-----------------------------------------------------------------------------
(***************************************************************************)
(* driver_step, first half: what the host reports is written down.         *)
(***************************************************************************)
ActionId == <<life, minted + 1>>

\* The daemon's own merge_finish.  Whichever card it is called for, the lock
\* goes; the record goes only if it names that card.
MergeFinish(c) ==
    /\ gate' = FALSE
    /\ holder' = IF gate THEN (IF holder.card = c THEN NoHolder ELSE holder)
                           ELSE Cleared(c)

ApplyResultKeepsGate(p, s) ==
    /\ IF s # None THEN thread' = [thread EXCEPT ![p.card] = s] ELSE UNCHANGED thread
    /\ IF s = None /\ p.kind = "launch" /\ CanTransitionTo(board[p.card], "failed")
       THEN board' = [board EXCEPT ![p.card] = "failed"] ELSE UNCHANGED board
    /\ UNCHANGED <<gate, holder>>

\* A session that was launched is written on its card; a failed launch fails
\* the card, unless it was a merge session: then it gives the lock back.
ApplyResult(p, s) ==
    CASE s # None ->
            /\ thread' = [thread EXCEPT ![p.card] = s]
            /\ UNCHANGED <<board, gate, holder>>
      [] s = None /\ p.kind = "launch" ->
            /\ board' = IF CanTransitionTo(board[p.card], "failed")
                        THEN [board EXCEPT ![p.card] = "failed"] ELSE board
            /\ UNCHANGED <<thread, gate, holder>>
      [] OTHER ->
            /\ MergeFinish(p.card)
            /\ UNCHANGED <<board, thread>>

\* A result is taken by the number of its action, and with it the entry: one
\* that was sent twice, or is of an earlier process, finds none.
ReportedToWhomever(p) == result # NoResult

Reported(p) == p.id = result.id

ConsumeResults ==
    /\ at = "idle"
    /\ at' = "observe"
    /\ pending' = {p \in pending : ~Reported(p)}
    /\ IF \E p \in pending : Reported(p)
       THEN ApplyResult(CHOOSE p \in pending : Reported(p), result.session)
       ELSE UNCHANGED <<board, thread, gate, holder>>
    /\ UNCHANGED <<shelf, line, observed, life, leases, minted, rest, answer, room,
                   host, budgets, history>>

\* The lock is given back when the card it is held for is not running any more.
GateIsOver == gate /\ holder # NoHolder /\ board[holder.card] # "running"

\* Is there a slot in the pool?
SlotFree == Cardinality(leases) < Limit

\* The candidates of promote_merge_queue: none while anybody is on record as
\* merging, alive or not.
CandidatesWithoutRecord(h) == {c \in Card : board[c] = "merge_queued"}

Candidates(h) == IF h # NoHolder THEN {} ELSE {c \in Card : board[c] = "merge_queued"}

Before(s, c, d) == \E i, j \in DOMAIN s : i < j /\ s[i] = c /\ s[j] = d

\* The cards of S by the time of their merge-request.
InLine(S) ==
    {q \in SeqOf(S, Cardinality(S)) :
        /\ Len(q) = Cardinality(S)
        /\ \A i, j \in DOMAIN q : i < j => Before(line, q[i], q[j])}

Record(c) == [card |-> c, of |-> life]

\* One candidate takes a slot and the lock, and is recorded; without a slot, or
\* with the lock taken, the queue waits.  That the record may not be written is
\* nobody's concern: the lock is taken all the same.
TryGate(h, candidates) ==
    IF candidates = <<>> \/ ~SlotFree \/ (gate /\ ~GateIsOver)
    THEN /\ at' = "launch" /\ rest' = <<>> /\ holder' = h /\ UNCHANGED faults
    ELSE /\ at' = "prepare" /\ rest' = candidates
         /\ \/ holder' = Record(Head(candidates)) /\ UNCHANGED faults
            \/ holder' = h /\ Fault

\* The observations, the lock, and the look at the merge queue.  `some` says
\* whether the machine has room for one more running session.
Observe(some) ==
    /\ at = "observe"
    /\ room' = some
    /\ observed' = [s \in 1..MaxSessions |->
                        IF s \notin Sessions THEN "unseen"
                        ELSE IF Alive(s) THEN "alive" ELSE "dead"]
    /\ gate' = (gate /\ ~GateIsOver)
    /\ LET h == IF GateIsOver THEN NoHolder ELSE holder
       IN  IF some THEN \E q \in InLine(Candidates(h)) : TryGate(h, q)
           ELSE at' = "launch" /\ rest' = <<>> /\ holder' = h /\ UNCHANGED faults
    /\ UNCHANGED <<board, shelf, line, thread, life, leases, minted, pending, answer,
                   host, requests, history>>

\* The tree of the merge cannot be prepared: lock and slot go back, the record
\* of the holder stays, and the next candidate is tried.
PrepareFails ==
    /\ at = "prepare"
    /\ TryGate(holder, Tail(rest))
    /\ UNCHANGED <<board, shelf, line, thread, observed, memory, answer, room, host,
                   requests, history>>

\* The action that is answered, and the entry that waits for its result.
Mint(c, kind, does) ==
    /\ minted' = minted + 1
    /\ pending' = pending \cup {[id |-> ActionId, card |-> c, kind |-> kind]}
    /\ answer' = [id |-> ActionId, card |-> c, does |-> does]

\* The tree is there: the card is set running, whatever its state has become
\* since the look at the queue, unless that is final.
Promote ==
    /\ at = "prepare"
    /\ LET c == Head(rest) IN
       IF CanTransitionTo(board[c], "running")
       THEN /\ board' = [board EXCEPT ![c] = "running"]
            /\ line' = Remove(line, c)
            /\ gate' = TRUE
            /\ leases' = leases \cup {c}
            /\ Mint(c, "for_merge", "merge")
            /\ at' = "reply" /\ rest' = <<>> /\ room' = FALSE
            /\ unnamed' = unnamed \cup ({Record(c)} \ {holder})
            /\ UNCHANGED <<holder, faults>>
       ELSE /\ TryGate(holder, Tail(rest))
            /\ UNCHANGED <<board, line, gate, leases, minted, pending, answer, room, unnamed>>
    /\ UNCHANGED <<shelf, thread, observed, life, host, requests, overruled>>

(***************************************************************************)
(* driver_step, second half: the next card of the shelf.                   *)
(***************************************************************************)
\* Whose session counts as alive: one that was seen alive, or was not seen yet
\* and whose card is not done; and a card whose launch is under way.
Awaited(c) == \E p \in pending : p.card = c /\ p.kind = "launch"

LiveWhileRunning(c) ==
    board[c] = "running" /\ (IF thread[c] = None THEN Awaited(c)
                            ELSE observed[thread[c]] # "dead")

Live(c) ==
    IF thread[c] = None THEN board[c] = "running" /\ Awaited(c)
    ELSE \/ observed[thread[c]] = "alive"
         \/ observed[thread[c]] = "unseen" /\ board[c] # "done"

\* reconcile_leases_locked: the leases of the dead are dropped, the live take
\* one while there is one.
Reconciled(held, l) ==
    LET kept  == held \cap {c \in Card : Live(c)}
        wants == {c \in Card : Live(c)} \ kept
    IN  /\ kept \subseteq l /\ l \subseteq kept \cup wants
        /\ Cardinality(l) <= Limit
        /\ (l # kept \cup wants) => (Cardinality(l) = Limit)

\* The queued card that is first on the shelf, if there is one.
Startable ==
    {c \in Card : /\ board[c] = "queued"
                  /\ \A d \in Card : board[d] = "queued" => ~Before(shelf, d, c)}

\* The first card of the shelf is set running, with a slot, and its launch is
\* the answer; or its worktree cannot be made, and it fails.
NextLaunch(worktree) ==
    /\ at = "launch"
    /\ at' = "reply" /\ room' = FALSE
    /\ IF ~room
       THEN UNCHANGED <<board, leases, minted, pending, answer>>
       ELSE \E l \in SUBSET Card :
            /\ Reconciled(leases, l)
            /\ IF Cardinality(l) >= Limit \/ Startable = {}
               THEN /\ leases' = l
                    /\ UNCHANGED <<board, minted, pending, answer>>
               ELSE \E c \in Startable :
                    IF worktree
                    THEN /\ board' = [board EXCEPT ![c] = "running"]
                         /\ leases' = l \cup {c}
                         /\ Mint(c, IF c \in MergeKind THEN "for_merge" ELSE "launch",
                                 "work")
                    ELSE /\ board' = [board EXCEPT ![c] = "failed"]
                         /\ leases' = l
                         /\ UNCHANGED <<minted, pending, answer>>
    /\ UNCHANGED <<shelf, line, thread, observed, holder, life, gate, rest, host, budgets,
                   history>>
-----------------------------------------------------------------------------
(***************************************************************************)
(* The host.                                                               *)
(***************************************************************************)
Back == at = "reply" /\ at' = "idle" /\ answer' = NoAction

\* The answer arrives: what was reported is forgotten, the action, if there is
\* one, starts a session.
Deliver ==
    /\ Back
    /\ IF answer = NoAction
       THEN result' = NoResult /\ UNCHANGED session
       ELSE /\ Len(session) < MaxSessions
            /\ session' = Append(session, [card |-> answer.card, does |-> answer.does])
            /\ result' = [id |-> answer.id, session |-> Len(session) + 1]
    /\ UNCHANGED <<files, memory, rest, room, budgets, history>>

LaunchFails ==
    /\ Back
    /\ answer # NoAction
    /\ result' = [id |-> answer.id, session |-> None]
    /\ UNCHANGED <<files, memory, rest, room, session, budgets, history>>

\* The answer does not arrive: the host keeps what it had to report.
AnswerLost ==
    /\ Back
    /\ Fault
    /\ UNCHANGED <<files, memory, rest, room, host, requests, history>>

\* Somebody closes a session; its card keeps its state.
Close(s) ==
    /\ Alive(s)
    /\ IF s \in Owing THEN Fault ELSE UNCHANGED faults
    /\ session' = [session EXCEPT ![s].does = "over"]
    /\ UNCHANGED <<files, memory, step, result, requests, history>>

\* The host dies, its sessions and its reports with it.
HostCrash ==
    /\ at \in {"idle", "reply"}
    /\ Fault
    /\ session' = [s \in Sessions |-> [session[s] EXCEPT !.does = "over"]]
    /\ result' = NoResult
    /\ at' = "idle" /\ answer' = NoAction
    /\ UNCHANGED <<files, memory, rest, room, requests, history>>

(***************************************************************************)
(* The plugin dies at any point and is started again: the kernel gives its *)
(* locks back, running cards without a session are handed to the user, and *)
(* the sessions that were last seen alive take their leases.               *)
(***************************************************************************)
Restart ==
    /\ Fault
    /\ life' = life + 1
    /\ gate' = FALSE /\ minted' = 0 /\ pending' = {}
    /\ at' = "idle" /\ rest' = <<>> /\ answer' = NoAction /\ room' = FALSE
    /\ board' = [c \in Card |-> IF board[c] = "running" /\ thread[c] = None
                                THEN "needs_you" ELSE board[c]]
    /\ UNCHANGED <<shelf, line, thread, observed, holder, host, requests, history>>
    /\ \E l \in SUBSET Card : Reconciled({}, l)' /\ leases' = l
-----------------------------------------------------------------------------
Verbs ==
    \/ \E c \in Card :
        \/ Enqueue(c) \/ MergeRequest(c) \/ MergeCancel(c)
        \/ ClearStale(c)
        \/ \E st \in Spoken : SetState(c, st)
    \/ \E s \in Sessions :
        \/ FinishMerge(s)
        \/ \E st \in Outcomes : RecordMerge(s, st)

DriverStep ==
    \/ ConsumeResults
    \/ \E some \in BOOLEAN : Observe(some)
    \/ Promote \/ PrepareFails
    \/ \E worktree \in BOOLEAN : NextLaunch(worktree)

Host ==
    \/ Deliver \/ LaunchFails \/ AnswerLost \/ HostCrash
    \/ \E s \in Sessions : Close(s)

KanbanNext == Verbs \/ DriverStep \/ Host \/ Restart

KanbanSpec == KanbanInit /\ [][KanbanNext]_kvars
-----------------------------------------------------------------------------
(***************************************************************************)
(* Fairness.  The host asks every three seconds, and its query and its     *)
(* launch return; the session of a merge says some day what came of it.    *)
(***************************************************************************)
Tick == DriverStep \/ Deliver \/ LaunchFails

FairKanbanSpec ==
    /\ KanbanSpec
    /\ WF_kvars(Tick)
    /\ WF_kvars(\E s \in Owing, st \in Outcomes : RecordMerge(s, st))
-----------------------------------------------------------------------------
KanbanTypeOK ==
    /\ board \in [Card -> CardState]
    /\ {shelf, line} \subseteq SeqOf(Card, Cardinality(Card))
    /\ thread \in [Card -> 1..MaxSessions \cup {None}]
    /\ observed \in [1..MaxSessions -> {"unseen", "alive", "dead"}]
    /\ holder \in [card : Card, of : 1..MaxFaults + 1] \cup {NoHolder}
    /\ life \in 1..MaxFaults + 1
    /\ leases \in {l \in SUBSET Card : Cardinality(l) <= Limit}
    /\ gate \in BOOLEAN /\ room \in BOOLEAN
    /\ pending \subseteq Actions
    /\ at \in {"idle", "observe", "prepare", "launch", "reply"}
    /\ session \in SeqOf([card : Card, does : {"work", "merge", "merged", "rest", "over"}],
                         MaxSessions)
    /\ overruled \subseteq Card
    /\ unnamed \subseteq [card : Card, of : 1..life]

\* Somebody else spoke for the session that merges the card, or the daemon could
\* not write down that it does.
Excused == overruled \cup {r.card : r \in unnamed}

\* merge_lock.rs: at any time at most one merge is being executed in a project.
\* The lock dies with the plugin and the session does not: across a restart it
\* is the record of the holder that keeps the next merge out.  So it is, but for
\* two things nothing in the code prevents: a user settles the card, or clears
\* its record, under the session that merges it; or the record was not written.
OneMergeAtATime ==
    \A s, t \in Merging : s = t \/ session[s].card \in Excused \/ session[t].card \in Excused

\* The daemon gives its lock back when the card on record is not running any
\* more, so a lock it holds without a record of its own never comes back: no
\* other process may clear a record while its writer lives, and only a record
\* that was not written is missing.
GateIsNamed ==
    gate => \/ holder # NoHolder /\ holder.of = life
            \/ \E r \in unnamed : r.of = life

\* The session on a card is one that was started for that card, whatever was
\* answered, lost, resent or restarted in between.
ThreadServesItsCard ==
    \A c \in Card : thread[c] # None => session[thread[c]].card = c

\* Slots are counted by sessions, not by the state of the cards: the slot of a
\* card is not given away while the session on the card is alive.
SlotFollowsSession ==
    [][life' = life =>
        \A c \in leases \ leases' : thread[c] # None => ~Alive(thread[c])]_kvars

\* While nothing fails, the daemon does not keep the lock for ever, whether the
\* session of the merge was started or not, and whoever settles its card.  The
\* one way out is a window of one tick: the card is queued again after the look
\* at the lock and launched before the next, so that it runs without a merge.
Relaunchable == at = "launch" /\ gate /\ board[holder.card] = "queued"

GateComesBack == [](faults = 0 /\ ~Relaunchable) => (gate ~> ~gate)
=============================================================================
