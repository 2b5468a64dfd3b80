----------------------------- MODULE ThreadTurns -----------------------------
(***************************************************************************)
(* A conversation of the app server (yi-agent-app-server): the main loop   *)
(* that serves requests (server.rs, rpc/turn.rs, rpc/thread.rs), the task  *)
(* that drives the thread (run_thread_driver) and the agent run it drives  *)
(* (AgentRun), with the thread's log and checkpoint (thread_store.rs).     *)
(*                                                                         *)
(* The main loop and the driver talk through channels; a session command   *)
(* is awaited, so the main loop serves nothing else until it is answered.  *)
(* The driver waits for what comes first: the run's events, an interrupt,  *)
(* an interjection, a command, or the tick that writes a checkpoint.       *)
(*                                                                         *)
(* A run and a driver may both be left behind.  The run of a driver that   *)
(* gave its turn up goes on, deaf.  A driver that a resume replaced before *)
(* it was done goes on beside the new one, and writes the same files.      *)
(***************************************************************************)
EXTENDS AgentRun, FiniteSets

CONSTANTS
    MaxTurns,       \* bound: turns that are started
    Commands,       \* session commands that are tried
    InterruptRoom,  \* the capacity of interrupt_tx
    DecisionRoom,   \* the capacity of decision_tx
    Mishaps,        \* bound: what may happen once
    MaxMishaps      \* bound: how many of them in one behaviour

ASSUME BoundAssumption == MaxTurns \in Nat /\ Interjections \subseteq Nat

VARIABLES
    main,           \* the main loop, and active_turn_id of the thread
    issued,         \* turns that were given an id
    prompts, interrupts, interjects, command, finished,     \* channels
    driver,         \* run_thread_driver
    connected,      \* the client that opened the thread
    old,            \* a driver that was replaced before it was done
    log, partial,   \* disk: the thread's log and its checkpoint
    spent,          \* the mishaps that have happened
    fate,           \* history: what became of each interjection
    allowed,        \* history: confirmations a client allowed, in this turn
    started,        \* history: turns a driver has taken up
    lost,           \* history: turns the disk was made to forget
    behind,         \* history: the disk was not told of the last turn
    outlived        \* history: turns whose driver was replaced before they ended

channels  == <<prompts, interrupts, interjects, command, finished>>
disk      == <<log, partial>>
history   == <<fate, allowed, started, lost, behind, outlived>>
threadVars == <<agentVars, main, issued, channels, driver, connected, old,
                disk, spent, history>>

NoTurn    == 0
NoCommand == "none"
Turns     == 1 .. MaxTurns
Fates     == {"unsent", "sent", "accepted", "folded", "returned"}

NoPartial == [turn |-> NoTurn, messages |-> <<>>]
NewDriver == [at |-> "idle", turn |-> NoTurn, cancelSent |-> FALSE,
              pendingCmd |-> NoCommand, ask |-> 0, answer |-> "none"]

Record(t, messages) == [turn |-> t, messages |-> messages]

Old(place, t) == [at |-> place, turn |-> t, messages |-> session]
NoOld         == [at |-> "none", turn |-> NoTurn, messages |-> <<>>]

Logged == {log[k].turn : k \in DOMAIN log}

\* Mutant of Committed: whether the turn was appended is not looked at.
NeverCommitted == FALSE

\* partial_is_committed
Committed == partial.turn \in Logged

\* load: a checkpoint of a turn that was not appended comes last
Pending == partial.turn # NoTurn /\ ~Committed

\* read_log: an empty transcript does not replace an earlier one
LastLogged ==
    LET full == {k \in DOMAIN log : log[k].messages # <<>>}
    IN  IF full = {} THEN <<>> ELSE log[CHOOSE k \in full : \A j \in full : j <= k].messages

Loaded == IF Pending /\ partial.messages # <<>> THEN partial.messages ELSE LastLogged

\* Bound: a mishap happens once, and few of them together.
Once(m) ==
    /\ m \in Mishaps \ spent /\ Cardinality(spent) < MaxMishaps
    /\ spent' = spent \cup {m}

\* Whether the driver still holds its ends of the channels
Alive == driver.at # "gone"

ThreadInit ==
    /\ AgentInit
    /\ main = [at |-> "free", active |-> NoTurn] /\ issued = 0
    /\ prompts = <<>> /\ interrupts = <<>> /\ interjects = <<>>
    /\ command = NoCommand /\ finished = <<>>
    /\ driver = NewDriver /\ connected = TRUE /\ old = NoOld
    /\ log = <<>> /\ partial = NoPartial /\ spent = {}
    /\ fate = [i \in Interjections |-> "unsent"]
    /\ allowed = {} /\ started = {} /\ lost = {} /\ behind = FALSE /\ outlived = {}

-----------------------------------------------------------------------------
(* The main loop.                                                          *)

Free == main.at = "free"

\* turn/start: refused while a turn is active; a driver that is gone takes none
TurnStart ==
    /\ Free /\ main.active = NoTurn /\ issued < MaxTurns
    /\ issued' = issued + 1
    /\ IF Alive THEN prompts' = Append(prompts, issued + 1) /\ main' = [main EXCEPT !.active = issued + 1]
                ELSE UNCHANGED <<prompts, main>>
    /\ UNCHANGED <<agentVars, interrupts, interjects, command, finished, driver, connected,
                   old, disk, spent, history>>

\* A level signal: try_send, and nothing when the queue is full.
Signalled == IF Len(interrupts) < InterruptRoom THEN Append(interrupts, main.active) ELSE interrupts

\* turn/interrupt
TurnInterrupt ==
    /\ Free /\ main.active # NoTurn /\ Alive /\ Once("interrupt")
    /\ interrupts' = Signalled
    /\ UNCHANGED <<agentVars, main, issued, prompts, interjects, command, finished, driver,
                   connected, old, disk, history>>

\* turn/interject, aimed at the turn that is active now.  The client is told it
\* was taken; whether it was heard is told later.  They are numbered as they come.
TurnInterject(i) ==
    /\ Free /\ main.active # NoTurn /\ Alive /\ fate[i] = "unsent"
    /\ \A j \in Interjections : j < i => fate[j] # "unsent"
    /\ Once(IF \A j \in Interjections : fate[j] = "unsent" THEN "interjection" ELSE "another")
    /\ interjects' = Append(interjects, [of |-> i, turn |-> main.active])
    /\ fate' = [fate EXCEPT ![i] = "sent"]
    /\ UNCHANGED <<agentVars, main, issued, prompts, interrupts, command, finished, driver,
                   connected, old, disk, allowed, started, lost, behind, outlived>>

\* A session command.  Clear and Compact are refused during a turn; the main
\* loop waits for the answer to any.
SendCommand(c) ==
    /\ Free /\ Alive /\ Once("command")
    /\ c \in {"Clear", "Compact"} => main.active = NoTurn
    /\ command' = c /\ main' = [main EXCEPT !.at = "awaiting"]
    /\ UNCHANGED <<agentVars, issued, prompts, interrupts, interjects, finished, driver,
                   connected, old, disk, history>>

\* route_client_response: the first answer of any client
Answer(allow) ==
    /\ Free /\ driver.at = "approval" /\ driver.answer = "none"
    /\ driver' = [driver EXCEPT !.answer = IF allow THEN "allow" ELSE "deny"]
    /\ allowed' = IF allow THEN allowed \cup {driver.ask} ELSE allowed
    /\ UNCHANGED <<agentVars, main, issued, channels, connected, old, disk, spent,
                   fate, started, lost, behind, outlived>>

\* TurnEvent::Finished: only the turn that is active is over
HandleFinished ==
    /\ main.at \in {"free", "resuming"} /\ finished # <<>>
    /\ finished' = Tail(finished)
    /\ main' = IF Head(finished) = main.active THEN [main EXCEPT !.active = NoTurn] ELSE main
    /\ UNCHANGED <<agentVars, issued, prompts, interrupts, interjects, command, driver,
                   connected, old, disk, spent, history>>

\* thread/resume of a thread in memory: its turn is interrupted
ThreadResume ==
    /\ Free /\ Once("resume")
    /\ interrupts' = IF Alive /\ main.active # NoTurn THEN Signalled ELSE interrupts
    /\ main' = [main EXCEPT !.at = "resuming"]
    /\ UNCHANGED <<agentVars, issued, prompts, interjects, command, finished, driver,
                   connected, old, disk, history>>

\* interrupt_and_wait_for_persist ends: the turn is over, or five seconds are
WaitEnds ==
    /\ main.at = "resuming"
    /\ \/ main.active = NoTurn /\ UNCHANGED spent
       \/ main.active # NoTurn /\ finished = <<>> /\ Once("timeout")

\* The thread is not read, or no agent is built for it: what there was goes on.
ResumeFails ==
    /\ WaitEnds
    /\ main' = [main EXCEPT !.at = "free"]
    /\ UNCHANGED <<agentVars, issued, channels, driver, connected, old, disk, history>>

\* What the agent and its driver held is gone with them.
Forgotten == {i \in Interjections : fate[i] \in {"sent", "accepted"}}

FreshAgent ==
    /\ run' = NoRun /\ inbox' = <<>> /\ stream' = <<>> /\ decisions' = <<>>
    /\ prompts' = <<>> /\ interrupts' = <<>> /\ interjects' = <<>> /\ command' = NoCommand
    /\ unheard' = unheard \cup Forgotten
    /\ UNCHANGED asked

\* The next prompt in the channel
NextPrompt == IF prompts = <<>> THEN NoTurn ELSE Head(prompts)

\* promote_partial: a pending checkpoint becomes a turn of the log
Promote ==
    IF Pending THEN /\ log' = Append(log, partial) /\ partial' = NoPartial
               ELSE UNCHANGED disk

\* What the driver that is replaced still does: the rest of its turn, the end
\* of the last one, or a turn that was queued.
Left ==
    CASE driver.at \in {"turn", "approval", "sending"}   -> Old("turn", driver.turn)
      [] driver.at = "leaving"                           -> [NoOld EXCEPT !.at = "settled"]
      [] driver.at = "settled"                           -> Old("settled", NextPrompt)
      [] driver.at = "idle" /\ prompts # <<>>            -> Old("queued", Head(prompts))
      [] OTHER                                           -> NoOld

\* The transcript is read, and a new driver takes over.  A run that is deaf is
\* out of sight then: it shares nothing with the new one.
Reload ==
    /\ WaitEnds \/ (main.at = "cold" /\ UNCHANGED spent)
    /\ session' = Loaded
    /\ spoiled' = (spoiled \/ (Loaded # <<>> /\ Last(Loaded) = "calls"))
    /\ Promote
    /\ FreshAgent
    /\ driver' = NewDriver /\ connected' = TRUE
    /\ old' = Left /\ outlived' = outlived \cup {Left.turn}
    /\ main' = [at |-> "free", active |-> NoTurn]
    /\ behind' = FALSE
    /\ UNCHANGED <<issued, finished, fate, allowed, started, lost>>

-----------------------------------------------------------------------------
(* The driver.                                                             *)

\* apply_session_command.  Only three kinds write the transcript to the log.
Apply(c) ==
    /\ \/ c = "Clear" /\ session' = <<>>
       \/ c = "Compact" /\ session' \in {session} \cup Compactions(session)
       \/ c \in {"SetModel", "SetPreserveThinking"} /\ session' = session
    /\ log' = CASE c = "Clear"    -> <<Record(NoTurn, <<>>)>>
                [] c = "SetModel" -> log
                [] OTHER          -> Append(log, Record(NoTurn, session'))

\* An idle driver: at once.
DriverCommand ==
    /\ driver.at = "idle" /\ command # NoCommand
    /\ Apply(command)
    /\ partial' = IF command = "Clear" THEN NoPartial ELSE partial
    /\ lost' = IF command = "Clear" THEN lost \cup Logged \cup {partial.turn} ELSE lost
    /\ behind' = (behind /\ command # "Clear"
                        /\ (command = "SetModel" \/ session' = <<>> \/ Pending))
    /\ command' = NoCommand /\ main' = [main EXCEPT !.at = "free"]
    /\ UNCHANGED <<run, inbox, stream, decisions, asked, unheard, spoiled, issued,
                   prompts, interrupts, interjects, finished, driver, connected, old,
                   spent, fate, allowed, started, outlived>>

\* A turn begins with a checkpoint of the question, before the run has it.
DriverTurn ==
    /\ driver.at = "idle" /\ prompts # <<>>
    /\ prompts' = Tail(prompts)
    /\ partial' = Record(Head(prompts), session)
    /\ StartRun
    /\ driver' = [NewDriver EXCEPT !.at = "turn", !.turn = Head(prompts)]
    /\ started' = started \cup {Head(prompts)} /\ allowed' = {}
    /\ UNCHANGED <<main, issued, interrupts, interjects, command, finished, connected,
                   old, log, spent, fate, lost, behind, outlived>>

Driving == driver.at = "turn"

\* An event that tells what became of an interjection.
ReadEvent ==
    /\ Driving /\ stream # <<>> /\ Head(stream).kind # "Ask"
    /\ stream' = Tail(stream)
    /\ fate' = [fate EXCEPT ![Head(stream).of] =
                   IF Head(stream).kind = "Folded" THEN "folded" ELSE "returned"]
    /\ UNCHANGED <<session, run, inbox, decisions, asked, unheard, spoiled, main, issued,
                   channels, driver, connected, old, disk, spent, allowed, started,
                   lost, behind, outlived>>

\* PermissionRequest, broadcast to every client
ReadAsk ==
    /\ Driving /\ stream # <<>> /\ Head(stream).kind = "Ask" /\ connected
    /\ stream' = Tail(stream)
    /\ driver' = [driver EXCEPT !.at = "approval", !.ask = Head(stream).of, !.answer = "none"]
    /\ UNCHANGED <<session, run, inbox, decisions, asked, unheard, spoiled, main, issued,
                   channels, connected, old, disk, spent, history>>

\* ... whose opener has left: the driver gives the turn up, and says so first
DriverGone ==
    /\ Driving /\ stream # <<>> /\ Head(stream).kind = "Ask" /\ ~connected
    /\ finished' = Append(finished, driver.turn)
    /\ driver' = [driver EXCEPT !.at = "leaving"]
    /\ UNCHANGED <<agentVars, main, issued, prompts, interrupts, interjects, command, connected,
                   old, disk, spent, history>>

\* ... then clears the checkpoint and returns, with its ends of the channels.
\* The run goes on, and reads the answers that were sent to it.
DriverReturns ==
    /\ driver.at = "leaving"
    /\ partial' = NoPartial
    /\ driver' = [NewDriver EXCEPT !.at = "gone"]
    /\ run' = IF run = NoRun THEN NoRun ELSE [run EXCEPT !.deaf = TRUE]
    /\ stream' = <<>>
    /\ prompts' = <<>> /\ interrupts' = <<>> /\ interjects' = <<>> /\ command' = NoCommand
    /\ main' = [main EXCEPT !.at = IF @ = "awaiting" THEN "free" ELSE @]
    /\ unheard' = unheard \cup Forgotten
    /\ lost' = lost \cup {driver.turn} /\ behind' = TRUE
    /\ UNCHANGED <<session, inbox, decisions, asked, spoiled, issued, finished, connected, old,
                   log, spent, fate, allowed, started, outlived>>

Answered(allow) ==
    driver' = [driver EXCEPT !.at = "sending", !.answer = IF allow THEN "allow" ELSE "deny"]

\* The answer of a client, or permission_timeout
EndApproval ==
    /\ driver.at = "approval"
    /\ \/ driver.answer # "none" /\ Answered(driver.answer = "allow")
       \/ Answered(FALSE)
    /\ UNCHANGED <<agentVars, main, issued, channels, connected, old, disk, spent, history>>

\* decision_tx.send: waits for room
SendDecision ==
    /\ driver.at = "sending" /\ Len(decisions) < DecisionRoom
    /\ decisions' = Append(decisions, Decision(driver.ask, driver.answer = "allow"))
    /\ driver' = [driver EXCEPT !.at = "turn", !.ask = 0, !.answer = "none"]
    /\ UNCHANGED <<session, run, inbox, stream, asked, unheard, spoiled, main, issued,
                   channels, connected, old, disk, spent, history>>

\* Mutant of TakeInterrupt: while an answer is awaited it is taken for one.
TakeInterruptAsAnswer ==
    /\ driver.at \in {"turn", "approval"} /\ ~driver.cancelSent /\ interrupts # <<>>
    /\ interrupts' = Tail(interrupts)
    /\ IF Head(interrupts) # driver.turn THEN UNCHANGED <<run, driver>>
       ELSE IF Driving
       THEN /\ run' = IF run = NoRun THEN run ELSE [run EXCEPT !.cancelled = TRUE]
            /\ driver' = [driver EXCEPT !.cancelSent = TRUE]
       ELSE Answered(FALSE) /\ UNCHANGED run
    /\ UNCHANGED <<session, inbox, stream, decisions, asked, unheard, spoiled, main, issued,
                   prompts, interjects, command, finished, connected, old, disk, spent, history>>

\* interrupt_rx: the first interrupt of this turn cancels the run, and denies
\* what is being asked
TakeInterrupt ==
    /\ driver.at \in {"turn", "approval"} /\ ~driver.cancelSent /\ interrupts # <<>>
    /\ interrupts' = Tail(interrupts)
    /\ IF Head(interrupts) = driver.turn
       THEN /\ run' = IF run = NoRun THEN run ELSE [run EXCEPT !.cancelled = TRUE]
            /\ driver' = IF Driving THEN [driver EXCEPT !.cancelSent = TRUE]
                         ELSE [driver EXCEPT !.cancelSent = TRUE, !.at = "sending",
                                             !.answer = "deny"]
       ELSE UNCHANGED <<run, driver>>
    /\ UNCHANGED <<session, inbox, stream, decisions, asked, unheard, spoiled, main, issued,
                   prompts, interjects, command, finished, connected, old, disk, spent, history>>

\* interject_rx: into the inbox of the turn it was aimed at, else back to the
\* client, as it does when that inbox is full.  The inbox of a run that has
\* returned takes it, and keeps it.
TakeInterjection ==
    /\ Driving /\ interjects # <<>>
    /\ interjects' = Tail(interjects)
    /\ LET i == Head(interjects).of
       IN  IF Head(interjects).turn = driver.turn /\ Len(inbox) < InboxRoom
           THEN /\ inbox' = Append(inbox, i)
                /\ unheard' = IF run = NoRun THEN unheard \cup {i} ELSE unheard
                /\ fate' = [fate EXCEPT ![i] = "accepted"]
           ELSE /\ fate' = [fate EXCEPT ![i] = "returned"]
                /\ UNCHANGED <<inbox, unheard>>
    /\ UNCHANGED <<session, run, stream, decisions, asked, spoiled, main, issued, prompts,
                   interrupts, command, finished, driver, connected, old, disk, spent,
                   allowed, started, lost, behind, outlived>>

\* session_rx during a turn: kept until it ends
KeepCommand ==
    /\ Driving /\ command # NoCommand
    /\ driver' = [driver EXCEPT !.pendingCmd = command]
    /\ command' = NoCommand
    /\ UNCHANGED <<agentVars, main, issued, prompts, interrupts, interjects, finished,
                   connected, old, disk, spent, history>>

\* checkpoint_tick; that an item was completed since the last is a choice
Checkpoint ==
    /\ Driving /\ partial # Record(driver.turn, session) /\ Once("checkpoint")
    /\ partial' = Record(driver.turn, session)
    /\ UNCHANGED <<agentVars, main, issued, channels, driver, connected, old, log, history>>

StreamEnded == Driving /\ run = NoRun /\ stream = <<>>

Settled ==
    /\ finished' = Append(finished, driver.turn)
    /\ driver' = [driver EXCEPT !.at = "settled"]

\* The end of a turn with a command waiting: the command, and no record of the
\* turn, whether or not the command wrote one.
EndWithCommand ==
    /\ StreamEnded /\ driver.pendingCmd # NoCommand
    /\ Apply(driver.pendingCmd)
    /\ Settled
    /\ main' = [main EXCEPT !.at = "free"]
    /\ lost' = lost \cup {driver.turn}
    /\ behind' = (driver.pendingCmd = "SetModel")
    /\ UNCHANGED <<run, inbox, stream, decisions, asked, unheard, spoiled, issued, prompts,
                   interrupts, interjects, command, connected, old, partial, spent, fate,
                   allowed, started, outlived>>

\* persist_and_finish_turn; a failed append is only reported
EndTurnOfThread ==
    /\ StreamEnded /\ driver.pendingCmd = NoCommand
    /\ \/ /\ log' = Append(log, Record(driver.turn, session))
          /\ behind' = FALSE
          /\ UNCHANGED <<lost, spent>>
       \/ /\ Once("append")
          /\ lost' = lost \cup {driver.turn} /\ behind' = TRUE
          /\ UNCHANGED log
    /\ Settled
    /\ UNCHANGED <<agentVars, main, issued, prompts, interrupts, interjects, command, connected,
                   old, partial, fate, allowed, started, outlived>>

\* clear_partial, after Finished was sent
ClearPartial ==
    /\ driver.at = "settled"
    /\ partial' = NoPartial
    /\ driver' = NewDriver
    /\ UNCHANGED <<agentVars, main, issued, channels, connected, old, log, spent, history>>

-----------------------------------------------------------------------------
(* A driver that was replaced.  Its agent and its channels are its own; the *)
(* files of the thread are not.                                            *)

\* The pending turn of another that a checkpoint of the old turn writes over
Trampled == IF Pending /\ partial.turn # old.turn THEN {partial.turn} ELSE {}

OldUnchanged == UNCHANGED <<agentVars, main, issued, prompts, interrupts, interjects, command,
                            driver, connected, fate, allowed>>

\* A turn that was queued begins.
OldBegins ==
    /\ old.at = "queued"
    /\ partial' = Record(old.turn, old.messages)
    /\ old' = [old EXCEPT !.at = "turn", !.messages = Append(@, "user")]
    /\ started' = started \cup {old.turn}
    /\ lost' = lost \cup Trampled \cup {old.turn} /\ behind' = TRUE
    /\ OldUnchanged /\ UNCHANGED <<finished, log, spent, outlived>>

\* checkpoint_tick
OldCheckpoint ==
    /\ old.at = "turn" /\ partial # Record(old.turn, old.messages)
    /\ partial' = Record(old.turn, old.messages)
    /\ lost' = lost \cup Trampled
    /\ behind' = (behind \/ old.turn \notin Logged)
    /\ OldUnchanged /\ UNCHANGED <<finished, old, log, spent, started, outlived>>

\* What the rest of its run makes of the transcript, in one message at most.
Endings(s) ==
    IF s # <<>> /\ Last(s) = "calls" THEN {Front(s), Append(s, "results")}
                                    ELSE {s, Append(s, "text")}

\* The turn ends: appended, or given up, or the append fails.
OldEnds ==
    /\ old.at = "turn"
    /\ finished' = Append(finished, old.turn)
    /\ old' = [NoOld EXCEPT !.at = "settled"]
    /\ \/ /\ \E s \in Endings(old.messages) : log' = Append(log, Record(old.turn, s))
          /\ behind' = TRUE
       \/ UNCHANGED <<log, behind>>
    /\ OldUnchanged /\ UNCHANGED <<partial, spent, started, lost, outlived>>

\* clear_partial takes whatever is there; then comes what was queued.
OldClears ==
    /\ old.at = "settled"
    /\ partial' = NoPartial
    /\ lost' = IF Pending THEN lost \cup {partial.turn} ELSE lost
    /\ old' = IF old.turn = NoTurn THEN NoOld ELSE [old EXCEPT !.at = "queued"]
    /\ OldUnchanged /\ UNCHANGED <<finished, log, spent, started, behind, outlived>>

-----------------------------------------------------------------------------
(* The world.                                                              *)

Disconnect ==
    /\ connected /\ Once("disconnect")
    /\ connected' = FALSE
    /\ UNCHANGED <<agentVars, main, issued, channels, driver, old, disk, history>>

\* The process dies; the thread is on disk.
Crash ==
    /\ main.at # "cold" /\ Once("crash")
    /\ FreshAgent
    /\ session' = <<>> /\ finished' = <<>>
    /\ main' = [at |-> "cold", active |-> NoTurn]
    /\ driver' = [NewDriver EXCEPT !.at = "gone"] /\ old' = NoOld
    /\ UNCHANGED <<spoiled, issued, connected, disk, history>>

MainSteps ==
    \/ TurnStart \/ TurnInterrupt \/ HandleFinished \/ ThreadResume \/ ResumeFails \/ Reload
    \/ \E i \in Interjections : TurnInterject(i)
    \/ \E c \in Commands : SendCommand(c)
    \/ \E allow \in BOOLEAN : Answer(allow)

DriverSteps ==
    \/ DriverCommand \/ DriverTurn \/ ReadEvent \/ ReadAsk \/ DriverGone
    \/ DriverReturns \/ EndApproval \/ SendDecision
    \/ TakeInterrupt \/ TakeInterjection \/ KeepCommand \/ Checkpoint
    \/ EndWithCommand \/ EndTurnOfThread \/ ClearPartial

OldSteps == OldBegins \/ OldCheckpoint \/ OldEnds \/ OldClears

UnchangedBut ==
    UNCHANGED <<main, issued, channels, driver, connected, old, disk, history>>

UnchangedThread == UnchangedBut /\ UNCHANGED spent

ThreadNext ==
    \/ MainSteps \/ DriverSteps \/ OldSteps \/ Disconnect \/ Crash
    \/ AgentSteps /\ UnchangedThread
    \/ WorldSteps /\ UnchangedThread
    \/ OddReplies /\ Once("reply") /\ UnchangedBut
    \/ AutoCompact /\ Once("compaction") /\ UnchangedBut

ThreadSpec == ThreadInit /\ [][ThreadNext]_threadVars

\* The runtime polls the three tasks, and the timer of an approval runs out.  Nothing
\* is assumed of the provider, the tools, the clients or a driver that was replaced.
ThreadFairness ==
    /\ WF_threadVars(AgentSteps /\ UnchangedThread)
    /\ WF_threadVars(DriverSteps)
    /\ WF_threadVars(HandleFinished)

FairThreadSpec == ThreadSpec /\ ThreadFairness

-----------------------------------------------------------------------------
(* Properties.                                                             *)

ThreadTypeOK ==
    /\ session \in Seq(MessageKinds)
    /\ main.at \in {"free", "awaiting", "resuming", "cold"} /\ main.active \in {NoTurn} \cup Turns
    /\ driver.at \in {"idle", "turn", "approval", "sending", "leaving", "settled", "gone"}
    /\ old.at \in {"none", "queued", "turn", "settled"}
    /\ fate \in [Interjections -> Fates]
    /\ lost \subseteq {NoTurn} \cup Turns /\ started \subseteq Turns

\* The transcript a request sends to the model pairs every call with its
\* results, across stops, compactions, crashes and resumes.  Three things break
\* it: a reply that was cut short and held a finished call, a checkpoint taken
\* while tools ran, which a resume takes as it is (rpc/thread.rs), and a driver
\* that gave the turn up, whose run goes on without the results it cannot report.
RequestsArePaired == At("thinking") /\ ~spoiled => Paired(session)

Quiet == Free /\ main.active = NoTurn /\ driver.at = "idle" /\ prompts = <<>>

\* Interjections no driver has looked at yet
Waiting == {interjects[k].of : k \in DOMAIN interjects}

\* What the user says into a running turn, and was told was taken, reaches the
\* model in that turn or is given back, and the client is told which.  Silence has
\* four causes: the run ended on an error, it had returned already, its driver was
\* given up or replaced, or the driver had left the turn before it looked: such
\* an interjection waits in the channel, for a turn that may never be started.
InterjectionsSettle ==
    Quiet => \A i \in Interjections :
                 /\ fate[i] = "accepted" => i \in unheard
                 /\ fate[i] = "sent"     => i \in unheard \cup Waiting

\* The disk holds the conversation: each turn that was taken up is in the log
\* once, or in the checkpoint, unless it was one of the turns the code is known
\* to forget; and between turns a resume would find the transcript as it is.  A
\* turn whose driver a resume replaced while it ran may be in the log twice: the
\* resume waits five seconds for it, then promotes its checkpoint all the same.
DiskHoldsTheConversation ==
    /\ \A t \in started \ outlived : Cardinality({k \in DOMAIN log : log[k].turn = t}) <= 1
    /\ \A t \in started \ lost : t \in Logged \/ partial.turn = t
    /\ Quiet /\ ~behind => Loaded = session

\* A call that needs a confirmation is run only if a client allowed that call:
\* late, stale and timed out answers allow nothing.
AllowedByItsOwnAnswer == run.granted \subseteq allowed

\* Nobody reads the answers: the driver waits for room for good.
Jammed ==
    /\ driver.at = "sending" /\ Len(decisions) = DecisionRoom
    /\ run.cancelled \/ run = NoRun

\* The turn was sent to a driver that had given the last one up.
Stranded(t) == ~Alive /\ t \notin started

\* A turn the main loop was asked to interrupt ends, even when the provider and
\* the tools never answer, unless more confirmations were left unread by it than
\* the channel holds, or its driver returned before it began.  (Between
\* two turns there is always a moment in which none is active.)
InterruptEndsTurn ==
    main.active \in ToSet(interrupts)
        ~> main.active = NoTurn \/ Jammed \/ Stranded(main.active)
=============================================================================
