------------------------------ MODULE AgentRun ------------------------------
(***************************************************************************)
(* One conversation of the agent (yi-agent-core/src/agent.rs): its         *)
(* transcript, and the run loop that extends it.  A run thinks (asks the   *)
(* model), acts (runs the tools the model called, after asking the user),  *)
(* observes (adds their results), until the model calls none.  The user    *)
(* may stop it at any point and may speak into it through its inbox.  A    *)
(* run outlives whoever reads its events: it is deaf then, tells nobody,   *)
(* and is answered by nobody.                                              *)
(*                                                                         *)
(* A message of the transcript is its kind.  What the model replies, when  *)
(* a compaction is due and how long a provider is retried are choices; the *)
(* lease of a provider turn is ProviderTurns'.                             *)
(***************************************************************************)
EXTENDS Integers, Sequences, SequencesExt

CONSTANTS
    Interjections,  \* what the user says into a running turn
    MaxThinks,      \* config.max_turns
    InboxRoom,      \* Inbox::CAPACITY
    MaxConfirms     \* bound: calls that need a confirmation

ASSUME LimitAssumption == MaxThinks \in Nat /\ MaxConfirms \in Nat /\ InboxRoom \in Nat

VARIABLES
    session,        \* the transcript
    run,            \* the run loop; "none" when it has returned
    inbox,          \* interjections delivered to the run, not drained yet
    stream,         \* its events, not read yet
    decisions,      \* decision_rx: answers to its confirmations
    asked,          \* the last request_id of the permission checker
    unheard,        \* history: interjections whose fate no event will tell
    spoiled         \* history: the transcript got a call it has no result of

agentVars == <<session, run, inbox, stream, decisions, asked, unheard, spoiled>>

\* A shortfall is a message of results that some calls of the batch are not in.
MessageKinds == {"user", "text", "calls", "results", "shortfall"}

NoRun == [at |-> "none", thinks |-> 0, cancelled |-> FALSE, confirms |-> 0, granted |-> {},
          deaf |-> FALSE]

Event(kind, of) == [kind |-> kind, of |-> of]
Decision(ask, allow) == [ask |-> ask, allow |-> allow]

At(place) == run.at = place

\* The transcript is one a provider accepts: every batch of calls is followed
\* by its results, and results follow calls.
Paired(s) ==
    \A k \in 1 .. Len(s) :
        /\ s[k] = "calls"   => k < Len(s) /\ s[k + 1] = "results"
        /\ s[k] = "results" => k > 1 /\ s[k - 1] = "calls"

\* fork_prefix_len: without trailing calls that have no results
Forkable(s) == IF s # <<>> /\ Last(s) = "calls" THEN Front(s) ELSE s

\* extract_complete_tool_units, the last n of them
ToolUnits(s) == {k \in 1 .. Len(s) - 1 : s[k] = "calls" /\ s[k + 1] = "results"}
Units(n)     == [k \in 1 .. 2 * n |-> IF k % 2 = 1 THEN "calls" ELSE "results"]

\* plan_compaction and build_compacted_messages: what the user said, a summary,
\* and some complete tool units, when that is shorter
Compactions(s) ==
    {c \in {<<"user", "text">> \o Units(n) : n \in 0 .. Cardinality(ToolUnits(s))} :
        Contains(s, "user") /\ Len(c) < Len(s)}

AgentInit ==
    /\ session = <<>> /\ run = NoRun /\ inbox = <<>> /\ stream = <<>>
    /\ decisions = <<>> /\ asked = 0
    /\ unheard = {} /\ spoiled = FALSE

-----------------------------------------------------------------------------
\* start_run: a fresh token and a fresh inbox
StartRun ==
    /\ session' = Append(session, "user")
    /\ run' = [NoRun EXCEPT !.at = "top"]
    /\ inbox' = <<>>
    /\ UNCHANGED <<stream, decisions, asked, unheard, spoiled>>

\* EventTx::send, whose failure is passed over wherever the run has not ended
Tell(events) == stream' = IF run.deaf THEN stream ELSE stream \o events

Announced(kind) == [k \in 1 .. Len(inbox) |-> Event(kind, inbox[k])]

\* inject_pending, after messages were added to the transcript
Inject(s) ==
    /\ session' = s \o [k \in 1 .. Len(inbox) |-> "user"]
    /\ Tell(Announced("Folded"))
    /\ inbox' = <<>>

\* Mutant of EndRun: the inbox is dropped with the run.
EndRunSilently ==
    /\ inbox' = <<>> /\ run' = NoRun
    /\ UNCHANGED stream

\* flush_unconsumed, and the run returns
EndRun ==
    /\ Tell(Announced("Returned"))
    /\ inbox' = <<>>
    /\ run' = NoRun

\* Mutant of AbortRun: the transcript keeps what it has.
AbortRunAsItIs ==
    EndRun /\ UNCHANGED <<session, decisions, asked, unheard, spoiled>>

\* abort_run
AbortRun ==
    /\ session' = Forkable(session)
    /\ EndRun
    /\ UNCHANGED <<decisions, asked, unheard, spoiled>>

\* run_loop, before think: a Stop was pressed, or it is during a compaction
StopAtTop ==
    /\ At("top") /\ run.cancelled
    /\ \/ AbortRun
       \/ EndRun /\ UNCHANGED <<session, decisions, asked, unheard, spoiled>>

\* maybe_auto_compact replaces the transcript
AutoCompact ==
    /\ At("top") /\ ~run.cancelled
    /\ session' \in Compactions(session)
    /\ run' = [run EXCEPT !.at = "compacted"]
    /\ UNCHANGED <<inbox, stream, decisions, asked, unheard, spoiled>>

\* run_loop: the next turn of the loop, unless there were enough
BeginThink ==
    /\ (At("top") /\ ~run.cancelled) \/ At("compacted")
    /\ IF run.thinks = MaxThinks
       THEN EndRun /\ UNCHANGED session
       ELSE /\ run' = [run EXCEPT !.at = "thinking", !.thinks = @ + 1]
            /\ Inject(session)
    /\ UNCHANGED <<decisions, asked, unheard, spoiled>>

\* think_phase: a Stop while it waits for its lease, the provider or a retry.
\* No reply is in the transcript yet.
StopThinking ==
    /\ At("thinking") /\ run.cancelled
    /\ \/ AbortRun
       \/ EndRun /\ UNCHANGED <<session, decisions, asked, unheard, spoiled>>

\* think_phase: no lease, a request the provider refuses, a broken stream.
\* These exits do not flush the inbox.
ThinkFails ==
    /\ At("thinking")
    /\ run' = NoRun /\ inbox' = <<>>
    /\ unheard' = unheard \cup ToSet(inbox)
    /\ UNCHANGED <<session, stream, decisions, asked, spoiled>>

\* think_phase: the retries are exhausted; nothing of the reply is kept
ThinkGivesUp ==
    /\ At("thinking")
    /\ EndRun
    /\ UNCHANGED <<session, decisions, asked, unheard, spoiled>>

\* A reply that stops early may hold calls that are complete.
Partial == {"text", "calls"}

\* think_phase: cut at max_tokens, and asked to continue
ReplyTruncated ==
    /\ At("thinking")
    /\ \E reply \in Partial :
          /\ session' = session \o <<reply, "user">>
          /\ spoiled' = (spoiled \/ reply = "calls")
    /\ run' = [run EXCEPT !.at = "top"]
    /\ UNCHANGED <<inbox, stream, decisions, asked, unheard>>

\* think_phase: ended by a stop sequence or another reason
ReplyStopped ==
    /\ At("thinking")
    /\ \E reply \in Partial :
          /\ session' = Append(session, reply)
          /\ spoiled' = (spoiled \/ reply = "calls")
    /\ EndRun
    /\ UNCHANGED <<decisions, asked, unheard>>

\* A reply without calls ends the run, unless the user said something meanwhile.
ReplyText ==
    /\ At("thinking")
    /\ Inject(Append(session, "text"))
    /\ run' = [run EXCEPT !.at = IF inbox = <<>> THEN "ending" ELSE "top"]
    /\ UNCHANGED <<decisions, asked, unheard, spoiled>>

EndTurn ==
    /\ At("ending")
    /\ EndRun
    /\ UNCHANGED <<session, decisions, asked, unheard, spoiled>>

ReplyCalls ==
    /\ At("thinking")
    /\ session' = Append(session, "calls")
    /\ \E n \in 0 .. MaxConfirms - asked :
          run' = [run EXCEPT !.at = "acting", !.confirms = n]
    /\ UNCHANGED <<inbox, stream, decisions, asked, unheard, spoiled>>

-----------------------------------------------------------------------------
\* handle_confirmation: the request, whether or not a Stop was pressed
AskUser ==
    /\ At("acting") /\ run.confirms > 0
    /\ asked' = asked + 1
    /\ Tell(<<Event("Ask", asked + 1)>>)
    /\ run' = [run EXCEPT !.at = "asking"]
    /\ UNCHANGED <<session, inbox, decisions, unheard, spoiled>>

Resolved(granted) ==
    [run EXCEPT !.at = "acting", !.confirms = @ - 1, !.granted = @ \cup granted]

\* Mutant of TakeDecision: any answer answers the question.
TakeAnyDecision ==
    /\ At("asking") /\ ~run.cancelled /\ decisions # <<>>
    /\ decisions' = Tail(decisions)
    /\ run' = Resolved(IF Head(decisions).allow THEN {asked} ELSE {})
    /\ UNCHANGED <<session, inbox, stream, asked, unheard, spoiled>>

\* wait_for_decision: an answer to another question is thrown away
TakeDecision ==
    /\ At("asking") /\ ~run.cancelled /\ decisions # <<>>
    /\ decisions' = Tail(decisions)
    /\ run' = IF Head(decisions).ask = asked
              THEN Resolved(IF Head(decisions).allow THEN {asked} ELSE {})
              ELSE run
    /\ UNCHANGED <<session, inbox, stream, asked, unheard, spoiled>>

\* wait_for_decision: the Stop comes first, and denies; so does a channel that
\* is closed, once what it holds was read
StopAsking ==
    /\ At("asking") /\ (run.cancelled \/ (run.deaf /\ decisions = <<>>))
    /\ run' = Resolved({})
    /\ UNCHANGED <<session, inbox, stream, decisions, asked, unheard, spoiled>>

\* act_phase: what was allowed is run
RunTools ==
    /\ At("acting") /\ run.confirms = 0
    /\ run' = [run EXCEPT !.at = "tools"]
    /\ UNCHANGED <<session, inbox, stream, decisions, asked, unheard, spoiled>>

\* observe_phase: one message of results, the denied ones included.  A call
\* whose events cannot be sent leaves none.
Observe ==
    /\ At("tools")
    /\ \E kind \in {"results"} \cup (IF run.deaf THEN {"shortfall"} ELSE {}) :
          /\ session' = Append(session, kind)
          /\ spoiled' = (spoiled \/ kind = "shortfall")
    /\ run' = [run EXCEPT !.at = "top", !.granted = {}]
    /\ UNCHANGED <<inbox, stream, decisions, asked, unheard>>

\* act_phase: a Stop while the tools run
StopTools == At("tools") /\ run.cancelled /\ AbortRun

-----------------------------------------------------------------------------
\* What the run does by itself.
AgentSteps ==
    \/ StopAtTop \/ BeginThink \/ StopThinking \/ EndTurn
    \/ AskUser \/ TakeDecision \/ StopAsking \/ RunTools \/ StopTools

\* What it waits for: the provider and the tools.
WorldSteps == ReplyText \/ ReplyCalls \/ Observe

\* What the provider does when it does not simply answer.
OddReplies == ThinkFails \/ ThinkGivesUp \/ ReplyTruncated \/ ReplyStopped
=============================================================================
