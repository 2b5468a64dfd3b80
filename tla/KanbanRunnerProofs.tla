------------------------- MODULE KanbanRunnerProofs -------------------------
(***************************************************************************)
(* Theorems about KanbanRunner, for any number of cards, sessions, restarts*)
(* and lost answers: the lock names its merge, no two merges run at once,  *)
(* and a card's session is one that was started for it.                    *)
(***************************************************************************)
EXTENDS KanbanRunner, TLAPS, FiniteSetTheorems, SequenceTheorems

USE KanbanAssumption

-----------------------------------------------------------------------------
(* Shapes.                                                                 *)

Kind    == {"launch", "for_merge"}
Holder  == [card : Card, of : Nat \ {0}] \cup {NoHolder}
Id      == Nat \X Nat
Pending == [id : Id, card : Card, kind : Kind]
Answer  == [id : Id, card : Card, does : {"work", "merge"}] \cup {NoAction}
Does    == {"work", "merge", "merged", "rest", "over"}
Session == [card : Card, does : Does]
Result  == [id : Id, session : Nat \cup {None}]

\* KanbanTypeOK without the bounds, and of the lists only what is needed.
Shape ==
    /\ board \in [Card -> CardState]
    /\ thread \in [Card -> Nat \cup {None}]
    /\ holder \in Holder
    /\ life \in Nat \ {0} /\ minted \in Nat /\ gate \in BOOLEAN
    /\ pending \subseteq Pending
    /\ rest \in Seq(Card) /\ (at = "prepare" => rest # <<>>)
    /\ answer \in Answer
    /\ session \in Seq(Session)
    /\ result \in Result

\* What TryGate makes of the candidates.
LEMMA TryGateFacts ==
    ASSUME NEW h \in Holder, NEW q \in Seq(Card), TryGate(h, q)
    PROVE  \/ at' = "launch" /\ rest' = <<>> /\ holder' = h
           \/ /\ at' = "prepare" /\ q # <<>> /\ rest' = q
              /\ holder' \in {h, Record(Head(q))} /\ (~gate \/ GateIsOver)
  BY DEF TryGate

\* The candidates in line are candidates.
LEMMA InLineFacts ==
    ASSUME NEW S \in SUBSET Card, NEW q \in InLine(S)
    PROVE  q \in Seq(S) /\ \A i \in DOMAIN q : q[i] \in S
<1>1. Cardinality(S) \in Nat
  BY FS_Subset, FS_CardinalityType
<1>2. PICK m \in 0 .. Cardinality(S) : q \in [1 .. m -> S]
  BY DEF InLine, SeqOf
<1> QED BY <1>1, <1>2

\* Observe gives a lock back that is over, and may take it for the first in line.
LEMMA ObserveFacts ==
    ASSUME Shape, NEW some \in BOOLEAN, Observe(some)
    PROVE  /\ gate' = (gate /\ ~GateIsOver)
           /\ UNCHANGED <<board, thread, life, minted, pending, answer, session, result,
                          overruled, unnamed>>
           /\ \/ at' = "launch" /\ rest' = <<>> /\ holder' = IF GateIsOver THEN NoHolder ELSE holder
              \/ /\ at' = "prepare" /\ rest' # <<>> /\ rest' \in Seq(Card)
                 /\ holder' \in {NoHolder, Record(Head(rest'))} /\ ~gate'
                 /\ GateIsOver \/ holder = NoHolder
                 /\ \A i \in DOMAIN rest' : board[rest'[i]] = "merge_queued"
<1> DEFINE h == IF GateIsOver THEN NoHolder ELSE holder
<1>1. /\ UNCHANGED <<board, thread, life, minted, pending, answer, session, result,
                     overruled, unnamed>>
      /\ gate' = (gate /\ ~GateIsOver)
  BY Zenon DEF Observe, host, history
<1>2. h \in Holder
  BY DEF Shape, Holder
<1>3. CASE some
  <2>1. PICK q \in InLine(Candidates(h)) : TryGate(h, q)
    BY <1>3 DEF Observe
  <2>2. /\ Candidates(h) \subseteq Card
        /\ \A c \in Candidates(h) : h = NoHolder /\ board[c] = "merge_queued"
    BY DEF Candidates
  <2>3. q \in Seq(Card) /\ \A i \in DOMAIN q : q[i] \in Candidates(h)
    BY <2>2, InLineFacts
  <2>4. \/ at' = "launch" /\ rest' = <<>> /\ holder' = h
        \/ /\ at' = "prepare" /\ q # <<>> /\ rest' = q
           /\ holder' \in {h, Record(Head(q))} /\ (~gate \/ GateIsOver)
    BY <1>2, <2>1, <2>3, TryGateFacts
  <2>5. q # <<>> => h = NoHolder
    BY <2>2, <2>3
  <2>6. ~gate \/ GateIsOver => ~gate'
    BY <1>1
  <2> QED BY <1>1, <2>2, <2>3, <2>4, <2>5, <2>6
<1>4. CASE ~some
  BY <1>1, <1>4 DEF Observe
<1> QED BY <1>3, <1>4

\* What Promote and PrepareFails make of the rest of the candidates.
LEMMA NextCandidate ==
    ASSUME Shape, rest # <<>>, TryGate(holder, Tail(rest))
    PROVE  /\ Tail(rest) \in Seq(Card)
           /\ \/ at' = "launch" /\ rest' = <<>> /\ holder' = holder
              \/ /\ at' = "prepare" /\ Tail(rest) # <<>> /\ rest' = Tail(rest)
                 /\ holder' \in {holder, Record(Head(rest'))}
<1>1. Tail(rest) \in Seq(Card)
  BY DEF Shape
<1> QED BY <1>1, TryGateFacts DEF Shape

\* The step that tries the next candidate and changes nothing else.
LEMMA NextCandidateShape ==
    ASSUME Shape, at = "prepare", TryGate(holder, Tail(rest)),
           UNCHANGED <<board, gate, minted, pending, answer, thread, life, session, result>>
    PROVE  Shape'
<1>1. rest # <<>>
  BY DEF Shape
<1>2. holder' \in Holder /\ rest' \in Seq(Card) /\ (at' = "prepare" => rest' # <<>>)
  <2>1. CASE at' = "launch"
    <3>1. rest' = <<>> /\ holder' = holder
      BY <1>1, <2>1, NextCandidate, Zenon
    <3> QED BY <2>1, <3>1 DEF Shape
  <2>2. CASE at' = "prepare"
    <3>1. /\ rest' \in Seq(Card) /\ rest' # <<>> /\ holder' \in {holder, Record(Head(rest'))}
      BY <1>1, <2>2, NextCandidate
    <3> QED BY <3>1 DEF Holder, Record, Shape
  <2> QED BY <1>1, <2>1, <2>2, NextCandidate
<1> QED BY <1>2 DEF Shape

\* A card is given an action.
LEMMA Minted ==
    ASSUME Shape, NEW c \in Card, NEW kind \in Kind, NEW does \in {"work", "merge"},
           Mint(c, kind, does)
    PROVE  /\ minted' = minted + 1 /\ minted' \in Nat
           /\ pending' = pending \cup {[id |-> ActionId, card |-> c, kind |-> kind]}
           /\ pending' \subseteq Pending
           /\ answer' = [id |-> ActionId, card |-> c, does |-> does] /\ answer' \in Answer
           /\ ActionId \in Id /\ ActionId[1] = life /\ ActionId[2] = minted + 1
<1>1. ActionId \in Id /\ ActionId[1] = life /\ ActionId[2] = minted + 1
  BY DEF ActionId, Id, Shape
<1> QED BY <1>1 DEF Mint, Shape, Pending, Answer

\* The second half of driver_step does nothing, fails a card or launches it.
LEMMA NextLaunchFacts ==
    ASSUME NEW worktree \in BOOLEAN, NextLaunch(worktree)
    PROVE  \/ UNCHANGED <<board, minted, pending, answer>>
           \/ \E c \in Startable : /\ board' = [board EXCEPT ![c] = "failed"]
                                   /\ UNCHANGED <<minted, pending, answer>>
           \/ \E c \in Startable, kind \in Kind : /\ board' = [board EXCEPT ![c] = "running"]
                                                /\ Mint(c, kind, "work")
<1>1. CASE ~room
  BY <1>1 DEF NextLaunch
<1>2. CASE room
  <2>1. PICK l \in SUBSET Card :
            IF Cardinality(l) >= Limit \/ Startable = {}
            THEN leases' = l /\ UNCHANGED <<board, minted, pending, answer>>
            ELSE \E c \in Startable :
                   IF worktree
                   THEN /\ board' = [board EXCEPT ![c] = "running"]
                        /\ leases' = l \cup {c}
                        /\ Mint(c, IF c \in MergeKind THEN "for_merge" ELSE "launch", "work")
                   ELSE /\ board' = [board EXCEPT ![c] = "failed"]
                        /\ leases' = l
                        /\ UNCHANGED <<minted, pending, answer>>
    BY <1>2, Zenon DEF NextLaunch
  <2>2. \A c \in Card : (IF c \in MergeKind THEN "for_merge" ELSE "launch") \in Kind
    BY DEF Kind
  <2> QED BY <2>1, <2>2, Zenon DEF Startable
<1> QED BY <1>1, <1>2

\* What a session is.
LEMMA SessionFacts ==
    ASSUME Shape, NEW s \in Sessions
    PROVE  session[s].card \in Card /\ session[s].does \in Does
<1>1. session[s] \in Session
  BY DEF Shape, Sessions
<1> QED BY <1>1 DEF Session

\* A session is edited: its card stays.
LEMMA EditedSession ==
    ASSUME Shape, NEW s \in Sessions, NEW d \in Does,
           session' = [session EXCEPT ![s].does = d]
    PROVE  /\ session' \in Seq(Session) /\ DOMAIN session' = DOMAIN session
           /\ \A t \in Sessions : /\ session'[t].card = session[t].card
                                  /\ session'[t].does = IF t = s THEN d ELSE session[t].does
<1>1. Sessions = 1 .. Len(session) /\ session \in [1 .. Len(session) -> Session]
  BY DEF Sessions, Shape
<1>2. session' = [session EXCEPT ![s] = [session[s] EXCEPT !.does = d]]
  OBVIOUS
<1>3. [session[s] EXCEPT !.does = d] \in Session
  BY <1>1 DEF Session
<1>4. session' \in [1 .. Len(session) -> Session]
  BY <1>1, <1>2, <1>3
<1>5. session' \in Seq(Session) /\ DOMAIN session' = DOMAIN session
  BY <1>1, <1>4 DEF Shape
<1>6. \A t \in Sessions : /\ session'[t].card = session[t].card
                        /\ session'[t].does = IF t = s THEN d ELSE session[t].does
  BY <1>1, <1>2 DEF Session
<1> QED BY <1>5, <1>6

\* The host dies: every session is over.
LEMMA EndedSessions ==
    ASSUME Shape, session' = [s \in Sessions |-> [session[s] EXCEPT !.does = "over"]]
    PROVE  /\ session' \in Seq(Session) /\ DOMAIN session' = DOMAIN session
           /\ \A t \in Sessions : session'[t].card = session[t].card /\ session'[t].does = "over"
<1>1. Sessions = 1 .. Len(session) /\ session \in [1 .. Len(session) -> Session]
  BY DEF Sessions, Shape
<1>2. session' \in [1 .. Len(session) -> Session]
  BY <1>1 DEF Session, Does
<1>3. session' \in Seq(Session) /\ DOMAIN session' = DOMAIN session
  BY <1>1, <1>2 DEF Shape
<1> QED BY <1>1, <1>3 DEF Session

\* An answer is delivered: a session is added.
LEMMA AddedSession ==
    ASSUME Shape, answer # NoAction,
           session' = Append(session, [card |-> answer.card, does |-> answer.does])
    PROVE  /\ session' \in Seq(Session) /\ DOMAIN session' = 1 .. Len(session) + 1
           /\ DOMAIN session = 1 .. Len(session)
           /\ \A t \in Sessions : session'[t] = session[t]
           /\ session'[Len(session) + 1] = [card |-> answer.card, does |-> answer.does]
<1>1. [card |-> answer.card, does |-> answer.does] \in Session
  BY DEF Shape, Answer, Session, Does
<1> QED BY <1>1 DEF Shape, Sessions

\* Every step of the plugin, its host and its users keeps the shapes.
LEMMA ShapeIsInductive ==
    ASSUME Shape, [KanbanNext]_kvars
    PROVE  Shape'
<1> USE DEF Shape, files, memory, step, host, budgets, history, Verb
<1>1. ASSUME NEW c \in Card, Enqueue(c)
      PROVE  Shape'
  BY <1>1 DEF Enqueue, CardState
<1>2. ASSUME NEW c \in Card, NEW st \in Spoken, SetState(c, st)
      PROVE  Shape'
  BY <1>2 DEF SetState, CardState
<1>3. ASSUME NEW c \in Card, MergeRequest(c) \/ MergeCancel(c)
      PROVE  Shape'
  BY <1>3 DEF MergeRequest, MergeCancel, CardState
<1>4. ASSUME NEW c \in Card, ClearStale(c)
      PROVE  Shape'
  BY <1>4 DEF ClearStale, Cleared, Holder
<1>5. ASSUME NEW s \in Sessions, FinishMerge(s)
      PROVE  Shape'
  BY <1>5, EditedSession DEF FinishMerge, Cleared, Holder, Does
<1>6. ASSUME NEW s \in Sessions, NEW st \in Outcomes, RecordMerge(s, st)
      PROVE  Shape'
  <2>1. session[s].card \in Card
    BY SessionFacts
  <2>2. session' \in Seq(Session)
    BY <1>6, EditedSession DEF RecordMerge, Does
  <2>3. board' \in [Card -> CardState]
    BY <1>6, <2>1 DEF RecordMerge, CardState
  <2>4. UNCHANGED <<thread, holder, life, minted, gate, pending, rest, at, answer, result>>
    BY <1>6 DEF RecordMerge
  <2> QED BY <2>2, <2>3, <2>4
<1>7. CASE ConsumeResults
  <2>1. CASE \E p \in pending : Reported(p)
    <3> DEFINE p == CHOOSE q \in pending : Reported(q)
    <3>1. p \in pending /\ ApplyResult(p, result.session)
      BY <1>7, <2>1 DEF ConsumeResults
    <3>2. p.card \in Card /\ result.session \in Nat \cup {None}
      BY <3>1 DEF Pending, Result
    <3> HIDE DEF p
    <3>3. /\ board' \in [Card -> CardState] /\ thread' \in [Card -> Nat \cup {None}]
          /\ holder' \in Holder /\ gate' \in BOOLEAN
      <4>1. CASE result.session # None
        BY <3>1, <3>2, <4>1 DEF ApplyResult
      <4>2. CASE result.session = None /\ p.kind = "launch"
        BY <3>1, <3>2, <4>2 DEF ApplyResult, CardState
      <4>3. CASE result.session = None /\ p.kind # "launch"
        BY <3>1, <3>2, <4>3 DEF ApplyResult, MergeFinish, Cleared, Holder
      <4> QED BY <4>1, <4>2, <4>3
    <3> QED BY <1>7, <3>3 DEF ConsumeResults
  <2>2. CASE ~\E p \in pending : Reported(p)
    BY <1>7, <2>2 DEF ConsumeResults
  <2> QED BY <2>1, <2>2
<1>8. ASSUME NEW some \in BOOLEAN, Observe(some)
      PROVE  Shape'
  <2>1. /\ gate' \in BOOLEAN
        /\ UNCHANGED <<board, thread, life, minted, pending, answer, session, result>>
    BY <1>8, ObserveFacts
  <2>2. CASE at' = "launch"
    <3>1. rest' = <<>> /\ holder' \in {NoHolder, holder}
      BY <1>8, <2>2, ObserveFacts
    <3> QED BY <2>1, <2>2, <3>1 DEF Holder
  <2>3. CASE at' = "prepare"
    <3>1. /\ rest' # <<>> /\ rest' \in Seq(Card)
          /\ holder' \in {NoHolder, Record(Head(rest'))}
      BY <1>8, <2>3, ObserveFacts
    <3> QED BY <2>1, <3>1 DEF Holder, Record
  <2> QED BY <1>8, <2>2, <2>3, ObserveFacts
<1>9. CASE Promote
  <2> DEFINE c == Head(rest)
  <2>1. c \in Card /\ rest # <<>> /\ at = "prepare"
    BY <1>9 DEF Promote
  <2>2. CASE CanTransitionTo(board[c], "running")
    <3>1. /\ board' = [board EXCEPT ![c] = "running"] /\ gate' = TRUE
          /\ Mint(c, "for_merge", "merge") /\ at' = "reply" /\ rest' = <<>>
          /\ UNCHANGED <<holder, thread, life, session, result>>
      BY <1>9, <2>2, Zenon DEF Promote
    <3>2. gate' \in BOOLEAN
      BY <3>1, Zenon
    <3>3. /\ minted' \in Nat /\ pending' \subseteq Pending /\ answer' \in Answer
      BY <2>1, <3>1, Minted DEF Kind
    <3>4. board' \in [Card -> CardState]
      BY <2>1, <3>1 DEF CardState
    <3> QED BY <3>1, <3>2, <3>3, <3>4
  <2>3. CASE ~CanTransitionTo(board[c], "running")
    <3>1. TryGate(holder, Tail(rest)) /\ UNCHANGED <<board, gate, minted, pending, answer>>
      BY <1>9, <2>3 DEF Promote
    <3>2. UNCHANGED <<thread, life, session, result>>
      BY <1>9 DEF Promote
    <3> QED BY <2>1, <3>1, <3>2, NextCandidateShape
  <2> QED BY <2>2, <2>3
<1>10. CASE PrepareFails
  <2>1. at = "prepare" /\ TryGate(holder, Tail(rest))
    BY <1>10 DEF PrepareFails
  <2>2. UNCHANGED <<board, gate, minted, pending, answer, thread, life, session, result>>
    BY <1>10 DEF PrepareFails
  <2> QED BY <2>1, <2>2, NextCandidateShape
<1>11. ASSUME NEW worktree \in BOOLEAN, NextLaunch(worktree)
       PROVE  Shape'
  <2>1. /\ at' = "reply"
        /\ UNCHANGED <<thread, holder, life, gate, rest, session, result>>
    BY <1>11 DEF NextLaunch
  <2>2. CASE UNCHANGED <<board, minted, pending, answer>>
    BY <2>1, <2>2
  <2>3. CASE \E c \in Startable : /\ board' = [board EXCEPT ![c] = "failed"]
                                  /\ UNCHANGED <<minted, pending, answer>>
    BY <2>1, <2>3 DEF Startable, CardState
  <2>4. CASE \E c \in Startable, kind \in Kind : /\ board' = [board EXCEPT ![c] = "running"]
                                               /\ Mint(c, kind, "work")
    BY <2>1, <2>4, Minted DEF Startable, CardState
  <2> QED BY <1>11, <2>2, <2>3, <2>4, NextLaunchFacts
<1>12. CASE Deliver
  <2>1. at' = "idle" /\ answer' = NoAction /\ UNCHANGED <<files, memory, rest>>
    BY <1>12 DEF Deliver, Back
  <2>2. CASE answer = NoAction
    BY <1>12, <2>1, <2>2 DEF Deliver, Answer, Result, NoResult, Id
  <2>3. CASE answer # NoAction
    BY <1>12, <2>1, <2>3, AddedSession DEF Deliver, Answer, Result
  <2> QED BY <2>2, <2>3
<1>13. CASE LaunchFails
  BY <1>13 DEF LaunchFails, Back, Answer, Result, Id
<1>14. CASE AnswerLost
  BY <1>14 DEF AnswerLost, Back, Answer, Fault
<1>15. CASE HostCrash
  BY <1>15, EndedSessions DEF HostCrash, Answer, Result, NoResult, Id
<1>16. ASSUME NEW s \in Sessions, Close(s)
       PROVE  Shape'
  BY <1>16, EditedSession DEF Close, Does
<1>17. CASE Restart
  <2>1. /\ life' = life + 1 /\ gate' = FALSE /\ minted' = 0 /\ pending' = {} /\ at' = "idle"
        /\ rest' = <<>> /\ answer' = NoAction
        /\ board' = [c \in Card |-> IF board[c] = "running" /\ thread[c] = None
                                    THEN "needs_you" ELSE board[c]]
        /\ UNCHANGED <<thread, holder, session, result>>
    BY <1>17, Zenon DEF Restart
  <2>2. gate' \in BOOLEAN
    BY <2>1, Zenon
  <2>3. board' \in [Card -> CardState]
    BY <2>1 DEF CardState
  <2>4. life' \in Nat \ {0} /\ minted' \in Nat /\ pending' \subseteq Pending /\ answer' \in Answer
    BY <2>1 DEF Answer
  <2> QED BY <2>1, <2>2, <2>3, <2>4
<1>18. CASE UNCHANGED kvars
  BY <1>18 DEF kvars
<1> QED
  BY <1>1, <1>2, <1>3, <1>4, <1>5, <1>6, <1>7, <1>8, <1>9, <1>10, <1>11, <1>12, <1>13,
     <1>14, <1>15, <1>16, <1>17, <1>18
  DEF KanbanNext, Verbs, DriverStep, Host

\* The files, the memory of the plugin and of the host keep their shapes, whatever
\* processes write to the board (service.rs, driver_step; cmd.rs).
THEOREM ShapeCorrect == KanbanSpec => []Shape
<1>1. KanbanInit => Shape
  <2> SUFFICES ASSUME KanbanInit PROVE Shape
    OBVIOUS
  <2>1. gate \in BOOLEAN
    BY Zenon DEF KanbanInit
  <2>2. /\ board \in [Card -> CardState] /\ thread \in [Card -> Nat \cup {None}]
        /\ holder \in Holder /\ life \in Nat \ {0} /\ minted \in Nat
        /\ pending \subseteq Pending
    BY DEF KanbanInit, CardState, Holder
  <2>3. /\ rest \in Seq(Card) /\ (at = "prepare" => rest # <<>>)
        /\ answer \in Answer /\ session \in Seq(Session)
    BY DEF KanbanInit, Answer
  <2>4. result \in Result
    BY DEF KanbanInit, Result, NoResult, Id
  <2> QED BY <2>1, <2>2, <2>3, <2>4 DEF Shape
<1> QED BY <1>1, ShapeIsInductive, PTL DEF KanbanSpec

-----------------------------------------------------------------------------
(* The lock and its record.                                                *)

\* The record of the living process is not cleared by anybody else.
LEMMA ClearedFacts ==
    ASSUME NEW c \in Card, holder.of = life
    PROVE  Cleared(c) = holder
  BY DEF Cleared, Abandoned

\* A step that leaves the lock and its record as they are, and no life ends.
LEMMA NamedStays ==
    ASSUME Shape, GateIsNamed, gate' => gate, life' = life, unnamed \subseteq unnamed',
           holder.of = life => holder' \in {holder, Record(Head(rest'))}
    PROVE  GateIsNamed'
<1>1. ASSUME gate', holder # NoHolder, holder.of = life
      PROVE  holder' # NoHolder /\ holder'.of = life'
  <2>1. Record(Head(rest')) # NoHolder
    BY DEF Record, NoHolder, Shape
  <2>2. holder' = holder \/ holder'.of = life
    BY <1>1 DEF Record
  <2>3. CASE holder' = holder
    BY <1>1, <2>3
  <2>4. CASE holder' # holder
    BY <1>1, <2>1, <2>2, <2>4
  <2> QED BY <2>3, <2>4
<1> QED BY <1>1 DEF GateIsNamed

\* The record follows the lock: every action that takes the lock has written it,
\* or is noted, and none that leaves the lock taken clears it.
LEMMA NamedIsInductive ==
    ASSUME Shape, GateIsNamed, [KanbanNext]_kvars
    PROVE  GateIsNamed'
<1> USE DEF files, memory, step, host, budgets, history, Verb
<1>1. ASSUME NEW c \in Card, ClearStale(c)
      PROVE  GateIsNamed'
  <2>1. UNCHANGED <<gate, life, unnamed>> /\ (holder.of = life => holder' = holder)
    BY <1>1, ClearedFacts DEF ClearStale
  <2> QED BY <2>1, NamedStays
<1>2. ASSUME NEW s \in Sessions, FinishMerge(s)
      PROVE  GateIsNamed'
  <2>1. session[s].card \in Card
    BY SessionFacts
  <2>2. UNCHANGED <<gate, life, unnamed>> /\ (holder.of = life => holder' = holder)
    BY <1>2, <2>1, ClearedFacts DEF FinishMerge
  <2> QED BY <2>2, NamedStays
<1>3. ASSUME \/ \E c \in Card : \/ Enqueue(c) \/ MergeRequest(c) \/ MergeCancel(c)
                               \/ \E st \in Spoken : SetState(c, st)
             \/ \E s \in Sessions, st \in Outcomes : RecordMerge(s, st)
             \/ \E s \in Sessions : Close(s)
      PROVE  GateIsNamed'
  <2>1. UNCHANGED <<gate, holder, life, unnamed>>
    BY <1>3 DEF Enqueue, MergeRequest, MergeCancel, SetState, RecordMerge, Close
  <2> QED BY <2>1, NamedStays
<1>4. CASE ConsumeResults
  <2>1. life' = life /\ unnamed' = unnamed
    BY <1>4 DEF ConsumeResults
  <2>2. UNCHANGED <<gate, holder>> \/ gate' = FALSE
    <3>1. CASE \E p \in pending : Reported(p)
      <4>1. PICK p \in pending : ApplyResult(p, result.session)
        BY <1>4, <3>1 DEF ConsumeResults
      <4> QED BY <4>1, Zenon DEF ApplyResult, MergeFinish
    <3>2. CASE ~\E p \in pending : Reported(p)
      BY <1>4, <3>2 DEF ConsumeResults
    <3> QED BY <3>1, <3>2
  <2>3. CASE UNCHANGED <<gate, holder>>
    BY <2>1, <2>3, NamedStays
  <2>4. CASE gate' = FALSE
    BY <2>4 DEF GateIsNamed
  <2> QED BY <2>2, <2>3, <2>4
<1>5. ASSUME NEW some \in BOOLEAN, Observe(some)
      PROVE  GateIsNamed'
  <2>1. /\ gate' = (gate /\ ~GateIsOver) /\ UNCHANGED <<life, unnamed>>
        /\ ~gate' \/ holder' = IF GateIsOver THEN NoHolder ELSE holder
    BY <1>5, ObserveFacts
  <2>2. CASE ~gate'
    BY <2>2 DEF GateIsNamed
  <2>3. CASE gate'
    <3>1. gate /\ holder' = holder
      BY <2>1, <2>3
    <3> QED BY <2>1, <3>1, NamedStays
  <2> QED BY <2>2, <2>3
<1>6. CASE Promote \/ PrepareFails
  <2>1. at = "prepare" /\ rest # <<>> /\ life' = life
    BY <1>6 DEF Promote, PrepareFails, Shape
  <2>2. CASE TryGate(holder, Tail(rest)) /\ UNCHANGED <<gate, unnamed>>
    <3>1. holder' \in {holder, Record(Head(rest'))}
      BY <2>1, <2>2, NextCandidate
    <3> QED BY <2>1, <2>2, <3>1, NamedStays
  <2>3. CASE holder' = holder /\ unnamed' = unnamed \cup ({Record(Head(rest))} \ {holder})
    <3>1. Record(Head(rest)).of = life /\ Record(Head(rest)) # NoHolder
      BY DEF Record, NoHolder, Shape
    <3> QED BY <2>1, <2>3, <3>1 DEF GateIsNamed
  <2> QED BY <1>6, <2>2, <2>3 DEF Promote, PrepareFails
<1>7. ASSUME NEW worktree \in BOOLEAN, NextLaunch(worktree)
      PROVE  GateIsNamed'
  <2>1. UNCHANGED <<gate, holder, life, unnamed>>
    BY <1>7 DEF NextLaunch
  <2> QED BY <2>1, NamedStays
<1>8. CASE Deliver \/ LaunchFails \/ AnswerLost \/ HostCrash
  <2>1. UNCHANGED <<gate, holder, life, unnamed>>
    BY <1>8 DEF Deliver, LaunchFails, AnswerLost, HostCrash
  <2> QED BY <2>1, NamedStays
<1>9. CASE Restart
  <2>1. gate' = FALSE
    BY <1>9, Zenon DEF Restart
  <2> QED BY <2>1 DEF GateIsNamed
<1>10. CASE UNCHANGED kvars
  BY <1>10 DEF kvars, GateIsNamed
<1> QED
  BY <1>1, <1>2, <1>3, <1>4, <1>5, <1>6, <1>7, <1>8, <1>9, <1>10
  DEF KanbanNext, Verbs, DriverStep, Host

\* A lock that the daemon holds has a record that the daemon wrote, so it comes
\* back when the card on record is not running any more; nobody ever takes the
\* record away, only a write that failed leaves it out (merge_lock.rs).
THEOREM GateIsNamedCorrect == KanbanSpec => []GateIsNamed
<1>1. KanbanInit => GateIsNamed
  BY Zenon DEF KanbanInit, GateIsNamed
<1> QED BY <1>1, NamedIsInductive, ShapeCorrect, PTL DEF KanbanSpec

-----------------------------------------------------------------------------
(* Actions, answers and results.                                           *)

\* Numbers are fresh, so a result finds the action it is of or none; once the
\* results are consumed nothing waits for the one that is still reported.
Ids ==
    /\ \A p \in pending : p.id[1] = life /\ p.id[2] <= minted
    /\ \A p, q \in pending : p.id = q.id => p = q
    /\ result.id[1] < life \/ (result.id[1] = life /\ result.id[2] <= minted)
    /\ answer # NoAction => /\ at = "reply" /\ answer.id[1] = life /\ answer.id[2] <= minted
                           /\ \A p \in pending : p.id = answer.id => p.card = answer.card
    /\ at # "idle" => \A p \in pending : p.id # result.id

\* The session that is reported, or is on a card, is that of the card.
Served ==
    /\ \A c \in Card : thread[c] # None =>
           thread[c] \in Sessions /\ session[thread[c]].card = c
    /\ result.session # None =>
           /\ result.session \in Sessions
           /\ \A p \in pending : p.id = result.id => session[result.session].card = p.card

\* Neither depends on what the sessions do.
LEMMA ServedByCards ==
    ASSUME Ids, Served, DOMAIN session' = DOMAIN session,
           \A t \in Sessions : session'[t].card = session[t].card,
           UNCHANGED <<life, minted, pending, answer, at, result, thread>>
    PROVE  Ids' /\ Served'
  BY DEF Ids, Served, Sessions

\* A new action is told apart from all that is under way.
LEMMA MintKeepsIds ==
    ASSUME Shape, Ids, Served, at # "idle", at' = "reply",
           NEW c \in Card, NEW kind \in Kind, NEW does \in {"work", "merge"},
           Mint(c, kind, does), UNCHANGED <<life, result, thread, session>>
    PROVE  Ids' /\ Served'
<1>1. /\ minted' = minted + 1 /\ minted \in Nat
      /\ pending' = pending \cup {[id |-> ActionId, card |-> c, kind |-> kind]}
      /\ answer' = [id |-> ActionId, card |-> c, does |-> does]
      /\ ActionId[1] = life /\ ActionId[2] = minted + 1
  BY Minted DEF Shape
<1>2. \A p \in pending : p.id[1] = life /\ p.id[2] <= minted /\ p.id[2] \in Nat
  BY DEF Ids, Shape, Pending, Id
<1>3. result.id[1] \in Nat /\ result.id[2] \in Nat /\ life \in Nat
  BY DEF Shape, Result, Id
<1>4. \A p \in pending : p.id # ActionId
  BY <1>1, <1>2
<1>5. result.id # ActionId
  BY <1>1, <1>3 DEF Ids
<1> HIDE DEF ActionId
<1>6. Ids'
  <2>1. \A p \in pending' : p.id[1] = life' /\ p.id[2] <= minted'
    BY <1>1, <1>2
  <2>2. \A p, q \in pending' : p.id = q.id => p = q
    BY <1>1, <1>4 DEF Ids
  <2>3. result'.id[1] < life' \/ (result'.id[1] = life' /\ result'.id[2] <= minted')
    BY <1>1, <1>3 DEF Ids
  <2>4. /\ answer'.id[1] = life' /\ answer'.id[2] <= minted'
        /\ \A p \in pending' : p.id = answer'.id => p.card = answer'.card
    BY <1>1, <1>4
  <2>5. \A p \in pending' : p.id # result'.id
    BY <1>1, <1>5 DEF Ids
  <2> QED BY <2>1, <2>2, <2>3, <2>4, <2>5 DEF Ids
<1>7. Served'
  BY <1>1, <1>5 DEF Served, Sessions
<1> QED BY <1>6, <1>7

\* A number is given out once, so that a result meets no action but its own.
LEMMA IdsAreInductive ==
    ASSUME Shape, Ids, Served, [KanbanNext]_kvars
    PROVE  Ids' /\ Served'
<1> USE DEF files, memory, step, host, budgets, history, Verb
<1>1. ASSUME \E c \in Card : \/ Enqueue(c) \/ MergeRequest(c) \/ MergeCancel(c) \/ ClearStale(c)
                             \/ \E st \in Spoken : SetState(c, st)
      PROVE  Ids' /\ Served'
  <2>1. UNCHANGED <<life, minted, pending, answer, at, result, thread, session>>
    BY <1>1 DEF Enqueue, MergeRequest, MergeCancel, ClearStale, SetState
  <2> QED BY <2>1, ServedByCards
<1>2. ASSUME NEW s \in Sessions,
             FinishMerge(s) \/ Close(s) \/ \E st \in Outcomes : RecordMerge(s, st)
      PROVE  Ids' /\ Served'
  <2>1. /\ UNCHANGED <<life, minted, pending, answer, at, result, thread>>
        /\ \E d \in Does : session' = [session EXCEPT ![s].does = d]
    BY <1>2 DEF FinishMerge, RecordMerge, Close, Does
  <2> QED BY <2>1, EditedSession, ServedByCards
<1>3. CASE ConsumeResults
  <2>1. /\ pending' = {p \in pending : ~Reported(p)}
        /\ UNCHANGED <<life, minted, answer, result, session>>
    BY <1>3 DEF ConsumeResults
  <2>2. answer = NoAction
    BY <1>3 DEF ConsumeResults, Ids
  <2>3. Ids'
    BY <2>1, <2>2 DEF Ids, Reported
  <2>4. CASE \E p \in pending : Reported(p)
    <3>1. PICK p \in pending : Reported(p) /\ ApplyResult(p, result.session)
      BY <1>3, <2>4 DEF ConsumeResults
    <3>2. \/ thread' = thread
          \/ result.session # None /\ thread' = [thread EXCEPT ![p.card] = result.session]
      BY <3>1 DEF ApplyResult
    <3>3. result.session # None =>
            result.session \in Sessions /\ session[result.session].card = p.card
      BY <3>1 DEF Served, Reported
    <3>4. p.card \in Card
      BY DEF Shape, Pending
    <3> QED BY <2>1, <2>3, <3>2, <3>3, <3>4 DEF Served, Sessions, Shape
  <2>5. CASE ~\E p \in pending : Reported(p)
    BY <1>3, <2>1, <2>3, <2>5 DEF ConsumeResults, Served, Sessions
  <2> QED BY <2>4, <2>5
<1>4. ASSUME NEW some \in BOOLEAN, Observe(some)
      PROVE  Ids' /\ Served'
  <2>1. /\ UNCHANGED <<life, minted, pending, answer, result, thread, session>>
        /\ at' \in {"launch", "prepare"} /\ at = "observe"
    BY <1>4, ObserveFacts DEF Observe
  <2> QED BY <2>1 DEF Ids, Served, Sessions
<1>5. CASE Promote \/ PrepareFails
  <2>1. /\ at = "prepare" /\ Head(rest) \in Card /\ rest # <<>>
        /\ UNCHANGED <<life, result, thread, session>>
    BY <1>5 DEF Promote, PrepareFails, Shape
  <2>2. CASE Mint(Head(rest), "for_merge", "merge") /\ at' = "reply"
    BY <2>1, <2>2, MintKeepsIds DEF Kind
  <2>3. CASE TryGate(holder, Tail(rest)) /\ UNCHANGED <<minted, pending, answer>>
    <3>1. at' \in {"launch", "prepare"}
      BY <2>1, <2>3, NextCandidate
    <3> QED BY <2>1, <2>3, <3>1 DEF Ids, Served, Sessions
  <2> QED BY <1>5, <2>2, <2>3 DEF Promote, PrepareFails
<1>6. ASSUME NEW worktree \in BOOLEAN, NextLaunch(worktree)
      PROVE  Ids' /\ Served'
  <2>1. at = "launch" /\ at' = "reply" /\ UNCHANGED <<life, result, thread, session>>
    BY <1>6 DEF NextLaunch
  <2>2. CASE UNCHANGED <<minted, pending, answer>>
    BY <2>1, <2>2 DEF Ids, Served, Sessions
  <2>3. CASE \E c \in Startable, kind \in Kind : Mint(c, kind, "work")
    BY <2>1, <2>3, MintKeepsIds DEF Startable
  <2> QED BY <1>6, <2>2, <2>3, NextLaunchFacts
<1>7. CASE Deliver
  <2>1. /\ at' = "idle" /\ answer' = NoAction
        /\ UNCHANGED <<life, minted, pending, thread>>
    BY <1>7 DEF Deliver, Back
  <2>2. CASE answer = NoAction
    <3>1. result' = NoResult /\ UNCHANGED session
      BY <1>7, <2>2 DEF Deliver
    <3> QED BY <2>1, <3>1 DEF Ids, Served, Sessions, NoResult, Shape
  <2>3. CASE answer # NoAction
    <3>1. /\ session' = Append(session, [card |-> answer.card, does |-> answer.does])
          /\ result' = [id |-> answer.id, session |-> Len(session) + 1]
      BY <1>7, <2>3 DEF Deliver
    <3>2. Ids'
      BY <2>1, <2>3, <3>1 DEF Ids
    <3>3. /\ DOMAIN session' = 1 .. Len(session) + 1 /\ Sessions = 1 .. Len(session)
          /\ \A t \in Sessions : session'[t] = session[t]
          /\ session'[Len(session) + 1].card = answer.card
          /\ Len(session) \in Nat
      BY <2>3, <3>1, AddedSession DEF Sessions, Shape
    <3>4. Served'
      BY <2>1, <2>3, <3>1, <3>3 DEF Served, Sessions, Ids
    <3> QED BY <3>2, <3>4
  <2> QED BY <2>2, <2>3
<1>8. CASE LaunchFails
  <2>1. /\ at' = "idle" /\ answer' = NoAction /\ result' = [id |-> answer.id, session |-> None]
        /\ answer # NoAction
        /\ UNCHANGED <<life, minted, pending, thread, session>>
    BY <1>8 DEF LaunchFails, Back
  <2> QED BY <2>1 DEF Ids, Served, Sessions
<1>9. CASE AnswerLost
  <2>1. /\ at' = "idle" /\ answer' = NoAction
        /\ UNCHANGED <<life, minted, pending, thread, session, result>>
    BY <1>9 DEF AnswerLost, Back
  <2> QED BY <2>1 DEF Ids, Served, Sessions
<1>10. CASE HostCrash
  <2>1. /\ at' = "idle" /\ answer' = NoAction /\ result' = NoResult
        /\ UNCHANGED <<life, minted, pending, thread>>
    BY <1>10 DEF HostCrash
  <2>2. DOMAIN session' = DOMAIN session /\ \A t \in Sessions : session'[t].card = session[t].card
    BY <1>10, EndedSessions DEF HostCrash
  <2> QED BY <2>1, <2>2 DEF Ids, Served, Sessions, NoResult, Shape
<1>11. CASE Restart
  <2>1. /\ life' = life + 1 /\ minted' = 0 /\ pending' = {} /\ at' = "idle"
        /\ answer' = NoAction /\ UNCHANGED <<thread, session, result>>
    BY <1>11, Zenon DEF Restart
  <2> QED BY <2>1 DEF Ids, Served, Sessions, Shape, Result, Id
<1>12. CASE UNCHANGED kvars
  BY <1>12, ServedByCards DEF kvars
<1> QED
  BY <1>1, <1>2, <1>3, <1>4, <1>5, <1>6, <1>7, <1>8, <1>9, <1>10, <1>11, <1>12
  DEF KanbanNext, Verbs, DriverStep, Host

\* The session on a card was started for that card, whatever was answered, lost,
\* sent again or restarted in between (service.rs, apply_result).
THEOREM ThreadServesItsCardCorrect == KanbanSpec => []ThreadServesItsCard
<1>1. KanbanInit => Ids /\ Served
  BY DEF KanbanInit, Ids, Served, NoResult
<1>2. Served => ThreadServesItsCard
  BY DEF Served, ThreadServesItsCard
<1> QED BY <1>1, <1>2, IdsAreInductive, ShapeCorrect, PTL DEF KanbanSpec

-----------------------------------------------------------------------------
(* One merge at a time.                                                    *)

\* States of a card whose merge has not begun.
Early == {"absent", "queued", "awaiting_merge", "merge_queued"}

\* The sessions that owe a word, and those that merge, whose card has no excuse.
Owed  == {s \in Owing : session[s].card \notin Excused}
Sound == {s \in Merging : session[s].card \notin Excused}

\* Of the cards without an excuse: a merge session is the only one; it is on
\* record as the holder, and its card runs as long as the daemon has the lock.
\* Nobody else owes the card a word: not while it owes one itself, nor when the
\* card's turn comes (in `rest'), its session is asked for (in `answer') or its
\* launch has failed (in `result').
Merges ==
    /\ \A s, t \in Owed : session[s].card = session[t].card => s = t
    /\ \A s, t \in Sound : s = t
    /\ \A s \in Sound : /\ holder.card = session[s].card
                        /\ gate => board[session[s].card] = "running"
    /\ \A s \in Owed : board[session[s].card] \notin Early
    /\ at = "prepare" =>
           /\ Sound = {}
           /\ \A i \in DOMAIN rest : \A s \in Owed : session[s].card # rest[i]
    /\ answer.does = "merge" =>
           /\ Sound = {}
           /\ \/ answer.card \in Excused
              \/ holder = Record(answer.card) /\ gate /\ board[answer.card] = "running"
    /\ answer # NoAction => \A s \in Owed : session[s].card # answer.card
    /\ \A p \in pending : p.id = result.id /\ result.session = None =>
           \A s \in Sound : session[s].card # p.card

\* What the names of the sets stand for.
LEMMA OwingFacts ==
    /\ Owing \subseteq Sessions /\ Merging \subseteq Owing
    /\ Owed \subseteq Owing /\ Sound \subseteq Owed /\ Sound \subseteq Merging
    /\ \A s \in Sessions : /\ s \in Owing <=> session[s].does \in {"merge", "merged"}
                           /\ s \in Merging <=> session[s].does = "merge"
    /\ \A s \in Owing : s \in Owed <=> session[s].card \notin Excused
    /\ \A s \in Merging : s \in Sound <=> session[s].card \notin Excused
  BY DEF Owing, Merging, Owed, Sound

\* Excuses stay.
LEMMA ExcusesStay ==
    ASSUME overruled \subseteq overruled', unnamed \subseteq unnamed'
    PROVE  Excused \subseteq Excused'
  BY DEF Excused

\* Sessions that stop owing.
LEMMA FewerOwing ==
    ASSUME \A t \in Sessions : session'[t].card = session[t].card,
           Owing' \subseteq Owing, Merging' \subseteq Merging, Excused \subseteq Excused'
    PROVE  /\ Owed' \subseteq Owed /\ Sound' \subseteq Sound
           /\ \A s \in Owed' : session[s].card \notin Excused'
  BY OwingFacts DEF Owed, Sound

\* A verb that leaves the lock and the driver alone changes no card that is being
\* merged or about to be, unless that excuses it, and makes no session owe more
\* than it did.
BoardVerb ==
    /\ UNCHANGED <<holder, life, gate, at, rest, answer, pending, result>>
    /\ DOMAIN session' = DOMAIN session
    /\ \A t \in Sessions : session'[t].card = session[t].card
    /\ Owing' \subseteq Owing /\ Merging' \subseteq Merging /\ Excused \subseteq Excused'
    /\ \A c \in Card \ Excused' : board'[c] # board[c] =>
           /\ ~(answer.does = "merge" /\ answer.card = c)
           /\ \/ \A s \in Owing' : session[s].card # c
              \/ board'[c] \notin Early /\ \A s \in Merging' : session[s].card # c

\* A verb keeps what is claimed of the merges.
LEMMA BoardVerbKeepsMerges ==
    ASSUME Shape, Merges, BoardVerb
    PROVE  Merges'
<1>1. /\ Owed' \subseteq Owed /\ Sound' \subseteq Sound
      /\ \A s \in Owed' : session[s].card \notin Excused'
  BY FewerOwing DEF BoardVerb
<1>2. /\ Owed' \subseteq Sessions /\ Sound' \subseteq Owed'
      /\ Owed' \subseteq Owing' /\ Sound' \subseteq Merging'
      /\ \A s \in Owed' : session'[s].card = session[s].card /\ session[s].card \in Card
  <2>1. Owed' \subseteq Sessions
    BY <1>1, OwingFacts
  <2>2. Sound' \subseteq Owed' /\ Owed' \subseteq Owing' /\ Sound' \subseteq Merging'
    BY DEF Owed, Sound, Owing, Merging, Sessions
  <2>3. \A s \in Owed' : session'[s].card = session[s].card
    BY <2>1 DEF BoardVerb
  <2>4. \A s \in Owed' : session[s].card \in Card
    BY <2>1, SessionFacts
  <2> QED BY <2>1, <2>2, <2>3, <2>4
<1>3. \A s \in Owed' :
         \/ board'[session[s].card] = board[session[s].card]
         \/ board'[session[s].card] \notin Early /\ s \notin Sound'
  <2>1. ASSUME NEW s \in Owed', NEW c \in Card \ Excused', c = session[s].card
        PROVE  board'[c] = board[c] \/ (board'[c] \notin Early /\ s \notin Sound')
    <3>1. CASE board'[c] = board[c]
      BY <3>1
    <3>2. CASE board'[c] # board[c]
      <4>1. \/ \A t \in Owing' : session[t].card # c
            \/ board'[c] \notin Early /\ \A t \in Merging' : session[t].card # c
        BY <3>2, Zenon DEF BoardVerb
      <4> QED BY <1>2, <2>1, <4>1, Zenon
    <3> QED BY <3>1, <3>2
  <2> QED BY <1>1, <1>2, <2>1, Zenon
<1>4. answer.does = "merge" => \/ answer.card \in Excused'
                               \/ /\ holder = Record(answer.card) /\ gate
                                  /\ board'[answer.card] = "running"
  <2>1. answer.does = "merge" => answer.card \in Card
    BY DEF Shape, Answer, NoAction
  <2>2. answer.does = "merge" /\ answer.card \notin Excused' =>
            board'[answer.card] = board[answer.card]
    BY <2>1 DEF BoardVerb
  <2> QED BY <2>2 DEF Merges, BoardVerb
<1>5. UNCHANGED <<holder, life, gate, at, rest, answer, pending, result>>
  BY DEF BoardVerb
<1>6. /\ \A s, t \in Owed' : session'[s].card = session'[t].card => s = t
      /\ \A s, t \in Sound' : s = t
      /\ \A s \in Sound' : /\ holder'.card = session'[s].card
                           /\ gate' => board'[session'[s].card] = "running"
      /\ \A s \in Owed' : board'[session'[s].card] \notin Early
  BY <1>1, <1>2, <1>3, <1>5 DEF Merges
<1>7. /\ at' = "prepare" =>
           /\ Sound' = {}
           /\ \A i \in DOMAIN rest' : \A s \in Owed' : session'[s].card # rest'[i]
      /\ answer' # NoAction => \A s \in Owed' : session'[s].card # answer'.card
      /\ \A p \in pending' : p.id = result'.id /\ result'.session = None =>
           \A s \in Sound' : session'[s].card # p.card
  BY <1>1, <1>2, <1>5 DEF Merges
<1>8. Record(answer.card)' = Record(answer.card)
  BY <1>5 DEF Record
<1>9. answer'.does = "merge" =>
           /\ Sound' = {}
           /\ \/ answer'.card \in Excused'
              \/ holder' = Record(answer.card)' /\ gate' /\ board'[answer'.card] = "running"
  BY <1>1, <1>4, <1>5, <1>8 DEF Merges
<1> QED BY <1>6, <1>7, <1>9 DEF Merges

\* While the sessions and the excuses are as they were.
LEMMA SameOwing ==
    ASSUME UNCHANGED session, UNCHANGED <<overruled, unnamed>>
    PROVE  /\ Owing' = Owing /\ Merging' = Merging /\ Sessions' = Sessions
           /\ Excused' = Excused /\ Owed' = Owed /\ Sound' = Sound
<1>1. Owing' = Owing /\ Merging' = Merging /\ Sessions' = Sessions /\ Excused' = Excused
  BY DEF Owing, Merging, Sessions, Excused
<1> QED BY <1>1 DEF Owed, Sound

\* The step every argument about merges ends in: one case per action.
LEMMA MergesIsInductive ==
    ASSUME Shape, GateIsNamed, Ids, Merges, Shape', [KanbanNext]_kvars
    PROVE  Merges'
<1> USE DEF files, memory, step, host, budgets, history, Verb
<1>1. ASSUME NEW c \in Card, Enqueue(c) \/ MergeRequest(c) \/ MergeCancel(c)
      PROVE  Merges'
  <2>1. /\ UNCHANGED <<holder, life, gate, at, rest, answer, pending, result, session,
                       overruled, unnamed>>
        /\ board[c] \in Early /\ \A d \in Card \ {c} : board'[d] = board[d]
    BY <1>1 DEF Enqueue, MergeRequest, MergeCancel, Early, Shape
  <2>2. \A s \in Owed : session[s].card # c
    BY <2>1 DEF Merges
  <2>3. ~(answer.does = "merge" /\ answer.card = c) \/ c \in Excused
    BY <2>1 DEF Merges, Early
  <2>4. \A s \in Owing : session[s].card # c \/ c \in Excused
    BY <2>2, OwingFacts
  <2>5. BoardVerb
    BY <2>1, <2>3, <2>4, SameOwing, OwingFacts DEF BoardVerb
  <2> QED BY <2>5, BoardVerbKeepsMerges
<1>2. ASSUME NEW c \in Card, NEW st \in Spoken, SetState(c, st)
      PROVE  Merges'
  <2>1. /\ UNCHANGED <<holder, life, gate, at, rest, answer, pending, result, session,
                       unnamed>>
        /\ Settled(c) /\ \A d \in Card \ {c} : board'[d] = board[d]
    BY <1>2 DEF SetState, Shape
  <2>2. /\ Owing' = Owing /\ Merging' = Merging
        /\ Excused \subseteq Excused' /\ (MergeTurn(c) => c \in Excused')
    BY <2>1 DEF Owing, Merging, Sessions, Settled, Excused
  <2>3. c \notin Excused' =>
            /\ ~(answer.does = "merge" /\ answer.card = c)
            /\ \A s \in Owing : session[s].card # c
    BY <2>2 DEF MergeTurn
  <2>4. BoardVerb
    BY <2>1, <2>2, <2>3 DEF BoardVerb
  <2> QED BY <2>4, BoardVerbKeepsMerges
<1>3. ASSUME NEW s \in Sessions, Close(s)
      PROVE  Merges'
  <2>1. /\ UNCHANGED <<holder, life, gate, at, rest, answer, pending, result, board,
                       overruled, unnamed>>
        /\ session' = [session EXCEPT ![s].does = "over"]
    BY <1>3 DEF Close
  <2>2. /\ DOMAIN session' = DOMAIN session
        /\ \A t \in Sessions : /\ session'[t].card = session[t].card
                               /\ session'[t].does = IF t = s THEN "over" ELSE session[t].does
    BY <2>1, EditedSession DEF Does
  <2>3. Owing' \subseteq Owing /\ Merging' \subseteq Merging
    BY <2>2 DEF Owing, Merging, Sessions
  <2>4. BoardVerb
    BY <2>1, <2>2, <2>3, ExcusesStay DEF BoardVerb
  <2> QED BY <2>4, BoardVerbKeepsMerges
<1>4. ASSUME NEW s \in Sessions, NEW st \in Outcomes, RecordMerge(s, st)
      PROVE  Merges'
  <2>1. /\ UNCHANGED <<holder, life, gate, at, rest, answer, pending, result,
                       overruled, unnamed>>
        /\ session' = [session EXCEPT ![s].does = "rest"] /\ s \in Owing
        /\ \A d \in Card \ {session[s].card} : board'[d] = board[d]
    BY <1>4 DEF RecordMerge, Shape
  <2>2. /\ DOMAIN session' = DOMAIN session
        /\ \A t \in Sessions : /\ session'[t].card = session[t].card
                               /\ session'[t].does = IF t = s THEN "rest" ELSE session[t].does
    BY <2>1, EditedSession DEF Does
  <2>3. Owing' \subseteq Owing \ {s} /\ Merging' \subseteq Merging
    BY <2>2 DEF Owing, Merging, Sessions
  <2>4. \A t \in Owing' : session[t].card # session[s].card \/ session[s].card \in Excused
    <3>1. \A t, u \in Owed : session[t].card = session[u].card => t = u
      BY Zenon DEF Merges
    <3> QED BY <2>1, <2>3, <3>1, OwingFacts
  <2>5. \/ ~(answer.does = "merge" /\ answer.card = session[s].card)
        \/ session[s].card \in Excused
    <3>1. answer.does = "merge" => answer # NoAction
      BY DEF NoAction
    <3>2. answer # NoAction => \A t \in Owed : session[t].card # answer.card
      BY Zenon DEF Merges
    <3> QED BY <2>1, <3>1, <3>2, OwingFacts
  <2>6. Excused \subseteq Excused'
    BY <2>1, ExcusesStay
  <2>7. BoardVerb
    BY <2>1, <2>2, <2>3, <2>4, <2>5, <2>6 DEF BoardVerb
  <2> QED BY <2>7, BoardVerbKeepsMerges
<1>5. ASSUME NEW s \in Sessions, FinishMerge(s)
      PROVE  Merges'
  <2>1. /\ UNCHANGED <<life, gate, at, rest, answer, pending, result, board,
                       overruled, unnamed>>
        /\ session' = [session EXCEPT ![s].does = "merged"] /\ s \in Merging
        /\ holder' = Cleared(session[s].card)
    BY <1>5 DEF FinishMerge
  <2>2. /\ DOMAIN session' = DOMAIN session
        /\ \A t \in Sessions : /\ session'[t].card = session[t].card
                               /\ session'[t].does = IF t = s THEN "merged" ELSE session[t].does
    BY <2>1, EditedSession DEF Does
  <2>3. Owing' \subseteq Owing /\ Merging' \subseteq Merging \ {s} /\ Excused' = Excused
    BY <2>1, <2>2 DEF Owing, Merging, Sessions, Excused
  <2>4. Owed' \subseteq Owed /\ Sound' \subseteq Sound \ {s} /\ Owed \subseteq Sessions
        /\ Sound \subseteq Sessions
    <3>1. Owed' \subseteq Owed /\ Sound' \subseteq Sound
      BY <2>2, <2>3, FewerOwing
    <3>2. Sound' \subseteq Merging'
      BY DEF Sound
    <3> QED BY <2>3, <3>1, <3>2, OwingFacts
  <2>5. \A t \in Sound' : holder' = holder
    <3>1. ASSUME NEW t \in Sound' PROVE holder' = holder
      <4>1. t \in Sound /\ t # s
        BY <2>4
      <4>2. holder.card = session[t].card /\ t \in Owed
        BY <4>1, OwingFacts DEF Merges
      <4>3. s \notin Sound
        BY <4>1 DEF Merges
      <4>4. session[s].card \in Excused /\ session[t].card \notin Excused
        BY <2>1, <4>1, <4>3, OwingFacts
      <4> QED BY <2>1, <4>2, <4>4 DEF Cleared, Abandoned
    <3> QED BY <3>1
  <2>6. holder = Record(answer.card) => holder' = holder
    BY <2>1 DEF Cleared, Abandoned, Record
  <2>7. answer' = answer /\ Record(answer.card)' = Record(answer.card)
    BY <2>1 DEF Record
  <2>8. answer'.does = "merge" =>
           /\ Sound' = {}
           /\ \/ answer'.card \in Excused'
              \/ holder' = Record(answer.card)' /\ gate' /\ board'[answer'.card] = "running"
    BY <2>1, <2>3, <2>4, <2>6, <2>7 DEF Merges
  <2>9. /\ \A t, u \in Owed' : session'[t].card = session'[u].card => t = u
        /\ \A t, u \in Sound' : t = u
        /\ \A t \in Sound' : /\ holder'.card = session'[t].card
                             /\ gate' => board'[session'[t].card] = "running"
        /\ \A t \in Owed' : board'[session'[t].card] \notin Early
    BY <2>1, <2>2, <2>4, <2>5 DEF Merges
  <2>10. /\ at' = "prepare" =>
              /\ Sound' = {}
              /\ \A i \in DOMAIN rest' : \A t \in Owed' : session'[t].card # rest'[i]
         /\ answer' # NoAction => \A t \in Owed' : session'[t].card # answer'.card
         /\ \A p \in pending' : p.id = result'.id /\ result'.session = None =>
              \A t \in Sound' : session'[t].card # p.card
    BY <2>1, <2>2, <2>4 DEF Merges
  <2> QED BY <2>8, <2>9, <2>10 DEF Merges
<1>6. ASSUME NEW c \in Card, ClearStale(c)
      PROVE  Merges'
  <2>1. /\ UNCHANGED <<life, gate, at, rest, answer, pending, result, board, session, unnamed>>
        /\ holder.card = c /\ holder.of # life /\ Settled(c)
    BY <1>6 DEF ClearStale, Abandoned
  <2>2. /\ Owing' = Owing /\ Merging' = Merging
        /\ Excused \subseteq Excused' /\ (MergeTurn(c) => c \in Excused')
    BY <2>1 DEF Owing, Merging, Sessions, Settled, Excused
  <2>3. /\ Owed' \subseteq Owed /\ Sound' \subseteq Sound
        /\ \A s \in Owed' : session[s].card \notin Excused'
    BY <2>1, <2>2, FewerOwing
  <2>4. Sound' = {}
    <3>1. ASSUME NEW s \in Sound' PROVE FALSE
      <4>1. session[s].card = c /\ s \in Owing
        BY <2>1, <2>3, OwingFacts DEF Merges
      <4>2. c \in Excused'
        BY <2>2, <4>1 DEF MergeTurn
      <4>3. s \in Owed'
        BY <2>2 DEF Sound, Owed, Merging, Owing
      <4> QED BY <2>3, <4>1, <4>2, <4>3
    <3> QED BY <3>1
  <2>5. answer.does = "merge" => answer.card \in Excused'
    BY <2>1, <2>2 DEF Merges, Record
  <2> QED BY <2>1, <2>3, <2>4, <2>5 DEF Merges
<1>7. CASE ConsumeResults
  <2>1. /\ at = "idle" /\ at' = "observe" /\ pending' \subseteq pending
        /\ UNCHANGED <<rest, answer, result, session, overruled, unnamed>>
    BY <1>7 DEF ConsumeResults
  <2>2. answer = NoAction
    BY <2>1 DEF Ids
  <2>3. CASE UNCHANGED <<board, gate, holder>>
    BY <2>1, <2>2, <2>3, SameOwing DEF Merges, NoAction
  <2>4. ASSUME NEW p \in pending, Reported(p), result.session = None,
               ApplyResult(p, result.session)
        PROVE  Merges'
    <3>1. /\ \A s \in Sound : session[s].card # p.card
          /\ p.card \in Card
      BY <2>4 DEF Merges, Reported, Shape, Pending
    <3>2. CASE p.kind = "launch"
      <4>1. /\ UNCHANGED <<gate, holder>>
            /\ \A d \in Card : board'[d] = board[d] \/ (d = p.card /\ board'[d] = "failed")
        <5>1. /\ UNCHANGED <<gate, holder>>
              /\ board' = IF CanTransitionTo(board[p.card], "failed")
                          THEN [board EXCEPT ![p.card] = "failed"] ELSE board
          BY <2>4, <3>2, Zenon DEF ApplyResult
        <5>2. board' = board \/ board' = [board EXCEPT ![p.card] = "failed"]
          BY <5>1, Zenon
        <5>3. \A d \in Card : board'[d] = board[d] \/ (d = p.card /\ board'[d] = "failed")
          BY <3>1, <5>2 DEF Shape
        <5> QED BY <5>1, <5>3, Zenon
      <4>2. \A s \in Owed : /\ board'[session[s].card] \notin Early
                            /\ s \in Sound => board'[session[s].card] = board[session[s].card]
        BY <3>1, <4>1, OwingFacts, SessionFacts DEF Merges, Early
      <4>3. Owed' = Owed /\ Sound' = Sound /\ session' = session
        BY <2>1, SameOwing
      <4>4. \A s \in Sound : board'[session[s].card] = board[session[s].card]
        BY <4>2, OwingFacts
      <4>5. \A s \in Sound : gate => board[session[s].card] = "running"
        BY DEF Merges
      <4>6. \A s \in Owed' : board'[session'[s].card] \notin Early
        <5>1. \A s \in Owed : board'[session[s].card] \notin Early
          BY <4>2
        <5> QED BY <4>3, <5>1, Zenon
      <4>7. \A s \in Sound' : gate' => board'[session'[s].card] = "running"
        BY <4>1, <4>3, <4>4, <4>5
      <4>8. at' # "prepare" /\ answer' = NoAction /\ answer'.does # "merge"
        BY <2>1, <2>2 DEF NoAction
      <4>9. /\ \A s, t \in Owed' : session'[s].card = session'[t].card => s = t
            /\ \A s, t \in Sound' : s = t
            /\ \A s \in Sound' : holder'.card = session'[s].card
        BY <4>1, <4>3 DEF Merges
      <4>10. \A r \in pending' : r.id = result'.id /\ result'.session = None =>
                 \A s \in Sound' : session'[s].card # r.card
        BY <2>1, <4>3 DEF Merges
      <4> QED BY <4>6, <4>7, <4>8, <4>9, <4>10 DEF Merges
    <3>3. CASE p.kind # "launch"
      <4>1. /\ board' = board /\ gate' = FALSE
            /\ holder.card = p.card \/ holder' = holder
        BY <2>4, <3>3, Zenon DEF ApplyResult, MergeFinish, Cleared, Abandoned
      <4> QED BY <2>1, <2>2, <3>1, <4>1, SameOwing DEF Merges, NoAction
    <3> QED BY <3>2, <3>3
  <2>5. CASE \E p \in pending : Reported(p)
    <3>1. PICK p \in pending : Reported(p) /\ ApplyResult(p, result.session)
      BY <1>7, <2>5 DEF ConsumeResults
    <3>2. CASE result.session = None
      BY <2>4, <3>1, <3>2
    <3>3. CASE result.session # None
      BY <2>3, <3>1, <3>3 DEF ApplyResult
    <3> QED BY <3>2, <3>3
  <2>6. CASE ~\E p \in pending : Reported(p)
    BY <1>7, <2>3, <2>6 DEF ConsumeResults
  <2> QED BY <2>5, <2>6
<1>8. ASSUME NEW some \in BOOLEAN, Observe(some)
      PROVE  Merges'
  <2>1. /\ gate' = (gate /\ ~GateIsOver) /\ at = "observe"
        /\ UNCHANGED <<board, pending, answer, session, result, overruled, unnamed>>
    BY <1>8, ObserveFacts DEF Observe
  <2>2. answer = NoAction
    BY <2>1 DEF Ids
  <2>3. GateIsOver => Sound = {}
    BY DEF GateIsOver, Merges
  <2>4. holder = NoHolder => Sound = {}
    BY OwingFacts, SessionFacts DEF NoHolder, Merges
  <2>5. CASE at' = "launch"
    <3>1. holder' = IF GateIsOver THEN NoHolder ELSE holder
      BY <1>8, <2>5, ObserveFacts
    <3> QED BY <2>1, <2>2, <2>3, <2>5, <3>1, SameOwing DEF Merges, NoAction
  <2>6. CASE at' = "prepare"
    <3>1. /\ rest' # <<>>
          /\ GateIsOver \/ holder = NoHolder
          /\ \A i \in DOMAIN rest' : board[rest'[i]] = "merge_queued"
      BY <1>8, <2>6, ObserveFacts
    <3>2. Sound = {}
      BY <2>3, <2>4, <3>1
    <3>3. \A i \in DOMAIN rest' : \A s \in Owed : session[s].card # rest'[i]
      BY <3>1 DEF Merges, Early
    <3> QED BY <2>1, <2>2, <3>1, <3>2, <3>3, SameOwing DEF Merges, NoAction
  <2> QED BY <1>8, <2>5, <2>6, ObserveFacts
<1>9. CASE Promote \/ PrepareFails
  <2>1. /\ at = "prepare" /\ rest # <<>> /\ Head(rest) \in Card /\ Head(rest) = rest[1]
        /\ 1 \in DOMAIN rest
        /\ UNCHANGED <<result, session>>
    BY <1>9 DEF Promote, PrepareFails, Shape
  <2>2. answer = NoAction /\ Sound = {}
    BY <2>1 DEF Ids, Merges
  <2>3. CASE TryGate(holder, Tail(rest)) /\ UNCHANGED <<board, gate, pending, answer,
                                                         overruled, unnamed>>
    <3>1. CASE at' = "launch"
      BY <2>1, <2>2, <2>3, <3>1, SameOwing DEF Merges, NoAction
    <3>2. CASE at' = "prepare"
      <4>1. rest' = Tail(rest)
        BY <2>1, <2>3, <3>2, NextCandidate
      <4>2. \A i \in DOMAIN rest' : i + 1 \in DOMAIN rest /\ rest'[i] = rest[i + 1]
        BY <2>1, <4>1 DEF Shape
      <4> QED BY <2>1, <2>2, <2>3, <3>2, <4>2, SameOwing DEF Merges, NoAction
    <3> QED BY <2>1, <2>3, <3>1, <3>2, NextCandidate
  <2>4. CASE /\ board' = [board EXCEPT ![Head(rest)] = "running"] /\ gate' = TRUE
             /\ UNCHANGED <<holder, overruled>> /\ at' = "reply"
             /\ unnamed' = unnamed \cup ({Record(Head(rest))} \ {holder})
             /\ Mint(Head(rest), "for_merge", "merge")
    <3>1. answer' = [id |-> ActionId, card |-> Head(rest), does |-> "merge"]
      BY <2>4 DEF Mint
    <3>2. \A s \in Owed : session[s].card # Head(rest) /\ session[s].card \in Card
      BY <2>1, OwingFacts, SessionFacts DEF Merges
    <3>3. gate'
      BY <2>4
    <3>4. board'[Head(rest)] = "running" /\ \A d \in Card \ {Head(rest)} : board'[d] = board[d]
      BY <2>1, <2>4 DEF Shape
    <3>5. Owing' = Owing /\ Merging' = Merging
      BY <2>1 DEF Owing, Merging, Sessions
    <3>6. Owed' \subseteq Owed /\ Sound' \subseteq Sound
      BY <2>1, <2>4, <3>5, ExcusesStay, FewerOwing
    <3>7. Head(rest) \in Excused' \/ holder = Record(Head(rest))
      <4>1. Record(Head(rest)).card = Head(rest)
        BY DEF Record
      <4>2. holder = Record(Head(rest)) \/ Record(Head(rest)) \in unnamed'
        BY <2>4
      <4> HIDE DEF Record
      <4> QED BY <4>1, <4>2 DEF Excused
    <3>8. life' = life /\ answer'.card = Head(rest) /\ Record(answer.card)' = Record(Head(rest))
      BY <1>9, <3>1 DEF Promote, PrepareFails, Record
    <3>9. Sound' = {}
      BY <2>2, <3>6
    <3>10. answer'.does = "merge" =>
           /\ Sound' = {}
           /\ \/ answer'.card \in Excused'
              \/ holder' = Record(answer.card)' /\ gate' /\ board'[answer'.card] = "running"
      BY <2>4, <3>3, <3>4, <3>7, <3>8, <3>9
    <3>11. \A s \in Owed' : /\ session'[s] = session[s] /\ s \in Owed
                            /\ session[s].card # answer'.card
                            /\ board'[session[s].card] = board[session[s].card]
      BY <2>1, <3>2, <3>4, <3>6, <3>8
    <3> QED BY <2>4, <3>9, <3>10, <3>11 DEF Merges
  <2> QED BY <1>9, <2>3, <2>4, Zenon DEF Promote, PrepareFails
<1>10. ASSUME NEW worktree \in BOOLEAN, NextLaunch(worktree)
       PROVE  Merges'
  <2>1. /\ at = "launch" /\ at' = "reply"
        /\ UNCHANGED <<holder, gate, rest, result, session, overruled, unnamed>>
    BY <1>10 DEF NextLaunch
  <2>2. answer = NoAction
    BY <2>1 DEF Ids
  <2>3. CASE UNCHANGED <<board, minted, pending, answer>>
    BY <2>1, <2>2, <2>3, SameOwing DEF Merges, NoAction
  <2>4. ASSUME NEW c \in Startable, NEW st \in {"running", "failed"},
               board' = [board EXCEPT ![c] = st]
        PROVE  /\ \A s \in Owed : session[s].card # c
               /\ \A s \in Owed : board'[session[s].card] = board[session[s].card]
    <3>1. c \in Card /\ board[c] = "queued"
      BY DEF Startable
    <3>2. \A s \in Owed : session[s].card # c
      BY <3>1 DEF Merges, Early
    <3> QED BY <2>4, <3>1, <3>2, OwingFacts, SessionFacts DEF Shape
  <2>5. CASE \E c \in Startable : /\ board' = [board EXCEPT ![c] = "failed"]
                                  /\ UNCHANGED <<minted, pending, answer>>
    <3>1. PICK c \in Startable : /\ board' = [board EXCEPT ![c] = "failed"]
                                 /\ UNCHANGED <<minted, pending, answer>>
      BY <2>5
    <3>2. \A s \in Owed : board'[session[s].card] = board[session[s].card]
      BY <2>4, <3>1
    <3> QED BY <2>1, <2>2, <3>1, <3>2, SameOwing, OwingFacts DEF Merges, NoAction
  <2>6. ASSUME NEW c \in Startable, NEW kind \in Kind,
               board' = [board EXCEPT ![c] = "running"], Mint(c, kind, "work")
        PROVE  Merges'
    <3>1. /\ \A s \in Owed : session[s].card # c
          /\ \A s \in Owed : board'[session[s].card] = board[session[s].card]
      BY <2>4, <2>6
    <3>2. /\ pending' = pending \cup {[id |-> ActionId, card |-> c, kind |-> kind]}
          /\ answer' = [id |-> ActionId, card |-> c, does |-> "work"]
      BY <2>6 DEF Mint
    <3> HIDE DEF ActionId
    <3> QED BY <2>1, <3>1, <3>2, SameOwing, OwingFacts DEF Merges
  <2> QED BY <1>10, <2>3, <2>5, <2>6, NextLaunchFacts
<1>11. CASE Deliver
  <2>1. /\ at = "reply" /\ at' = "idle" /\ answer' = NoAction
        /\ UNCHANGED <<board, holder, gate, pending, overruled, unnamed>>
    BY <1>11 DEF Deliver, Back
  <2>2. CASE answer = NoAction
    <3>1. result' = NoResult /\ UNCHANGED session
      BY <1>11, <2>2 DEF Deliver
    <3>2. \A p \in pending : p.id # NoResult.id
      BY DEF Ids, Shape, NoResult
    <3> QED BY <2>1, <3>1, <3>2, SameOwing DEF Merges, NoAction
  <2>3. CASE answer # NoAction
    <3>1. /\ session' = Append(session, [card |-> answer.card, does |-> answer.does])
          /\ result' = [id |-> answer.id, session |-> Len(session) + 1]
      BY <1>11, <2>3 DEF Deliver
    <3>2. result'.session # None
      BY <3>1 DEF Shape
    <3> DEFINE n == Len(session) + 1
    <3>3. /\ Sessions = 1 .. Len(session) /\ Sessions' = Sessions \cup {n} /\ n \notin Sessions
          /\ \A t \in Sessions : session'[t] = session[t]
          /\ session'[n].card = answer.card /\ session'[n].does = answer.does
      BY <2>3, <3>1, AddedSession DEF Sessions, Shape
    <3> HIDE DEF n
    <3>4. /\ Owing' \subseteq Owing \cup {n} /\ Merging' \subseteq Merging \cup {n}
          /\ n \in Owing' => answer.does = "merge"
          /\ Merging \subseteq Owing /\ Owing \subseteq Sessions /\ Merging' \subseteq Owing'
          /\ Excused' = Excused
      BY <2>1, <2>3, <3>3 DEF Owing, Merging, Shape, Answer, Excused
    <3>5. /\ Owed' \subseteq Owed \cup {n} /\ Sound' \subseteq Sound \cup {n}
          /\ n \in Owed' => answer.does = "merge" /\ answer.card \notin Excused
          /\ Owed \subseteq Sessions /\ Sound' \subseteq Owed' /\ Sound \subseteq Owed
      BY <3>3, <3>4 DEF Owed, Sound
    <3>6. CASE n \notin Owed'
      BY <2>1, <3>2, <3>3, <3>5, <3>6 DEF Merges, NoAction
    <3>7. CASE n \in Owed'
      <4>1. /\ Sound' \subseteq {n} /\ holder.card = answer.card /\ gate
            /\ board[answer.card] = "running"
            /\ \A s \in Owed : session[s].card # answer.card
        BY <2>3, <3>5, <3>7 DEF Merges, Record
      <4> QED BY <2>1, <3>2, <3>3, <3>5, <4>1 DEF Merges, NoAction, Early
    <3> QED BY <3>6, <3>7
  <2> QED BY <2>2, <2>3
<1>12. CASE LaunchFails
  <2>1. /\ at' = "idle" /\ answer' = NoAction /\ answer # NoAction
        /\ result' = [id |-> answer.id, session |-> None]
        /\ UNCHANGED <<board, holder, gate, pending, session, overruled, unnamed>>
    BY <1>12 DEF LaunchFails, Back
  <2>2. \A p \in pending : p.id = answer.id => \A s \in Sound : session[s].card # p.card
    BY <2>1, OwingFacts DEF Ids, Merges
  <2> QED BY <2>1, <2>2, SameOwing DEF Merges, NoAction
<1>13. CASE AnswerLost
  <2>1. /\ at' = "idle" /\ answer' = NoAction
        /\ UNCHANGED <<board, holder, gate, pending, session, result, overruled, unnamed>>
    BY <1>13 DEF AnswerLost, Back
  <2> QED BY <2>1, SameOwing DEF Merges, NoAction
<1>14. CASE HostCrash
  <2>1. at' = "idle" /\ answer' = NoAction
    BY <1>14 DEF HostCrash
  <2>2. Owed' = {} /\ Sound' = {}
    BY <1>14, EndedSessions DEF HostCrash, Owed, Sound, Owing, Merging, Sessions
  <2> QED BY <2>1, <2>2 DEF Merges, NoAction
<1>15. CASE Restart
  <2>1. /\ gate' = FALSE /\ pending' = {} /\ at' = "idle" /\ answer' = NoAction
        /\ board' = [c \in Card |-> IF board[c] = "running" /\ thread[c] = None
                                    THEN "needs_you" ELSE board[c]]
        /\ UNCHANGED <<holder, session, overruled, unnamed>>
    BY <1>15, Zenon DEF Restart
  <2>2. ~gate'
    BY <2>1
  <2>3. \A c \in Card : board'[c] = board[c] \/ board'[c] \notin Early
    BY <2>1 DEF Early
  <2> QED BY <2>1, <2>2, <2>3, SameOwing, OwingFacts, SessionFacts DEF Merges, NoAction
<1>16. CASE UNCHANGED kvars
  BY <1>16, SameOwing DEF kvars, Merges, Record
<1> QED
  BY <1>1, <1>2, <1>3, <1>4, <1>5, <1>6, <1>7, <1>8, <1>9, <1>10, <1>11, <1>12, <1>13,
     <1>14, <1>15, <1>16
  DEF KanbanNext, Verbs, DriverStep, Host

\* At any time at most one merge is being executed in a project, across restarts
\* of the plugin and of its host and lost answers (merge_lock.rs), but for cards
\* that were settled under their merge or could not be recorded.
THEOREM OneMergeAtATimeCorrect == KanbanSpec => []OneMergeAtATime
<1>1. KanbanInit => GateIsNamed /\ Ids /\ Served /\ Merges
  <2>1. KanbanInit => GateIsNamed
    BY Zenon DEF KanbanInit, GateIsNamed
  <2>2. KanbanInit => Owed = {} /\ Sound = {}
    BY DEF KanbanInit, Owed, Sound, Owing, Merging, Sessions
  <2>3. KanbanInit => Ids /\ Served /\ Merges
    BY <2>2 DEF KanbanInit, Ids, Served, NoResult, Merges, Sessions, NoAction
  <2> QED BY <2>1, <2>3
<1>2. /\ Shape /\ Shape' /\ GateIsNamed /\ Ids /\ Served /\ Merges /\ [KanbanNext]_kvars
      => GateIsNamed' /\ Ids' /\ Served' /\ Merges'
  BY NamedIsInductive, IdsAreInductive, MergesIsInductive
<1>3. Merges => OneMergeAtATime
  BY DEF Merges, OneMergeAtATime, Sound
<1> QED BY <1>1, <1>2, <1>3, ShapeCorrect, PTL DEF KanbanSpec
-----------------------------------------------------------------------------
(* Slots.                                                                  *)

\* What was seen dead stays so, and while the driver gives out slots every session
\* has been looked at: none is started before the answer is delivered.
Watched ==
    /\ Len(session) <= MaxSessions
    /\ observed \in [1 .. MaxSessions -> {"unseen", "alive", "dead"}]
    /\ \A s \in 1 .. MaxSessions : observed[s] = "dead" => s \in Sessions /\ ~Alive(s)
    /\ at \in {"prepare", "launch"} => \A s \in Sessions : observed[s] # "unseen"

\* A step that starts no session and revives none leaves the observations true.
LEMMA WatchedStays ==
    ASSUME Shape, Watched, Len(session') = Len(session), DOMAIN session' = DOMAIN session,
           observed' = observed, at' \in {"prepare", "launch"} => at \in {"prepare", "launch"},
           \A t \in Sessions : Alive(t)' => Alive(t)
    PROVE  Watched'
BY DEF Watched, Sessions, Alive

\* Observations are made of every session, and only of sessions.
LEMMA WatchedIsInductive ==
    ASSUME Shape, Watched, [KanbanNext]_kvars
    PROVE  Watched'
<1> USE DEF files, memory, step, host, budgets, history, Verb
<1>0. Sessions = 1 .. Len(session) /\ Len(session) \in Nat
  BY DEF Shape, Sessions
<1>1. ASSUME UNCHANGED <<observed, session>>,
             at' \in {"prepare", "launch"} => at \in {"prepare", "launch"}
      PROVE  Watched'
  BY <1>1, WatchedStays DEF Alive, Sessions
<1>2. ASSUME NEW s \in Sessions, NEW d \in Does, d # "over" => Alive(s),
             session' = [session EXCEPT ![s].does = d], UNCHANGED <<observed, at>>
      PROVE  Watched'
  <2>1. /\ session' \in Seq(Session) /\ DOMAIN session' = DOMAIN session
        /\ \A t \in Sessions : /\ session'[t].card = session[t].card
                               /\ session'[t].does = IF t = s THEN d ELSE session[t].does
    BY <1>2, EditedSession, Zenon
  <2>2. Len(session') = Len(session)
    BY <1>0, <2>1 DEF Sessions
  <2>3. \A t \in Sessions : Alive(t)' => Alive(t)
    BY <1>2, <2>1 DEF Alive, Sessions
  <2> QED BY <1>2, <2>1, <2>2, <2>3, WatchedStays
<1>3. CASE \E c \in Card : \/ Enqueue(c) \/ MergeRequest(c) \/ MergeCancel(c) \/ ClearStale(c)
                           \/ \E st \in Spoken : SetState(c, st)
  <2>1. UNCHANGED <<observed, session, at>>
    BY <1>3 DEF Enqueue, MergeRequest, MergeCancel, ClearStale, SetState
  <2> QED BY <2>1, <1>1
<1>4. CASE \E s \in Sessions : FinishMerge(s) \/ \E st \in Outcomes : RecordMerge(s, st)
  <2>1. PICK s \in Sessions : FinishMerge(s) \/ \E st \in Outcomes : RecordMerge(s, st)
    BY <1>4
  <2>2. /\ UNCHANGED <<observed, at>> /\ Alive(s)
        /\ \E d \in Does : session' = [session EXCEPT ![s].does = d]
    BY <2>1 DEF FinishMerge, RecordMerge, Merging, Owing, Alive, Does
  <2> QED BY <2>2, <1>2
<1>5. CASE \E s \in Sessions : Close(s)
  <2>1. PICK s \in Sessions : Close(s)
    BY <1>5
  <2>2. UNCHANGED <<observed, at>> /\ session' = [session EXCEPT ![s].does = "over"]
    BY <2>1 DEF Close
  <2> QED BY <2>2, <1>2 DEF Does
<1>6. CASE ConsumeResults \/ \E worktree \in BOOLEAN : NextLaunch(worktree)
  <2>1. UNCHANGED <<observed, session>> /\ at' \notin {"prepare", "launch"}
    BY <1>6 DEF ConsumeResults, NextLaunch
  <2> QED BY <2>1, <1>1
<1>7. CASE \E some \in BOOLEAN : Observe(some)
  <2>1. /\ observed' = [s \in 1 .. MaxSessions |->
                            IF s \notin Sessions THEN "unseen"
                            ELSE IF Alive(s) THEN "alive" ELSE "dead"]
        /\ UNCHANGED session
    BY <1>7 DEF Observe
  <2> QED BY <1>0, <2>1 DEF Watched, Sessions, Alive
<1>8. CASE Promote \/ PrepareFails
  <2>1. UNCHANGED <<observed, session>> /\ at = "prepare"
    BY <1>8 DEF Promote, PrepareFails
  <2> QED BY <2>1, <1>1
<1>9. CASE Deliver
  <2>1. at' = "idle" /\ UNCHANGED observed
    BY <1>9 DEF Deliver, Back
  <2>2. CASE answer = NoAction
    BY <1>9, <2>1, <2>2, <1>1 DEF Deliver
  <2>3. CASE answer # NoAction
    <3>1. /\ Len(session) < MaxSessions
          /\ session' = Append(session, [card |-> answer.card, does |-> answer.does])
      BY <1>9, <2>3 DEF Deliver
    <3>2. /\ DOMAIN session' = 1 .. Len(session) + 1 /\ Len(session') = Len(session) + 1
          /\ \A t \in Sessions : session'[t] = session[t]
      BY <1>0, <2>3, <3>1, AddedSession
    <3>3. Len(session') <= MaxSessions
      BY <1>0, <3>1, <3>2
    <3> QED BY <1>0, <2>1, <3>2, <3>3 DEF Watched, Sessions, Alive
  <2> QED BY <2>2, <2>3
<1>10. CASE LaunchFails \/ AnswerLost
  <2>1. UNCHANGED <<observed, session>> /\ at' = "idle"
    BY <1>10 DEF LaunchFails, AnswerLost, Back
  <2> QED BY <2>1, <1>1
<1>11. CASE HostCrash
  <2>1. at' = "idle" /\ UNCHANGED observed
    BY <1>11 DEF HostCrash
  <2>2. /\ session' \in Seq(Session) /\ DOMAIN session' = DOMAIN session
        /\ \A t \in Sessions : session'[t].does = "over"
    BY <1>11, EndedSessions DEF HostCrash
  <2>3. Len(session') = Len(session)
    BY <1>0, <2>2 DEF Sessions
  <2>4. \A t \in Sessions : Alive(t)' => Alive(t)
    BY <2>2 DEF Alive, Sessions
  <2> QED BY <2>1, <2>2, <2>3, <2>4, WatchedStays
<1>12. CASE Restart
  <2>1. UNCHANGED <<observed, session>> /\ at' = "idle"
    BY <1>12, Zenon DEF Restart
  <2> QED BY <2>1, <1>1
<1>13. CASE UNCHANGED kvars
  BY <1>13, <1>1 DEF kvars
<1> QED
  BY <1>3, <1>4, <1>5, <1>6, <1>7, <1>8, <1>9, <1>10, <1>11, <1>12, <1>13
  DEF KanbanNext, Verbs, DriverStep, Host

\* Who takes and gives slots.
LEMMA LeaseSteps ==
    ASSUME [KanbanNext]_kvars, leases' # leases
    PROVE  Promote \/ Restart \/ \E worktree \in BOOLEAN : NextLaunch(worktree)
<1> USE DEF files, memory, step, host, budgets, history, Verb
<1>1. ~\E d \in Card : \/ Enqueue(d) \/ MergeRequest(d) \/ MergeCancel(d) \/ ClearStale(d)
                       \/ \E st \in Spoken : SetState(d, st)
  BY DEF Enqueue, MergeRequest, MergeCancel, ClearStale, SetState
<1>2. ~\E s \in Sessions : \/ FinishMerge(s) \/ Close(s)
                           \/ \E st \in Outcomes : RecordMerge(s, st)
  BY DEF FinishMerge, Close, RecordMerge
<1>3. ~ConsumeResults /\ ~(\E some \in BOOLEAN : Observe(some)) /\ ~PrepareFails
  BY DEF ConsumeResults, Observe, PrepareFails
<1>4. ~Deliver /\ ~LaunchFails /\ ~AnswerLost /\ ~HostCrash
  BY DEF Deliver, LaunchFails, AnswerLost, HostCrash
<1>5. ~UNCHANGED kvars
  BY DEF kvars
<1> QED BY <1>1, <1>2, <1>3, <1>4, <1>5 DEF KanbanNext, Verbs, DriverStep, Host

\* What a step of the second half does to the leases: it keeps those of the live.
LEMMA ReconciledLeases ==
    ASSUME NEW worktree \in BOOLEAN, NextLaunch(worktree), leases \subseteq Card
    PROVE  /\ leases' \subseteq Card
           /\ \A c \in leases \ leases' : at = "launch" /\ ~Live(c)
<1>1. CASE ~room
  BY <1>1 DEF NextLaunch
<1>2. CASE room
  <2>1. at = "launch"
    BY DEF NextLaunch
  <2>2. PICK l \in SUBSET Card :
            /\ Reconciled(leases, l)
            /\ leases' = l \/ \E c \in Startable : leases' = l \cup {c}
    BY <1>2, Zenon DEF NextLaunch
  <2>3. leases \cap {c \in Card : Live(c)} \subseteq l
    BY <2>2 DEF Reconciled
  <2> QED BY <2>1, <2>2, <2>3 DEF Startable
<1> QED BY <1>1, <1>2

\* Slots are the slots of cards.
LEMMA LeasesAreInductive ==
    ASSUME Shape, leases \subseteq Card, [KanbanNext]_kvars
    PROVE  leases' \subseteq Card
<1>1. CASE leases' = leases
  BY <1>1
<1>2. CASE Promote
  <2>1. Head(rest) \in Card
    BY <1>2 DEF Promote, Shape
  <2>2. leases' = leases \/ leases' = leases \cup {Head(rest)}
    BY <1>2 DEF Promote
  <2> QED BY <2>1, <2>2
<1>3. CASE Restart
  BY <1>3, Zenon DEF Restart
<1>4. CASE \E worktree \in BOOLEAN : NextLaunch(worktree)
  BY <1>4, ReconciledLeases
<1> QED BY <1>1, <1>2, <1>3, <1>4, LeaseSteps

\* While the plugin lives, a slot is given away only when leases are reconciled,
\* after the sessions were looked at.
LEMMA SlotsAreKept ==
    ASSUME Shape, Served, Watched, leases \subseteq Card, [KanbanNext]_kvars, life' = life,
           NEW c \in leases \ leases', thread[c] # None
    PROVE  ~Alive(thread[c])
<1>1. ~Promote /\ ~Restart
  <2>1. Restart => life' = life + 1
    BY Zenon DEF Restart
  <2>2. Promote => leases \subseteq leases'
    BY DEF Promote
  <2> QED BY <2>1, <2>2 DEF Shape
<1>2. at = "launch" /\ ~Live(c)
  BY <1>1, LeaseSteps, ReconciledLeases
<1>3. thread[c] \in Sessions /\ Sessions \subseteq 1 .. MaxSessions
  BY DEF Served, Watched, Sessions, Shape
<1>4. observed[thread[c]] \in {"alive", "dead"}
  BY <1>2, <1>3 DEF Watched
<1> QED BY <1>2, <1>3, <1>4 DEF Live, Watched

\* A card's slot is not given away while its session is alive, whatever state the
\* card is in, and whoever closes sessions or writes states (service.rs,
\* reconcile_leases_locked).
THEOREM SlotFollowsSessionCorrect == KanbanSpec => SlotFollowsSession
<1> DEFINE Slots == Ids /\ Served /\ Watched /\ leases \subseteq Card
<1>1. KanbanInit => Slots
  <2>1. KanbanInit => Ids /\ Served /\ leases \subseteq Card
    BY DEF KanbanInit, Ids, Served, NoResult
  <2>2. KanbanInit => Watched
    BY DEF KanbanInit, Watched, Sessions
  <2> QED BY <2>1, <2>2
<1>2. Shape /\ Slots /\ [KanbanNext]_kvars => Slots'
  BY IdsAreInductive, WatchedIsInductive, LeasesAreInductive
<1>3. Shape /\ Slots /\ [KanbanNext]_kvars =>
        [life' = life =>
            \A c \in leases \ leases' : thread[c] # None => ~Alive(thread[c])]_kvars
  BY SlotsAreKept
<1> HIDE DEF Slots
<1> QED BY <1>1, <1>2, <1>3, ShapeCorrect, PTL DEF KanbanSpec, SlotFollowsSession
=============================================================================
