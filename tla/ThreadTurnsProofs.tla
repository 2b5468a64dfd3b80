------------------------- MODULE ThreadTurnsProofs -------------------------
(***************************************************************************)
(* What a conversation guarantees for every number of turns, every set of  *)
(* interjections, commands and mishaps, and every order of the channels.   *)
(***************************************************************************)
EXTENDS ThreadTurns, TLAPS, FiniteSetTheorems, WellFoundedInduction

-----------------------------------------------------------------------------
(* Types.                                                                  *)

RunPlaces == {"none", "top", "compacted", "thinking", "ending", "acting", "asking", "tools"}

RunStates == [at : RunPlaces, thinks : Nat, cancelled : BOOLEAN, confirms : Int,
              granted : SUBSET Nat, deaf : BOOLEAN]

Happenings == [kind : {"Folded", "Returned"}, of : Interjections]
                \cup [kind : {"Ask"}, of : Nat]

Answers == [ask : Nat, allow : BOOLEAN]

Transcripts == Seq(MessageKinds)

AgentTypes ==
    /\ session \in Transcripts /\ run \in RunStates
    /\ inbox \in Seq(Interjections) /\ stream \in Seq(Happenings)
    /\ decisions \in Seq(Answers) /\ asked \in Nat /\ spoiled \in BOOLEAN

TurnIds == {NoTurn} \cup Turns

Records == [turn : TurnIds, messages : Transcripts]

Drivers == [at : {"idle", "turn", "approval", "sending", "leaving", "settled", "gone"},
            turn : TurnIds, cancelSent : BOOLEAN, pendingCmd : Commands \cup {NoCommand},
            ask : Nat, answer : {"none", "allow", "deny"}]

Olds == [at : {"none", "queued", "turn", "settled"}, turn : TurnIds, messages : Transcripts]

Mains == [at : {"free", "awaiting", "resuming", "cold"}, active : TurnIds]

Remarks == [of : Interjections, turn : TurnIds]

DriverTypes ==
    /\ main \in Mains
    /\ issued \in Nat /\ issued <= MaxTurns
    /\ prompts \in Seq(Turns) /\ finished \in Seq(TurnIds)
    /\ interjects \in Seq(Remarks)
    /\ command \in Commands \cup {NoCommand}
    /\ driver \in Drivers
    /\ connected \in BOOLEAN /\ old \in Olds /\ behind \in BOOLEAN
    /\ log \in Seq(Records) /\ partial \in Records
    /\ fate \in [Interjections -> Fates]
    /\ started \subseteq Turns /\ lost \subseteq TurnIds /\ outlived \subseteq TurnIds
    /\ old.at = "queued" => old.turn \in Turns

ThreadTypes == AgentTypes /\ DriverTypes

\* What a channel or a log holds after one more, and after one less.
LEMMA QueueTypes ==
    ASSUME NEW T, NEW s \in Seq(T)
    PROVE  /\ \A e \in T : Append(s, e) \in Seq(T)
           /\ s # <<>> => Tail(s) \in Seq(T) /\ Head(s) \in T
OBVIOUS

\* What is in a channel or a log, as a set.
LEMMA Contents ==
    ASSUME NEW T, NEW s \in Seq(T)
    PROVE  /\ ToSet(s) \subseteq T
           /\ \A e \in T : ToSet(Append(s, e)) = ToSet(s) \cup {e}
           /\ s # <<>> => ToSet(s) = {Head(s)} \cup ToSet(Tail(s))
           /\ \A c \in Seq(T) : ToSet(s \o c) = ToSet(s) \cup ToSet(c)
<1>1. ASSUME NEW e \in T PROVE ToSet(Append(s, e)) = ToSet(s) \cup {e}
  <2>1. /\ DOMAIN Append(s, e) = 1 .. (Len(s) + 1) /\ DOMAIN s = 1 .. Len(s) /\ Len(s) \in Nat
        /\ Append(s, e)[Len(s) + 1] = e /\ \A k \in 1 .. Len(s) : Append(s, e)[k] = s[k]
    OBVIOUS
  <2> QED BY <2>1 DEF ToSet
<1>2. ASSUME s # <<>> PROVE ToSet(s) = {Head(s)} \cup ToSet(Tail(s))
  <2>1. /\ DOMAIN s = 1 .. Len(s) /\ Len(s) \in Nat \ {0} /\ Head(s) = s[1]
        /\ DOMAIN Tail(s) = 1 .. (Len(s) - 1)
        /\ \A k \in 1 .. (Len(s) - 1) : Tail(s)[k] = s[k + 1]
    BY <1>2
  <2>2. \A k \in 2 .. Len(s) : k - 1 \in DOMAIN Tail(s) /\ Tail(s)[k - 1] = s[k]
    BY <2>1
  <2>3. ToSet(s) \subseteq {Head(s)} \cup ToSet(Tail(s))
    <3>1. \A k \in DOMAIN s : k = 1 \/ (k - 1 \in DOMAIN Tail(s) /\ Tail(s)[k - 1] = s[k])
        BY <2>1, <2>2
    <3> QED BY <2>1, <3>1 DEF ToSet
  <2>4. {Head(s)} \cup ToSet(Tail(s)) \subseteq ToSet(s)
    <3>1. \A k \in DOMAIN Tail(s) : k + 1 \in DOMAIN s /\ Tail(s)[k] = s[k + 1]
        BY <2>1
    <3>2. 1 \in DOMAIN s
        BY <2>1
    <3> QED BY <2>1, <3>1, <3>2 DEF ToSet
  <2> QED BY <2>3, <2>4
<1>3. ASSUME NEW c \in Seq(T) PROVE ToSet(s \o c) = ToSet(s) \cup ToSet(c)
  <2>1. /\ DOMAIN s = 1 .. Len(s) /\ DOMAIN c = 1 .. Len(c) /\ Len(s) \in Nat /\ Len(c) \in Nat
        /\ DOMAIN (s \o c) = 1 .. (Len(s) + Len(c))
        /\ \A k \in 1 .. Len(s) : (s \o c)[k] = s[k]
        /\ \A k \in Len(s) + 1 .. Len(s) + Len(c) : (s \o c)[k] = c[k - Len(s)]
    OBVIOUS
  <2>2. \A k \in 1 .. Len(c) : (s \o c)[Len(s) + k] = c[k]
    BY <2>1
  <2>3. ToSet(s) \cup ToSet(c) \subseteq ToSet(s \o c)
    <3>1. \A k \in DOMAIN s : k \in DOMAIN (s \o c) /\ (s \o c)[k] = s[k]
        BY <2>1
    <3>2. \A k \in DOMAIN c : Len(s) + k \in DOMAIN (s \o c) /\ (s \o c)[Len(s) + k] = c[k]
        BY <2>1, <2>2
    <3> QED BY <3>1, <3>2 DEF ToSet
  <2>4. ToSet(s \o c) \subseteq ToSet(s) \cup ToSet(c)
    BY <2>1 DEF ToSet
  <2> QED BY <2>3, <2>4
<1>4. ToSet(s) \subseteq T
    BY DEF ToSet
<1> QED BY <1>1, <1>2, <1>3, <1>4

\* An empty channel holds nothing.
LEMMA NoContents == ToSet(<<>>) = {}
BY DEF ToSet

\* A compacted transcript is one: what the user said, a summary, tool units.
LEMMA CompactionFacts ==
    ASSUME NEW s, NEW c \in Compactions(s)
    PROVE  /\ c \in Transcripts /\ Paired(c) /\ c # <<>> /\ c[1] = "user"
           /\ Contains(s, "user")
<1>1. PICK n \in 0 .. Cardinality(ToolUnits(s)) : c = <<"user", "text">> \o Units(n)
    BY DEF Compactions
<1>2. n \in Nat
    OBVIOUS
<1>3. Units(n) \in Seq(MessageKinds) /\ Len(Units(n)) = 2 * n
    BY <1>2 DEF Units, MessageKinds
<1>4. c \in Transcripts /\ c # <<>> /\ c[1] = "user"
    BY <1>1, <1>3 DEF Transcripts, MessageKinds
<1>5. Paired(c)
    BY <1>1, <1>2 DEF Paired, Units
<1> QED BY <1>4, <1>5 DEF Compactions

-----------------------------------------------------------------------------
(* The transcript a resume would read.                                     *)

\* read_log of the log l.
Latest(l) ==
    LET full == {k \in DOMAIN l : l[k].messages # <<>>}
    IN  IF full = {} THEN <<>> ELSE l[CHOOSE k \in full : \A j \in full : j <= k].messages

\* A nonempty set of positions has a last one.
LEMMA LastPosition ==
    ASSUME NEW n \in Nat, NEW S \in SUBSET (1 .. n), S # {}
    PROVE  \E k \in S : \A j \in S : j <= k
<1> DEFINE Less == {ss \in Nat \X Nat : ss[1] < ss[2]}
           D    == {n - k : k \in S}
<1>1. OpToRel(<, Nat) = Less
    BY Zenon DEF OpToRel
<1>2. IsWellFoundedOn(Less, Nat)
    BY <1>1, NatLessThanWellFounded, Zenon
<1>3. ASSUME NEW d \in Nat, NEW e \in Nat, e < d PROVE <<e, d>> \in Less
  <2>1. <<e, d>> \in Nat \X Nat /\ <<e, d>>[1] = e /\ <<e, d>>[2] = d
    OBVIOUS
  <2> QED BY <1>3, <2>1
<1> HIDE DEF Less
<1>4. \A k \in S : n - k \in Nat
    OBVIOUS
<1>5. \A k \in S : n - k \in D
    OBVIOUS
<1>6. \A d \in D : \E k \in S : d = n - k
    OBVIOUS
<1> HIDE DEF D
<1>7. D \in SUBSET Nat /\ D # {}
    BY <1>4, <1>5, <1>6
<1>8. PICK d \in D : \A e \in D : <<e, d>> \notin Less
    BY <1>2, <1>7, WFMin, Zenon
<1>9. PICK k \in S : d = n - k
    BY <1>6
<1>10. ASSUME NEW j \in S PROVE j <= k
  <2>1. n - j \in D /\ n - j \in Nat /\ d \in Nat
    BY <1>5, <1>7
  <2>2. ~ (n - j < d)
    BY <1>3, <1>8, <2>1
  <2>3. j \in Int /\ k \in Int
    OBVIOUS
  <2> QED BY <1>9, <2>1, <2>2, <2>3
<1> QED BY <1>10

\* The position that is chosen is the last.
Top(S) == CHOOSE k \in S : \A j \in S : j <= k

\* The chosen position is in the set, and no position of the set is behind it.
LEMMA TopFacts ==
    ASSUME NEW n \in Nat, NEW S \in SUBSET (1 .. n), S # {}
    PROVE  Top(S) \in S /\ \A j \in S : j <= Top(S)
BY LastPosition, Zenon DEF Top

\* The entries of a log that hold a transcript.
Full(l) == {k \in DOMAIN l : l[k].messages # <<>>}

\* read_log gives the last entry that holds a transcript.
LEMMA LatestIsTop ==
    ASSUME NEW l
    PROVE  Latest(l) = IF Full(l) = {} THEN <<>> ELSE l[Top(Full(l))].messages
BY DEF Latest, Full, Top

\* What read_log gives is empty or the transcript of an entry.
LEMMA LatestFacts ==
    ASSUME NEW l \in Seq(Records)
    PROVE  Latest(l) = <<>> \/ \E k \in DOMAIN l : Latest(l) = l[k].messages
<1>1. Full(l) \in SUBSET (1 .. Len(l)) /\ Len(l) \in Nat
    BY DEF Full
<1>2. Full(l) \subseteq DOMAIN l
    BY DEF Full
<1>3. CASE Full(l) # {}
    BY <1>1, <1>2, <1>3, TopFacts, LatestIsTop
<1>4. CASE Full(l) = {}
    BY <1>4, LatestIsTop
<1> QED BY <1>3, <1>4

\* What is appended is what is read, unless it is empty.
LEMMA LatestAppend ==
    ASSUME NEW l \in Seq(Records), NEW r \in Records
    PROVE  Latest(Append(l, r)) = IF r.messages # <<>> THEN r.messages ELSE Latest(l)
<1> DEFINE m == Append(l, r)
<1>1. /\ DOMAIN m = 1 .. (Len(l) + 1) /\ DOMAIN l = 1 .. Len(l) /\ Len(l) \in Nat
      /\ m[Len(l) + 1] = r /\ \A k \in 1 .. Len(l) : m[k] = l[k]
    OBVIOUS
<1>2. Full(m) \in SUBSET (1 .. (Len(l) + 1)) /\ Full(l) \in SUBSET (1 .. Len(l))
    BY <1>1 DEF Full
<1>3. CASE r.messages # <<>>
  <2>1. Len(l) + 1 \in Full(m)
    BY <1>1, <1>3 DEF Full
  <2>2. Top(Full(m)) \in Full(m) /\ \A j \in Full(m) : j <= Top(Full(m))
    <3>1. Full(m) # {} /\ Len(l) + 1 \in Nat
        BY <1>1, <2>1
    <3> HIDE DEF m
    <3> QED BY <1>2, <3>1, TopFacts
  <2>3. Top(Full(m)) \in 1 .. (Len(l) + 1) /\ Len(l) + 1 <= Top(Full(m))
    BY <1>2, <2>1, <2>2
  <2>4. Top(Full(m)) = Len(l) + 1
    BY <1>1, <2>3
  <2> QED BY <1>1, <1>3, <2>1, <2>4, LatestIsTop
<1>4. CASE r.messages = <<>>
  <2>1. Full(m) = Full(l)
    BY <1>1, <1>4 DEF Full
  <2>2. CASE Full(l) = {}
    BY <1>4, <2>1, <2>2, LatestIsTop
  <2>3. CASE Full(l) # {}
    <3>1. Top(Full(l)) \in 1 .. Len(l)
        BY <1>1, <1>2, <2>3, TopFacts
    <3>2. m[Top(Full(l))] = l[Top(Full(l))]
        BY <1>1, <3>1
    <3>3. Latest(m) = m[Top(Full(l))].messages /\ Latest(l) = l[Top(Full(l))].messages
        BY <2>1, <2>3, LatestIsTop
    <3> QED BY <1>4, <3>2, <3>3
  <2> QED BY <2>2, <2>3
<1> QED BY <1>3, <1>4

\* What read_log gives is a transcript.
LEMMA LatestType ==
    ASSUME NEW l \in Seq(Records)
    PROVE  Latest(l) \in Transcripts
<1>1. <<>> \in Transcripts
    BY DEF Transcripts
<1>2. \A k \in DOMAIN l : l[k] \in Records
    OBVIOUS
<1>3. \A r \in Records : r.messages \in Transcripts
    BY DEF Records
<1> QED BY <1>1, <1>2, <1>3, LatestFacts

\* load takes the checkpoint that is pending, and else what read_log gives.
LEMMA LoadedFacts ==
    /\ LastLogged = Latest(log)
    /\ Loaded = IF Pending /\ partial.messages # <<>> THEN partial.messages ELSE Latest(log)
BY DEF LastLogged, Latest, Loaded

-----------------------------------------------------------------------------
(* Every step keeps the types.                                             *)

\* What the run does, by itself or when the provider or a tool answers.
RunSteps == AgentSteps \/ WorldSteps \/ OddReplies \/ AutoCompact

\* Pieces the steps of the run are made of.
LEMMA TranscriptFacts ==
    /\ \A s \in Transcripts, m \in MessageKinds : Append(s, m) \in Transcripts
    /\ \A s \in Transcripts : Forkable(s) \in Transcripts
    /\ \A s, c \in Transcripts : s \o c \in Transcripts
    /\ \A n \in Nat : [k \in 1 .. n |-> "user"] \in Transcripts
    /\ <<>> \in Transcripts
<1>1. \A s \in Transcripts : s # <<>> => Front(s) \in Transcripts
    BY DEF Transcripts, Front
<1> QED BY <1>1 DEF Transcripts, Forkable, MessageKinds

\* Events that announce the inbox fit behind those of the stream.
LEMMA AnnouncedType ==
    ASSUME AgentTypes, NEW kind \in {"Folded", "Returned"}, Tell(Announced(kind))
    PROVE  stream' \in Seq(Happenings)
<1>1. Len(inbox) \in Nat /\ \A k \in 1 .. Len(inbox) : inbox[k] \in Interjections
    BY DEF AgentTypes
<1>2. \A k \in 1 .. Len(inbox) : Event(kind, inbox[k]) \in Happenings
    BY <1>1 DEF Event, Happenings
<1>3. Announced(kind) \in Seq(Happenings) /\ stream \in Seq(Happenings)
    BY <1>1, <1>2 DEF Announced, AgentTypes
<1>4. stream \o Announced(kind) \in Seq(Happenings)
    BY <1>3
<1> QED BY <1>3, <1>4 DEF Tell

\* A run that has returned is a state of a run.
LEMMA NoRunType == NoRun \in RunStates
BY DEF NoRun, RunStates, RunPlaces

\* flush_unconsumed keeps the types.
LEMMA EndRunTypes ==
    ASSUME AgentTypes, EndRun
    PROVE  run' \in RunStates /\ inbox' \in Seq(Interjections) /\ stream' \in Seq(Happenings)
BY NoRunType, AnnouncedType DEF EndRun

\* inject_pending keeps the types.
LEMMA InjectTypes ==
    ASSUME AgentTypes, NEW s \in Transcripts, Inject(s)
    PROVE  /\ session' \in Transcripts /\ inbox' \in Seq(Interjections)
           /\ stream' \in Seq(Happenings)
<1>1. [k \in 1 .. Len(inbox) |-> "user"] \in Transcripts
    BY TranscriptFacts DEF AgentTypes
<1>2. session' \in Transcripts
    BY <1>1, TranscriptFacts DEF Inject
<1>3. inbox' \in Seq(Interjections) /\ stream' \in Seq(Happenings)
    BY AnnouncedType DEF Inject
<1> QED BY <1>2, <1>3

\* What a step writes into the state of the run.
LEMMA RunEdits ==
    ASSUME NEW r \in RunStates
    PROVE  /\ \A p \in RunPlaces : [r EXCEPT !.at = p] \in RunStates
           /\ \A p \in RunPlaces : [r EXCEPT !.at = p, !.granted = {}] \in RunStates
           /\ \A p \in RunPlaces : [r EXCEPT !.at = p, !.thinks = @ + 1] \in RunStates
           /\ \A p \in RunPlaces, n \in Int : [r EXCEPT !.at = p, !.confirms = n] \in RunStates
           /\ [r EXCEPT !.cancelled = TRUE] \in RunStates
           /\ \A g \in SUBSET Nat :
                [r EXCEPT !.at = "acting", !.confirms = @ - 1, !.granted = @ \cup g] \in RunStates
           /\ [r EXCEPT !.deaf = TRUE] \in RunStates
<1>1. /\ r.at \in RunPlaces /\ r.thinks \in Nat /\ r.cancelled \in BOOLEAN
      /\ r.confirms \in Int /\ r.granted \in SUBSET Nat /\ r.deaf \in BOOLEAN
    BY DEF RunStates
<1>2. ASSUME NEW p \in RunPlaces, NEW n \in Int
      PROVE  [r EXCEPT !.at = p, !.confirms = n] \in RunStates
    BY <1>1 DEF RunStates
<1>3. ASSUME NEW g \in SUBSET Nat
      PROVE  [r EXCEPT !.at = "acting", !.confirms = @ - 1, !.granted = @ \cup g] \in RunStates
  <2>1. r.confirms - 1 \in Int
    BY <1>1
  <2>2. r.granted \cup g \in SUBSET Nat
    BY <1>1, Zenon
  <2>3. "acting" \in RunPlaces
    BY DEF RunPlaces
  <2>4. ASSUME NEW c \in Int, NEW h \in SUBSET Nat
        PROVE  [r EXCEPT !.at = "acting", !.confirms = c, !.granted = h] \in RunStates
    BY <1>1, <2>3 DEF RunStates
  <2> QED BY <2>1, <2>2, <2>4
<1>4. ASSUME NEW p \in RunPlaces
      PROVE  /\ [r EXCEPT !.at = p] \in RunStates
             /\ [r EXCEPT !.at = p, !.granted = {}] \in RunStates
             /\ [r EXCEPT !.at = p, !.thinks = @ + 1] \in RunStates
  <2>1. [r EXCEPT !.at = p] \in RunStates
    BY <1>1 DEF RunStates
  <2>2. [r EXCEPT !.at = p, !.granted = {}] \in RunStates
    BY <1>1 DEF RunStates
  <2>3. r.thinks + 1 \in Nat
    BY <1>1
  <2>4. [r EXCEPT !.at = p, !.thinks = @ + 1] \in RunStates
    BY <1>1, <2>3 DEF RunStates
  <2> QED BY <2>1, <2>2, <2>4
<1>5. [r EXCEPT !.cancelled = TRUE] \in RunStates
  <2>1. TRUE \in BOOLEAN
    OBVIOUS
  <2> QED BY <1>1, <2>1, Zenon DEF RunStates
<1>6. [r EXCEPT !.deaf = TRUE] \in RunStates
  <2>1. TRUE \in BOOLEAN
    OBVIOUS
  <2> QED BY <1>1, <2>1, Zenon DEF RunStates
<1> QED BY <1>2, <1>3, <1>4, <1>5, <1>6

\* Every step of the run loop keeps the types of the conversation.
LEMMA RunKeepsTypes ==
    ASSUME AgentTypes, RunSteps
    PROVE  AgentTypes'
<1> USE NoRunType, TranscriptFacts
<1>1. CASE StopAtTop
    BY <1>1, EndRunTypes DEF StopAtTop, AbortRun, AgentTypes
<1>2. CASE BeginThink
  <2>1. CASE run.thinks = MaxThinks
    BY <1>2, <2>1, EndRunTypes DEF BeginThink, AgentTypes
  <2>2. CASE run.thinks # MaxThinks
    <3>1. run' \in RunStates
        BY <1>2, <2>2, RunEdits DEF BeginThink, AgentTypes, RunPlaces
    <3>2. session \in Transcripts /\ Inject(session)
        BY <1>2, <2>2 DEF BeginThink, AgentTypes
    <3> QED BY <1>2, <3>1, <3>2, InjectTypes DEF BeginThink, AgentTypes
  <2> QED BY <2>1, <2>2
<1>3. CASE StopThinking
    BY <1>3, EndRunTypes DEF StopThinking, AbortRun, AgentTypes
<1>4. CASE EndTurn
    BY <1>4, EndRunTypes DEF EndTurn, AgentTypes
<1>5. CASE AskUser
  <2>1. asked' \in Nat /\ Event("Ask", asked + 1) \in Happenings
    BY <1>5 DEF AskUser, AgentTypes, Event, Happenings
  <2>2. run' \in RunStates
    BY <1>5 DEF AskUser, AgentTypes, RunStates, RunPlaces
  <2>3. stream \o <<Event("Ask", asked + 1)>> \in Seq(Happenings)
    BY <2>1 DEF AgentTypes
  <2>4. stream' \in Seq(Happenings)
    BY <1>5, <2>3 DEF AskUser, Tell, AgentTypes
  <2> QED BY <1>5, <2>1, <2>2, <2>4 DEF AskUser, AgentTypes
<1>6. CASE TakeDecision
  <2>1. {asked} \in SUBSET Nat /\ {} \in SUBSET Nat /\ run \in RunStates
    BY DEF AgentTypes
  <2>2. Resolved({asked}) \in RunStates /\ Resolved({}) \in RunStates
    BY <2>1, RunEdits DEF Resolved
  <2> QED BY <1>6, <2>2 DEF TakeDecision, AgentTypes
<1>7. CASE StopAsking
  <2>1. {} \in SUBSET Nat /\ run \in RunStates
    BY DEF AgentTypes
  <2>2. Resolved({}) \in RunStates
    BY <2>1, RunEdits DEF Resolved
  <2> QED BY <1>7, <2>2 DEF StopAsking, AgentTypes
<1>8. CASE RunTools
    BY <1>8, RunEdits DEF RunTools, AgentTypes, RunPlaces
<1>9. CASE StopTools
    BY <1>9, EndRunTypes DEF StopTools, AbortRun, AgentTypes
<1>10. CASE ReplyText
  <2>1. Append(session, "text") \in Transcripts /\ Inject(Append(session, "text"))
    BY <1>10 DEF ReplyText, AgentTypes, MessageKinds
  <2>2. run' \in RunStates
    BY <1>10, RunEdits DEF ReplyText, AgentTypes, RunPlaces
  <2> QED BY <1>10, <2>1, <2>2, InjectTypes DEF ReplyText, AgentTypes
<1>11. CASE ReplyCalls
  <2>1. run' \in RunStates
    <3>1. PICK n \in 0 .. MaxConfirms - asked :
                run' = [run EXCEPT !.at = "acting", !.confirms = n]
        BY <1>11 DEF ReplyCalls
    <3>2. n \in Int /\ run \in RunStates /\ "acting" \in RunPlaces
        BY LimitAssumption DEF AgentTypes, RunPlaces
    <3> QED BY <3>1, <3>2, RunEdits
  <2> QED BY <1>11, <2>1 DEF ReplyCalls, AgentTypes, MessageKinds
<1>12. CASE Observe
  <2>1. run' \in RunStates
    BY <1>12, RunEdits DEF Observe, AgentTypes, RunPlaces
  <2>2. session' \in Transcripts /\ spoiled' \in BOOLEAN
    BY <1>12 DEF Observe, AgentTypes, MessageKinds
  <2> QED BY <1>12, <2>1, <2>2 DEF Observe, AgentTypes
<1>13. CASE ThinkFails
    BY <1>13 DEF ThinkFails, AgentTypes
<1>14. CASE ThinkGivesUp
    BY <1>14, EndRunTypes DEF ThinkGivesUp, AgentTypes
<1>15. CASE ReplyTruncated
  <2>1. \A reply \in Partial : <<reply, "user">> \in Transcripts
    BY DEF Partial, Transcripts, MessageKinds
  <2> QED BY <1>15, <2>1 DEF ReplyTruncated, AgentTypes, RunStates, RunPlaces
<1>16. CASE ReplyStopped
    BY <1>16, EndRunTypes DEF ReplyStopped, AgentTypes, Partial, MessageKinds
<1>17. CASE AutoCompact
    BY <1>17, CompactionFacts DEF AutoCompact, AgentTypes, RunStates, RunPlaces
<1> QED
    BY <1>1, <1>2, <1>3, <1>4, <1>5, <1>6, <1>7, <1>8, <1>9, <1>10, <1>11, <1>12, <1>13,
       <1>14, <1>15, <1>16, <1>17 DEF RunSteps, AgentSteps, WorldSteps, OddReplies

\* Records, checkpoints and a new driver have their types.
LEMMA RecordTypes ==
    /\ \A t \in TurnIds, m \in Transcripts : Record(t, m) \in Records
    /\ NoPartial \in Records /\ NewDriver \in Drivers /\ NoTurn \in TurnIds
    /\ Turns \subseteq TurnIds /\ NoOld \in Olds
BY DEF NoOld, Olds, Record, Records, NoPartial, Transcripts, NewDriver, Drivers, TurnIds

\* What a step writes into the state of the main loop.
LEMMA MainEdits ==
    ASSUME NEW m \in Mains
    PROVE  /\ \A t \in TurnIds : [m EXCEPT !.active = t] \in Mains
           /\ \A p \in {"free", "awaiting", "resuming", "cold"} : [m EXCEPT !.at = p] \in Mains
           /\ m.active \in TurnIds
BY DEF Mains

\* What a step writes into the state of a driver that was replaced.
LEMMA OldEdits ==
    ASSUME NEW o \in Olds
    PROVE  /\ \A p \in {"none", "queued", "turn", "settled"} : [o EXCEPT !.at = p] \in Olds
           /\ \A m \in Transcripts : [o EXCEPT !.at = "turn", !.messages = m] \in Olds
           /\ o.turn \in TurnIds /\ o.messages \in Transcripts
BY DEF Olds

\* A driver that is replaced is left with a turn or with none.
LEMMA LeftType ==
    ASSUME ThreadTypes
    PROVE  /\ Left \in Olds /\ Left.turn \in TurnIds
           /\ Left.at = "queued" => Left.turn \in Turns
<1>1. driver.turn \in TurnIds /\ NextPrompt \in TurnIds /\ session \in Transcripts
    BY RecordTypes DEF ThreadTypes, DriverTypes, AgentTypes, Drivers, NextPrompt
<1>2. prompts # <<>> => Head(prompts) \in TurnIds
    BY RecordTypes DEF ThreadTypes, DriverTypes
<1>3. \A p \in {"none", "queued", "turn", "settled"}, t \in TurnIds : Old(p, t) \in Olds
    BY <1>1 DEF Old, Olds
<1>4. [NoOld EXCEPT !.at = "settled"] \in Olds
    BY RecordTypes, OldEdits
<1>5. Left \in Olds
    BY <1>1, <1>2, <1>3, <1>4, RecordTypes DEF Left
<1>6. Left.at = "queued" => Left.turn \in Turns
  <2>1. \A p, t : Old(p, t).at = p /\ Old(p, t).turn = t
    BY DEF Old
  <2>2. prompts # <<>> => Head(prompts) \in Turns
    BY DEF ThreadTypes, DriverTypes
  <2> QED BY <2>1, <2>2 DEF Left, NoOld
<1> QED BY <1>5, <1>6, OldEdits

\* A resume reads a transcript.
LEMMA LoadedType ==
    ASSUME ThreadTypes
    PROVE  Loaded \in Transcripts
<1>1. partial.messages \in Transcripts
    BY DEF ThreadTypes, DriverTypes, Records
<1>2. Latest(log) \in Transcripts
    BY LatestType DEF ThreadTypes, DriverTypes
<1> QED BY <1>1, <1>2, LoadedFacts

\* A session command leaves a transcript and a log.
LEMMA ApplyTypes ==
    ASSUME ThreadTypes, NEW c, Apply(c)
    PROVE  session' \in Transcripts /\ log' \in Seq(Records)
<1>1. session \in Transcripts /\ log \in Seq(Records)
    BY DEF ThreadTypes, AgentTypes, DriverTypes
<1>2. session' \in Transcripts
    BY <1>1, CompactionFacts, TranscriptFacts DEF Apply
<1>3. Record(NoTurn, <<>>) \in Records /\ Record(NoTurn, session') \in Records
    BY <1>2, RecordTypes, TranscriptFacts
<1>4. log' \in Seq(Records)
    BY <1>1, <1>3 DEF Apply
<1> QED BY <1>2, <1>4

\* A thread without agent and driver has its types.
LEMMA FreshTypes ==
    ASSUME ThreadTypes, FreshAgent
    PROVE  /\ run' \in RunStates /\ inbox' \in Seq(Interjections)
           /\ stream' \in Seq(Happenings) /\ decisions' \in Seq(Answers) /\ asked' \in Nat
           /\ prompts' \in Seq(Turns) /\ interjects' \in Seq(Remarks)
           /\ command' \in Commands \cup {NoCommand}
BY NoRunType DEF FreshAgent, ThreadTypes, AgentTypes

\* Every request the main loop serves keeps the types, and so do a client that leaves
\* and a death of the process.
LEMMA MainKeepsTypes ==
    ASSUME ThreadTypes, MainSteps \/ Disconnect \/ Crash
    PROVE  ThreadTypes'
<1> USE RecordTypes DEF ThreadTypes
<1>1. CASE TurnStart
  <2>1. issued + 1 \in Turns
    BY <1>1, BoundAssumption DEF TurnStart, DriverTypes, Turns
  <2>2. main' \in Mains /\ prompts' \in Seq(Turns)
    <3>1. prompts \in Seq(Turns) /\ main \in Mains /\ issued + 1 \in TurnIds
        BY <2>1 DEF DriverTypes, TurnIds
    <3>2. Append(prompts, issued + 1) \in Seq(Turns)
        BY <2>1, <3>1, QueueTypes
    <3>3. [main EXCEPT !.active = issued + 1] \in Mains
        BY <3>1, MainEdits
    <3> QED BY <1>1, <3>1, <3>2, <3>3 DEF TurnStart
  <2>3. issued' \in Nat /\ issued' <= MaxTurns
    BY <1>1, BoundAssumption DEF TurnStart, DriverTypes
  <2> QED BY <1>1, <2>2, <2>3 DEF TurnStart, agentVars, disk, history, DriverTypes, AgentTypes
<1>2. CASE TurnInterrupt
    BY <1>2, MainEdits DEF TurnInterrupt, agentVars, disk, history, DriverTypes, AgentTypes
<1>3. CASE HandleFinished
  <2>1. main' \in Mains
    BY <1>3, MainEdits DEF HandleFinished, DriverTypes
  <2>2. finished' \in Seq(TurnIds)
    BY <1>3, QueueTypes DEF HandleFinished, DriverTypes
  <2> QED BY <1>3, <2>1, <2>2 DEF HandleFinished, agentVars, disk, history, DriverTypes, AgentTypes
<1>4. CASE ThreadResume
    BY <1>4, MainEdits DEF ThreadResume, agentVars, disk, history, DriverTypes, AgentTypes
<1>5. CASE Reload
  <2>1. AgentTypes'
    BY <1>5, LoadedType, FreshTypes DEF Reload, AgentTypes
  <2>2. log' \in Seq(Records) /\ partial' \in Records
    <3>1. Promote
        BY <1>5 DEF Reload
    <3>2. log \in Seq(Records) /\ partial \in Records
        BY DEF DriverTypes
    <3> QED BY <3>1, <3>2, QueueTypes DEF Promote, disk
  <2>3. main' \in Mains
    <3>1. [at |-> "free", active |-> NoTurn] \in Mains
        BY RecordTypes DEF Mains
    <3> QED BY <1>5, <3>1 DEF Reload
  <2>4. old' \in Olds /\ outlived' \subseteq TurnIds /\ (old'.at = "queued" => old'.turn \in Turns)
    BY <1>5, LeftType DEF Reload, DriverTypes
  <2>5. /\ prompts' \in Seq(Turns) /\ interjects' \in Seq(Remarks)
        /\ command' \in Commands \cup {NoCommand}
    BY <1>5, FreshTypes DEF Reload
  <2>6. driver' \in Drivers /\ connected' \in BOOLEAN /\ behind' \in BOOLEAN
    BY <1>5, RecordTypes DEF Reload
  <2>7. UNCHANGED <<issued, finished, fate, started, lost>>
    BY <1>5 DEF Reload
  <2>8. DriverTypes'
    BY <2>2, <2>3, <2>4, <2>5, <2>6, <2>7 DEF DriverTypes
  <2> QED BY <2>1, <2>8
<1>6. ASSUME NEW i \in Interjections, TurnInterject(i) PROVE ThreadTypes'
  <2>1. [of |-> i, turn |-> main.active] \in Remarks
    BY MainEdits DEF DriverTypes, Remarks
  <2> QED BY <1>6, <2>1 DEF TurnInterject, agentVars, disk, history, DriverTypes, AgentTypes, Fates
<1>7. ASSUME NEW c \in Commands, SendCommand(c) PROVE ThreadTypes'
    BY <1>7, MainEdits DEF SendCommand, agentVars, disk, history, DriverTypes, AgentTypes
<1>8. ASSUME NEW allow \in BOOLEAN, Answer(allow) PROVE ThreadTypes'
    BY <1>8 DEF Answer, agentVars, channels, disk, DriverTypes, AgentTypes, Drivers
<1>9. CASE ResumeFails
    BY <1>9, MainEdits DEF ResumeFails, agentVars, channels, disk, history, DriverTypes, AgentTypes
<1>10. CASE Disconnect
    BY <1>10 DEF Disconnect, agentVars, channels, disk, history, DriverTypes, AgentTypes
<1>11. CASE Crash
  <2>1. AgentTypes'
    BY <1>11, FreshTypes, TranscriptFacts DEF Crash, AgentTypes
  <2>2. driver' \in Drivers
    BY <1>11 DEF Crash, Drivers
  <2>3. main' \in Mains
    BY <1>11 DEF Crash, Mains
  <2>4. finished' \in Seq(TurnIds)
    BY <1>11 DEF Crash
  <2>6. old' \in Olds /\ old'.at # "queued"
    BY <1>11, RecordTypes DEF Crash, NoOld
  <2>5. UNCHANGED <<issued, connected, disk, history>>
    BY <1>11 DEF Crash
  <2> QED BY <1>11, <2>1, <2>2, <2>3, <2>4, <2>5, <2>6, FreshTypes
          DEF Crash, DriverTypes, disk, history
<1> QED
    BY <1>1, <1>2, <1>3, <1>4, <1>5, <1>6, <1>7, <1>8, <1>9, <1>10, <1>11 DEF MainSteps

\* Every branch of run_thread_driver keeps the types.
LEMMA DriverKeepsTypes ==
    ASSUME ThreadTypes, DriverSteps
    PROVE  ThreadTypes'
<1> USE RecordTypes DEF ThreadTypes
<1>1. CASE DriverCommand
  <2>1. main' \in Mains
    BY <1>1, MainEdits DEF DriverCommand, DriverTypes
  <2>2. partial' \in Records /\ lost' \subseteq TurnIds
    <3>1. partial.turn \in TurnIds /\ lost \subseteq TurnIds
        BY DEF DriverTypes, Records
    <3>2. \A k \in DOMAIN log : log[k].turn \in TurnIds
      <4>1. \A k \in DOMAIN log : log[k] \in Records
        BY DEF DriverTypes
      <4>2. \A r \in Records : r.turn \in TurnIds
        BY DEF Records
      <4> QED BY <4>1, <4>2
    <3>3. Logged \subseteq TurnIds
        BY <3>2 DEF Logged
    <3> QED BY <1>1, <3>1, <3>3 DEF DriverCommand, DriverTypes
  <2>3. behind' \in BOOLEAN
    BY <1>1 DEF DriverCommand
  <2>4. session' \in Transcripts /\ log' \in Seq(Records)
    BY <1>1, ApplyTypes DEF DriverCommand
  <2> QED BY <1>1, <2>1, <2>2, <2>3, <2>4 DEF DriverCommand, DriverTypes, AgentTypes
<1>2. CASE DriverTurn
  <2>1. Head(prompts) \in Turns /\ session \in Transcripts
    BY <1>2 DEF DriverTurn, DriverTypes, AgentTypes
  <2>2. AgentTypes'
    <3>1. [NoRun EXCEPT !.at = "top"] \in RunStates
        BY NoRunType, RunEdits DEF RunPlaces
    <3>2. session' \in Transcripts
        BY <1>2, TranscriptFacts DEF DriverTurn, StartRun, AgentTypes, MessageKinds
    <3> QED BY <1>2, <3>1, <3>2 DEF DriverTurn, StartRun, AgentTypes
  <2>3. driver' \in Drivers
    BY <1>2, <2>1 DEF DriverTurn, Drivers
  <2> QED BY <1>2, <2>1, <2>2, <2>3 DEF DriverTurn, DriverTypes
<1>3. CASE ReadEvent
  <2>1. Head(stream).of \in Interjections
    BY <1>3 DEF ReadEvent, AgentTypes, Happenings
  <2> QED BY <1>3, <2>1 DEF ReadEvent, channels, disk, DriverTypes, AgentTypes, Fates
<1>4. CASE ReadAsk
  <2>1. Head(stream).of \in Nat
    BY <1>4 DEF ReadAsk, AgentTypes, Happenings
  <2>2. driver' \in Drivers
    BY <1>4, <2>1 DEF ReadAsk, Drivers, DriverTypes
  <2> QED BY <1>4, <2>2 DEF ReadAsk, channels, disk, history, DriverTypes, AgentTypes
<1>5. CASE DriverGone
  <2>1. driver' \in Drivers /\ driver.turn \in TurnIds
    BY <1>5 DEF DriverGone, Drivers, DriverTypes
  <2>2. finished' \in Seq(TurnIds)
    BY <1>5, <2>1, QueueTypes DEF DriverGone, DriverTypes
  <2> QED BY <1>5, <2>1, <2>2 DEF DriverGone, agentVars, disk, history, DriverTypes, AgentTypes
<1>6. CASE EndApproval
  <2>1. \A allow \in BOOLEAN : Answered(allow) => driver' \in Drivers
    BY DEF Answered, Drivers, DriverTypes
  <2>2. driver' \in Drivers
    BY <1>6, <2>1 DEF EndApproval
  <2> QED BY <1>6, <2>2 DEF EndApproval, agentVars, channels, disk, history, DriverTypes, AgentTypes
<1>7. CASE TakeInterrupt
  <2>3. driver' \in Drivers
    BY <1>7 DEF TakeInterrupt, Drivers, DriverTypes
  <2>4. run' \in RunStates
    BY <1>7, RunEdits DEF TakeInterrupt, AgentTypes
  <2> QED BY <1>7, <2>3, <2>4 DEF TakeInterrupt, disk, history, DriverTypes, AgentTypes
<1>14. CASE DriverReturns
  <2>1. driver' \in Drivers /\ driver.turn \in TurnIds
    BY <1>14 DEF DriverReturns, NewDriver, Drivers, DriverTypes
  <2>2. main' \in Mains
    BY <1>14, MainEdits DEF DriverReturns, DriverTypes
  <2>3. run' \in RunStates
    BY <1>14, NoRunType, RunEdits DEF DriverReturns, AgentTypes
  <2>4. AgentTypes'
    BY <1>14, <2>3 DEF DriverReturns, AgentTypes
  <2>5. behind' \in BOOLEAN /\ lost' \subseteq TurnIds /\ partial' \in Records
    BY <1>14, <2>1 DEF DriverReturns, DriverTypes
  <2> QED BY <1>14, <2>1, <2>2, <2>4, <2>5 DEF DriverReturns, DriverTypes
<1>15. CASE SendDecision
  <2>1. driver' \in Drivers /\ Decision(driver.ask, driver.answer = "allow") \in Answers
    BY <1>15 DEF SendDecision, Drivers, DriverTypes, Decision, Answers
  <2>2. decisions' \in Seq(Answers)
    BY <1>15, <2>1, QueueTypes DEF SendDecision, AgentTypes
  <2> QED BY <1>15, <2>1, <2>2 DEF SendDecision, channels, disk, history, DriverTypes, AgentTypes
<1>8. CASE TakeInterjection
  <2>1. Head(interjects) \in Remarks /\ interjects' \in Seq(Remarks)
    BY <1>8 DEF TakeInterjection, DriverTypes
  <2>2. Head(interjects).of \in Interjections
    BY <2>1 DEF Remarks
  <2>3. inbox' \in Seq(Interjections)
    <3>1. Append(inbox, Head(interjects).of) \in Seq(Interjections)
        BY <2>2, QueueTypes DEF AgentTypes
    <3>2. inbox' \in {inbox, Append(inbox, Head(interjects).of)}
        BY <1>8, Zenon DEF TakeInterjection
    <3> QED BY <3>1, <3>2 DEF AgentTypes
  <2>4. fate' \in [Interjections -> Fates]
    BY <1>8, <2>2 DEF TakeInterjection, DriverTypes, Fates
  <2> QED BY <1>8, <2>1, <2>3, <2>4 DEF TakeInterjection, disk, DriverTypes, AgentTypes
<1>9. CASE KeepCommand
    BY <1>9 DEF KeepCommand, agentVars, disk, history, DriverTypes, AgentTypes, Drivers
<1>10. CASE Checkpoint
  <2>1. Record(driver.turn, session) \in Records
    BY DEF DriverTypes, AgentTypes, Drivers
  <2> QED BY <1>10, <2>1 DEF Checkpoint, agentVars, channels, history, DriverTypes, AgentTypes
<1>11. CASE EndWithCommand
  <2>1. driver' \in Drivers /\ driver.turn \in TurnIds
    BY <1>11 DEF EndWithCommand, Settled, Drivers, DriverTypes
  <2>2. main' \in Mains
    BY <1>11, MainEdits DEF EndWithCommand, DriverTypes
  <2>3. finished' \in Seq(TurnIds) /\ lost' \subseteq TurnIds
    BY <1>11, <2>1 DEF EndWithCommand, Settled, DriverTypes
  <2>4. behind' \in BOOLEAN
    BY <1>11 DEF EndWithCommand
  <2>5. session' \in Transcripts /\ log' \in Seq(Records)
    BY <1>11, ApplyTypes DEF EndWithCommand
  <2> QED BY <1>11, <2>1, <2>2, <2>3, <2>4, <2>5 DEF EndWithCommand, DriverTypes, AgentTypes
<1>12. CASE EndTurnOfThread
  <2>1. driver' \in Drivers /\ driver.turn \in TurnIds
    BY <1>12 DEF EndTurnOfThread, Settled, Drivers, DriverTypes
  <2>2. Record(driver.turn, session) \in Records
    BY <2>1 DEF AgentTypes
  <2>3. finished' \in Seq(TurnIds)
    BY <1>12, <2>1, QueueTypes DEF EndTurnOfThread, Settled, DriverTypes
  <2>4. log' \in Seq(Records)
    BY <1>12, <2>2, QueueTypes DEF EndTurnOfThread, DriverTypes
  <2>5. lost' \subseteq TurnIds /\ behind' \in BOOLEAN
    BY <1>12, <2>1 DEF EndTurnOfThread, DriverTypes
  <2> QED BY <1>12, <2>1, <2>3, <2>4, <2>5 DEF EndTurnOfThread, agentVars, DriverTypes, AgentTypes
<1>13. CASE ClearPartial
    BY <1>13 DEF ClearPartial, agentVars, channels, history, DriverTypes, AgentTypes
<1> QED
    BY <1>1, <1>2, <1>3, <1>4, <1>5, <1>6, <1>7, <1>8, <1>9, <1>10, <1>11, <1>12, <1>13, <1>14,
       <1>15 DEF DriverSteps

\* The rest of a run leaves a transcript.
LEMMA EndingsTypes ==
    ASSUME NEW s \in Transcripts
    PROVE  Endings(s) \subseteq Transcripts
<1>1. s # <<>> => Front(s) \in Transcripts
    BY DEF Transcripts, Front
<1> QED BY <1>1, TranscriptFacts DEF Endings, MessageKinds

\* A driver that was replaced keeps the types.
LEMMA OldKeepsTypes ==
    ASSUME ThreadTypes, OldSteps
    PROVE  ThreadTypes'
<1> USE RecordTypes DEF ThreadTypes
<1>1. old.turn \in TurnIds /\ old.messages \in Transcripts /\ partial.turn \in TurnIds
    BY OldEdits DEF DriverTypes, Records
<1>2. Trampled \subseteq TurnIds /\ Record(old.turn, old.messages) \in Records
    BY <1>1 DEF Trampled
<1>3. CASE OldBegins
  <2>1. old' \in Olds
    <3>1. Append(old.messages, "user") \in Transcripts
        BY <1>1, TranscriptFacts DEF MessageKinds
    <3> QED BY <1>3, <3>1, OldEdits DEF OldBegins, DriverTypes
  <2>2. behind' \in BOOLEAN /\ lost' \subseteq TurnIds /\ partial' \in Records
    BY <1>1, <1>2, <1>3 DEF OldBegins, DriverTypes
  <2>3. old'.at # "queued" /\ started' \subseteq Turns
    BY <1>3 DEF OldBegins, DriverTypes, Olds
  <2> QED BY <1>3, <2>1, <2>2, <2>3 DEF OldBegins, OldUnchanged, agentVars, DriverTypes, AgentTypes
<1>4. CASE OldCheckpoint
  <2>1. behind' \in BOOLEAN /\ lost' \subseteq TurnIds /\ partial' \in Records
    BY <1>2, <1>4 DEF OldCheckpoint, DriverTypes
  <2> QED BY <1>4, <2>1 DEF OldCheckpoint, OldUnchanged, agentVars, DriverTypes, AgentTypes
<1>5. CASE OldEnds
  <2>1. finished' \in Seq(TurnIds)
    BY <1>1, <1>5, QueueTypes DEF OldEnds, DriverTypes
  <2>2. \A s \in Endings(old.messages) : s \in Transcripts
    BY <1>1, EndingsTypes
  <2>3. log' \in Seq(Records) /\ behind' \in BOOLEAN
    BY <1>1, <1>5, <2>2, QueueTypes DEF OldEnds, DriverTypes
  <2>4. old' \in Olds /\ old'.at # "queued"
    BY <1>5, OldEdits DEF OldEnds, NoOld
  <2> QED BY <1>5, <2>1, <2>3, <2>4 DEF OldEnds, OldUnchanged, agentVars, DriverTypes, AgentTypes
<1>6. CASE OldClears
  <2>1. lost' \subseteq TurnIds /\ partial' \in Records /\ old' \in Olds
    BY <1>1, <1>6, OldEdits DEF OldClears, DriverTypes
  <2>2. old'.at = "queued" => old'.turn \in Turns
    BY <1>1, <1>6 DEF OldClears, NoOld, TurnIds, DriverTypes, Olds
  <2> QED BY <1>6, <2>1, <2>2 DEF OldClears, OldUnchanged, agentVars, DriverTypes, AgentTypes
<1> QED BY <1>3, <1>4, <1>5, <1>6 DEF OldSteps

\* A step is one of the run's, which leaves the thread alone, or of the thread.
LEMMA StepKinds ==
    ASSUME ThreadNext
    PROVE  \/ RunSteps /\ UnchangedBut
           \/ MainSteps \/ Disconnect \/ Crash
           \/ DriverSteps
           \/ OldSteps
BY DEF ThreadNext, RunSteps, UnchangedThread

\* The types hold in every state: they are kept by every step ...
LEMMA TypesStep == ThreadTypes /\ [ThreadNext]_threadVars => ThreadTypes'
<1> SUFFICES ASSUME ThreadTypes, [ThreadNext]_threadVars PROVE ThreadTypes'
    OBVIOUS
<1>1. CASE RunSteps /\ UnchangedBut
    BY <1>1, RunKeepsTypes
    DEF ThreadTypes, DriverTypes, UnchangedBut, channels, disk, history
<1>2. CASE UNCHANGED threadVars
    BY <1>2 DEF threadVars, agentVars, channels, disk, history, ThreadTypes, AgentTypes, DriverTypes
<1> QED BY <1>1, <1>2, StepKinds, MainKeepsTypes, DriverKeepsTypes, OldKeepsTypes

\* ... and hold of a thread that was just opened.
LEMMA TypesInit == ThreadInit => ThreadTypes
<1> SUFFICES ASSUME ThreadInit PROVE ThreadTypes
    OBVIOUS
<1>1. AgentTypes
  <2>1. spoiled \in BOOLEAN
    BY Zenon DEF ThreadInit, AgentInit
  <2>2. session \in Transcripts
    BY TranscriptFacts DEF ThreadInit, AgentInit
  <2> QED BY <2>1, <2>2, NoRunType DEF ThreadInit, AgentInit, AgentTypes
<1>2. main \in Mains /\ driver \in Drivers /\ partial \in Records
    BY RecordTypes DEF ThreadInit, Mains
<1>3. fate \in [Interjections -> Fates]
    BY DEF ThreadInit, Fates
<1>4. old \in Olds /\ old.at # "queued" /\ behind \in BOOLEAN /\ connected \in BOOLEAN
    BY RecordTypes DEF ThreadInit, NoOld
<1>5. issued \in Nat /\ issued <= MaxTurns
    BY BoundAssumption DEF ThreadInit
<1> QED BY <1>1, <1>2, <1>3, <1>4, <1>5 DEF ThreadInit, ThreadTypes, DriverTypes

\* Everything the conversation keeps has its type.
THEOREM ThreadTypeCorrect == ThreadSpec => []ThreadTypeOK
<1>1. ThreadTypes => ThreadTypeOK
    BY DEF ThreadTypes, AgentTypes, DriverTypes, Mains, Drivers, Olds, ThreadTypeOK, Transcripts, TurnIds
<1> QED BY <1>1, TypesInit, TypesStep, PTL DEF ThreadSpec

-----------------------------------------------------------------------------
(* Confirmations.                                                          *)

\* The driver has a question of the run to answer.
Asking == driver.at \in {"approval", "sending"}

\* Every confirmation that was allowed was allowed by a client, and the question
\* that is being asked is newer than every answer that was not given for it.
AnswersInv ==
    /\ run.granted \subseteq allowed
    /\ \A d \in ToSet(decisions) : d.ask <= asked
    /\ \A e \in ToSet(stream) : e.kind = "Ask" => e.of <= asked
    /\ Asking => driver.ask <= asked /\ (driver.answer = "allow" => driver.ask \in allowed)
    /\ At("asking") => \A d \in ToSet(decisions) : d.allow /\ d.ask = asked => asked \in allowed

\* The events of the inbox that end up behind those of the stream.
LEMMA AnnouncedFacts ==
    ASSUME AgentTypes, NEW kind \in {"Folded", "Returned"}
    PROVE  ToSet(stream \o Announced(kind))
                = ToSet(stream) \cup {Event(kind, i) : i \in ToSet(inbox)}
<1>1. Len(inbox) \in Nat /\ DOMAIN inbox = 1 .. Len(inbox)
    BY DEF AgentTypes
<1>2. \A k \in 1 .. Len(inbox) : Event(kind, inbox[k]) \in Happenings
    BY <1>1 DEF Event, Happenings, AgentTypes
<1>3. Announced(kind) \in Seq(Happenings)
    BY <1>1, <1>2 DEF Announced
<1>4. ToSet(Announced(kind)) = {Event(kind, i) : i \in ToSet(inbox)}
    BY <1>1 DEF Announced, ToSet
<1>5. stream \in Seq(Happenings)
    BY DEF AgentTypes
<1> QED BY <1>3, <1>4, <1>5, Contents

\* The events after a question was asked.
LEMMA AskedContents ==
    ASSUME AgentTypes, AskUser
    PROVE  /\ ToSet(stream') \subseteq ToSet(stream) \cup {Event("Ask", asked + 1)}
           /\ ToSet(stream) \subseteq ToSet(stream')
<1> DEFINE e == Event("Ask", asked + 1)
           c == <<e>>
<1>1. e \in Happenings
    BY DEF Event, Happenings, AgentTypes
<1>2. stream' \in {stream, stream \o c}
    BY DEF AskUser, Tell
<1> HIDE DEF e
<1>3. ToSet(c) = {e} /\ c \in Seq(Happenings)
    BY <1>1 DEF ToSet
<1> HIDE DEF c
<1>4. ToSet(stream \o c) = ToSet(stream) \cup {e}
    BY <1>3, Contents DEF AgentTypes
<1> QED BY <1>2, <1>4 DEF e

\* Announcing the inbox asks the user nothing.
LEMMA EndRunAsksNothing ==
    ASSUME AgentTypes, EndRun \/ \E s \in Transcripts : Inject(s)
    PROVE  \A e \in ToSet(stream') : e.kind = "Ask" => e \in ToSet(stream)
<1>1. PICK kind \in {"Folded", "Returned"} : stream' \in {stream, stream \o Announced(kind)}
    BY DEF EndRun, Inject, Tell
<1>2. ToSet(stream') \subseteq ToSet(stream) \cup {Event(kind, i) : i \in ToSet(inbox)}
    BY <1>1, AnnouncedFacts
<1>3. \A i : Event(kind, i).kind # "Ask"
    BY DEF Event
<1> QED BY <1>2, <1>3

\* The run grants a call only on an answer to the question it asks now.
LEMMA AnswersRun ==
    ASSUME ThreadTypes, AnswersInv, RunSteps, UnchangedBut
    PROVE  AnswersInv'
<1> USE DEF ThreadTypes
<1>1. allowed' = allowed /\ driver' = driver
    BY DEF UnchangedBut, history
<1>2. asked \in Nat /\ \A d \in ToSet(decisions) : d \in Answers
    BY Contents DEF AgentTypes
<1>3. ASSUME EndRun, UNCHANGED <<decisions, asked>> PROVE AnswersInv'
  <2>1. run'.granted = {} /\ run'.at = "none"
    BY <1>3 DEF EndRun, NoRun
  <2> QED BY <1>1, <1>3, <2>1, EndRunAsksNothing DEF AnswersInv, Asking, At
<1>4. CASE StopAtTop
    BY <1>3, <1>4 DEF StopAtTop, AbortRun
<1>5. CASE BeginThink
  <2>1. CASE run.thinks = MaxThinks
    BY <1>3, <1>5, <2>1 DEF BeginThink
  <2>2. CASE run.thinks # MaxThinks
    <3>1. run'.granted = run.granted /\ run'.at = "thinking"
        BY <1>5, <2>2 DEF BeginThink, AgentTypes, RunStates
    <3>2. \A e \in ToSet(stream') : e.kind = "Ask" => e \in ToSet(stream)
        BY <1>5, <2>2, EndRunAsksNothing DEF BeginThink, AgentTypes
    <3> QED BY <1>1, <1>5, <3>1, <3>2 DEF BeginThink, AnswersInv, Asking, At
  <2> QED BY <2>1, <2>2
<1>6. CASE StopThinking
    BY <1>3, <1>6 DEF StopThinking, AbortRun
<1>7. CASE EndTurn
    BY <1>3, <1>7 DEF EndTurn
<1>8. CASE AskUser
  <2>1. run'.granted = run.granted
    BY <1>8 DEF AskUser, AgentTypes, RunStates
  <2>2. ToSet(stream') \subseteq ToSet(stream) \cup {Event("Ask", asked + 1)}
    BY <1>8, AskedContents
  <2>3. \A e \in ToSet(stream) : e.kind = "Ask" => e.of \in Nat
    BY Contents DEF AgentTypes, Happenings
  <2>4. \A d \in ToSet(decisions) : d.ask \in Nat /\ d.ask <= asked /\ d.ask # asked + 1
    BY <1>2 DEF AnswersInv, Answers
  <2>5. Asking' => /\ driver'.ask <= asked + 1
                   /\ driver'.answer = "allow" => driver'.ask \in allowed'
    BY <1>1, <1>2 DEF AnswersInv, Asking, DriverTypes, Drivers
  <2>6. \A e \in ToSet(stream') : e.kind = "Ask" => e.of <= asked'
    BY <1>2, <1>8, <2>2, <2>3 DEF AskUser, AnswersInv, Event
  <2>7. \A d \in ToSet(decisions) : d.ask <= asked + 1
    BY <1>2, <2>4
  <2> QED BY <1>1, <1>8, <2>1, <2>4, <2>5, <2>6, <2>7 DEF AskUser, AnswersInv
<1>9. CASE TakeDecision
  <2>1. Head(decisions) \in ToSet(decisions) /\ ToSet(decisions') \subseteq ToSet(decisions)
    BY <1>9, Contents DEF TakeDecision, AgentTypes
  <2>2. /\ asked' = asked /\ stream' = stream
        /\ run' = IF Head(decisions).ask = asked
                  THEN Resolved(IF Head(decisions).allow THEN {asked} ELSE {})
                  ELSE run
    BY <1>9 DEF TakeDecision
  <2>3. run'.granted \subseteq allowed
    <3>1. \A g : Resolved(g).granted = run.granted \cup g
        BY DEF Resolved, AgentTypes, RunStates
    <3>2. Head(decisions).allow /\ Head(decisions).ask = asked => asked \in allowed
        BY <1>9, <2>1 DEF TakeDecision, AnswersInv
    <3> QED BY <2>2, <3>1, <3>2 DEF AnswersInv
  <2>4. run'.at = "asking" => At("asking")
    BY <1>9 DEF TakeDecision
  <2> QED BY <1>1, <2>1, <2>2, <2>3, <2>4 DEF AnswersInv, Asking, At
<1>10. CASE StopAsking
  <2>1. run'.granted = run.granted /\ run'.at = "acting"
    BY <1>10 DEF StopAsking, Resolved, AgentTypes, RunStates
  <2> QED BY <1>1, <1>10, <2>1 DEF StopAsking, AnswersInv, Asking, At
<1>11. CASE RunTools
  <2>1. run'.granted = run.granted /\ run'.at = "tools"
    BY <1>11 DEF RunTools, AgentTypes, RunStates
  <2> QED BY <1>1, <1>11, <2>1 DEF RunTools, AnswersInv, Asking, At
<1>12. CASE StopTools
    BY <1>3, <1>12 DEF StopTools, AbortRun
<1>13. CASE ReplyText
  <2>1. run'.granted = run.granted /\ run'.at \in {"ending", "top"}
    BY <1>13 DEF ReplyText, AgentTypes, RunStates
  <2>2. Append(session, "text") \in Transcripts
    BY TranscriptFacts DEF AgentTypes, MessageKinds
  <2>3. \A e \in ToSet(stream') : e.kind = "Ask" => e \in ToSet(stream)
    BY <1>13, <2>2, EndRunAsksNothing DEF ReplyText
  <2> QED BY <1>1, <1>13, <2>1, <2>3 DEF ReplyText, AnswersInv, Asking, At
<1>14. CASE ReplyCalls
  <2>1. run'.granted = run.granted /\ run'.at = "acting"
    BY <1>14 DEF ReplyCalls, AgentTypes, RunStates
  <2> QED BY <1>1, <1>14, <2>1 DEF ReplyCalls, AnswersInv, Asking, At
<1>15. CASE Observe
  <2>1. run'.granted = {} /\ run'.at = "top"
    BY <1>15 DEF Observe, AgentTypes, RunStates
  <2> QED BY <1>1, <1>15, <2>1 DEF Observe, AnswersInv, Asking, At
<1>16. CASE ThinkFails
  <2>1. run'.granted = {} /\ run'.at = "none"
    BY <1>16 DEF ThinkFails, NoRun
  <2> QED BY <1>1, <1>16, <2>1 DEF ThinkFails, AnswersInv, Asking, At
<1>17. CASE ThinkGivesUp
    BY <1>3, <1>17 DEF ThinkGivesUp
<1>18. CASE ReplyTruncated
  <2>1. run'.granted = run.granted /\ run'.at = "top"
    BY <1>18 DEF ReplyTruncated, AgentTypes, RunStates
  <2> QED BY <1>1, <1>18, <2>1 DEF ReplyTruncated, AnswersInv, Asking, At
<1>19. CASE ReplyStopped
    BY <1>3, <1>19 DEF ReplyStopped
<1>20. CASE AutoCompact
  <2>1. run'.granted = run.granted /\ run'.at = "compacted"
    BY <1>20 DEF AutoCompact, AgentTypes, RunStates
  <2> QED BY <1>1, <1>20, <2>1 DEF AutoCompact, AnswersInv, Asking, At
<1> QED
    BY <1>4, <1>5, <1>6, <1>7, <1>8, <1>9, <1>10, <1>11, <1>12, <1>13, <1>14, <1>15, <1>16,
       <1>17, <1>18, <1>19, <1>20 DEF RunSteps, AgentSteps, WorldSteps, OddReplies

\* The variables AnswersInv is about.
answerVars == <<run, stream, decisions, asked, allowed>>

\* A step that leaves answers, questions and the approval alone keeps AnswersInv.
LEMMA AnswersFrame ==
    ASSUME AnswersInv, UNCHANGED answerVars,
           Asking' =>
                /\ Asking /\ driver'.ask = driver.ask
                /\ driver'.answer = "allow" => driver.answer = "allow"
    PROVE  AnswersInv'
BY DEF AnswersInv, answerVars, At

\* The driver passes on the answer of a client, of the timeout or of a stop, for the
\* question it shows.
LEMMA AnswersThread ==
    ASSUME ThreadTypes, AnswersInv,
           MainSteps \/ Disconnect \/ Crash \/ DriverSteps \/ OldSteps
    PROVE  AnswersInv'
<1> USE DEF ThreadTypes
<1>1. ASSUME FreshAgent, allowed' = allowed, ~Asking' PROVE AnswersInv'
  <2>1. run'.granted = {} /\ run'.at = "none"
    BY <1>1 DEF FreshAgent, NoRun
  <2> QED BY <1>1, <2>1, NoContents DEF FreshAgent, AnswersInv, Asking, At
<1>2. CASE TurnStart \/ TurnInterrupt \/ HandleFinished \/ ThreadResume \/ ResumeFails
    BY <1>2, AnswersFrame
    DEF TurnStart, TurnInterrupt, HandleFinished, ThreadResume, ResumeFails, Asking, answerVars,
        agentVars, history
<1>3. ASSUME NEW i \in Interjections, TurnInterject(i) PROVE AnswersInv'
    BY <1>3, AnswersFrame DEF TurnInterject, Asking, answerVars, agentVars
<1>4. ASSUME NEW c \in Commands, SendCommand(c) PROVE AnswersInv'
    BY <1>4, AnswersFrame DEF SendCommand, Asking, answerVars, agentVars, history
<1>5. ASSUME NEW allow \in BOOLEAN, Answer(allow) PROVE AnswersInv'
  <2>1. /\ driver'.at = driver.at /\ driver'.ask = driver.ask
        /\ driver'.answer = "allow" => allow
    BY <1>5 DEF Answer, DriverTypes, Drivers
  <2>2. /\ allowed \subseteq allowed'
        /\ allow => driver.ask \in allowed'
    BY <1>5 DEF Answer
  <2>3. UNCHANGED <<run, stream, decisions, asked>>
    BY <1>5 DEF Answer, agentVars
  <2>4. Asking' => driver'.ask <= asked' /\ (driver'.answer = "allow" => driver'.ask \in allowed')
    BY <2>1, <2>2, <2>3 DEF Asking, AnswersInv
  <2>5. run'.granted \subseteq allowed'
    BY <2>2, <2>3 DEF AnswersInv
  <2>6. At("asking")' => \A d \in ToSet(decisions') : d.allow /\ d.ask = asked' => asked' \in allowed'
    BY <2>2, <2>3, Zenon DEF AnswersInv, Asking, At
  <2> QED BY <2>3, <2>4, <2>5, <2>6 DEF AnswersInv
<1>6. CASE Reload
    BY <1>1, <1>6 DEF Reload, NewDriver, Asking
<1>7. CASE Disconnect
    BY <1>7, AnswersFrame DEF Disconnect, Asking, answerVars, agentVars, history
<1>8. CASE Crash
    BY <1>1, <1>8 DEF Crash, NewDriver, Asking, history
<1>9. CASE DriverCommand
    BY <1>9, AnswersFrame DEF DriverCommand, Asking, answerVars
<1>10. CASE DriverTurn
  <2>1. run'.granted = {} /\ run'.at = "top" /\ driver'.at = "turn"
    BY <1>10 DEF DriverTurn, StartRun, NoRun, NewDriver
  <2>2. UNCHANGED <<stream, decisions, asked>>
    BY <1>10 DEF DriverTurn, StartRun
  <2> QED BY <2>1, <2>2 DEF AnswersInv, Asking, At
<1>11. CASE ReadEvent
  <2>1. ToSet(stream') \subseteq ToSet(stream)
    BY <1>11, Contents DEF ReadEvent, AgentTypes
  <2> QED BY <1>11, <2>1 DEF ReadEvent, AnswersInv, Asking, At
<1>12. CASE ReadAsk
  <2>1. Head(stream) \in ToSet(stream) /\ ToSet(stream') \subseteq ToSet(stream)
    BY <1>12, Contents DEF ReadAsk, AgentTypes
  <2>2. driver'.ask = Head(stream).of /\ driver'.answer = "none"
    BY <1>12 DEF ReadAsk, DriverTypes, Drivers
  <2>3. Head(stream).of <= asked
    BY <1>12, <2>1 DEF ReadAsk, AnswersInv
  <2> QED BY <1>12, <2>1, <2>2, <2>3 DEF ReadAsk, AnswersInv, Asking, At, history
<1>13. CASE DriverGone
  <2>1. ~Asking'
    BY <1>13 DEF DriverGone, Asking, DriverTypes, Drivers
  <2> QED BY <1>13, <2>1, AnswersFrame DEF DriverGone, answerVars, agentVars, history
<1>14. CASE EndApproval
  <2>1. PICK allow \in BOOLEAN : Answered(allow) /\ (allow => driver.answer = "allow")
    BY <1>14 DEF EndApproval
  <2>2. driver'.ask = driver.ask /\ (driver'.answer = "allow" => driver.answer = "allow")
    BY <2>1 DEF Answered, DriverTypes, Drivers
  <2>3. Asking
    BY <1>14 DEF EndApproval, Asking
  <2> QED BY <1>14, <2>2, <2>3, AnswersFrame DEF EndApproval, answerVars, agentVars, history
<1>15. CASE TakeInterrupt
  <2>1. /\ run'.granted = run.granted /\ run'.at = run.at
    BY <1>15 DEF TakeInterrupt, AgentTypes, RunStates
  <2>2. Asking' => /\ Asking /\ driver'.ask = driver.ask
                   /\ driver'.answer = "allow" => driver.answer = "allow"
    BY <1>15 DEF TakeInterrupt, Driving, Asking, DriverTypes, Drivers
  <2>3. UNCHANGED <<stream, decisions, asked, allowed>>
    BY <1>15 DEF TakeInterrupt, history
  <2> QED BY <2>1, <2>2, <2>3 DEF AnswersInv, At
<1>21. CASE DriverReturns
  <2>1. run'.at = run.at /\ run'.granted = run.granted
    BY <1>21 DEF DriverReturns, NoRun, AgentTypes, RunStates
  <2>2. UNCHANGED <<decisions, asked, allowed>> /\ stream' = <<>>
    BY <1>21 DEF DriverReturns
  <2>3. ~Asking'
    BY <1>21 DEF DriverReturns, NewDriver, Asking
  <2> QED BY <2>1, <2>2, <2>3, NoContents DEF AnswersInv, At
<1>22. CASE SendDecision
  <2> DEFINE d == Decision(driver.ask, driver.answer = "allow")
  <2>1. d \in Answers /\ d.ask = driver.ask /\ (d.allow => driver.answer = "allow")
    BY DEF Decision, Answers, Drivers, DriverTypes
  <2>2. decisions' = Append(decisions, d) /\ driver'.at = "turn"
    BY <1>22 DEF SendDecision, DriverTypes, Drivers
  <2> HIDE DEF d
  <2>3. ToSet(decisions') = ToSet(decisions) \cup {d}
    BY <2>1, <2>2, Contents DEF AgentTypes
  <2>4. driver.ask <= asked /\ (d.allow => driver.ask \in allowed)
    BY <1>22, <2>1 DEF SendDecision, AnswersInv, Asking
  <2>5. UNCHANGED <<run, stream, asked, allowed>> /\ ~Asking'
    BY <1>22, <2>2 DEF SendDecision, Asking, history
  <2> QED BY <2>1, <2>3, <2>4, <2>5 DEF AnswersInv, At
<1>23. CASE OldSteps
    BY <1>23, AnswersFrame
    DEF OldSteps, OldBegins, OldCheckpoint, OldEnds, OldClears, OldUnchanged, Asking, answerVars,
        agentVars
<1>16. CASE TakeInterjection
    BY <1>16, AnswersFrame DEF TakeInterjection, Asking, answerVars
<1>17. CASE KeepCommand
    BY <1>17, AnswersFrame DEF KeepCommand, Driving, Asking, answerVars, agentVars, history, DriverTypes, Drivers
<1>18. CASE Checkpoint
    BY <1>18, AnswersFrame DEF Checkpoint, Asking, answerVars, agentVars, history
<1>19. CASE EndWithCommand \/ EndTurnOfThread
  <2>1. driver'.at = "settled"
    BY <1>19 DEF EndWithCommand, EndTurnOfThread, Settled, DriverTypes, Drivers
  <2> QED BY <1>19, <2>1, AnswersFrame
          DEF EndWithCommand, EndTurnOfThread, Asking, answerVars, agentVars
<1>20. CASE ClearPartial
    BY <1>20, AnswersFrame DEF ClearPartial, Asking, answerVars, agentVars, history, NewDriver
<1> QED
    BY <1>2, <1>3, <1>4, <1>5, <1>6, <1>7, <1>8, <1>9, <1>10, <1>11, <1>12, <1>13, <1>14,
       <1>15, <1>16, <1>17, <1>18, <1>19, <1>20, <1>21, <1>22, <1>23 DEF MainSteps, DriverSteps

\* A call that needs a confirmation runs only if a client allowed that call: an
\* answer that is late, stale or timed out, and an interrupt, allow nothing.
THEOREM AllowedByItsOwnAnswerCorrect == ThreadSpec => []AllowedByItsOwnAnswer
<1>1. ThreadInit => AnswersInv
    BY NoContents DEF ThreadInit, AgentInit, NoRun, NewDriver, AnswersInv, Asking, At
<1>2. ThreadTypes /\ AnswersInv /\ [ThreadNext]_threadVars => AnswersInv'
  <2> SUFFICES ASSUME ThreadTypes, AnswersInv, [ThreadNext]_threadVars PROVE AnswersInv'
    OBVIOUS
  <2>1. CASE UNCHANGED threadVars
    BY <2>1 DEF threadVars, agentVars, history, AnswersInv, Asking, At
  <2> QED BY <2>1, StepKinds, AnswersRun, AnswersThread
<1>3. AnswersInv => AllowedByItsOwnAnswer
    BY DEF AnswersInv, AllowedByItsOwnAnswer
<1> QED BY <1>1, <1>2, <1>3, TypesInit, TypesStep, PTL DEF ThreadSpec

-----------------------------------------------------------------------------
(* Interjections.                                                          *)

\* The driver has a turn in its hands.
Driven == driver.at \in {"turn", "approval", "sending", "leaving"}

\* A run has the driver that drives it, or is deaf; its events have a reader.
RunIsDriven ==
    /\ ~Driven => stream = <<>> /\ (run = NoRun \/ driver.at = "gone")
    /\ run.deaf => driver.at = "gone"
    /\ driver.at = "gone" => run = NoRun \/ run.deaf

\* Where an interjection is that was taken into a turn and not told about yet.
Accounted(i) ==
    \/ i \in unheard
    \/ run # NoRun /\ i \in ToSet(inbox)
    \/ \E e \in ToSet(stream) : e.kind # "Ask" /\ e.of = i

InterjectionsInv ==
    /\ RunIsDriven
    /\ \A i \in Interjections : fate[i] = "accepted" => Accounted(i)
    /\ \A i \in Interjections : fate[i] = "sent" => i \in unheard \cup Waiting
    /\ ~Alive => Forgotten \subseteq unheard

\* What waits in the channel q.
Aimed(q) == {r.of : r \in ToSet(q)}

\* What waits in the channel, as a set.
LEMMA AimedFacts ==
    ASSUME NEW q
    PROVE  {q[k].of : k \in DOMAIN q} = Aimed(q)
<1>1. ASSUME NEW k \in DOMAIN q PROVE q[k].of \in Aimed(q)
    BY DEF ToSet, Aimed
<1>2. ASSUME NEW r \in ToSet(q) PROVE r.of \in {q[k].of : k \in DOMAIN q}
    BY DEF ToSet
<1> QED BY <1>1, <1>2 DEF Aimed

\* Only a driver that returns makes a run deaf, and what is deaf tells nothing.
LEMMA DeafnessStays ==
    ASSUME AgentTypes, RunSteps
    PROVE  /\ run' = NoRun \/ run'.deaf = run.deaf
           /\ run.deaf => stream' = stream
<1>1. \A g : Resolved(g).deaf = run.deaf
    BY DEF Resolved, AgentTypes, RunStates
<1>2. CASE StopAtTop \/ StopThinking \/ EndTurn \/ StopTools \/ ThinkGivesUp \/ ReplyStopped
    BY <1>2 DEF StopAtTop, StopThinking, EndTurn, StopTools, ThinkGivesUp, ReplyStopped, AbortRun,
                EndRun, Tell
<1>3. CASE BeginThink
    BY <1>3 DEF BeginThink, EndRun, Inject, Tell, AgentTypes, RunStates
<1>4. CASE AskUser \/ RunTools \/ ReplyText \/ ReplyCalls
    BY <1>4 DEF AskUser, RunTools, ReplyText, ReplyCalls, Inject, Tell, AgentTypes, RunStates
<1>5. CASE TakeDecision \/ StopAsking
    BY <1>1, <1>5 DEF TakeDecision, StopAsking
<1>6. CASE Observe \/ ReplyTruncated \/ AutoCompact \/ ThinkFails
    BY <1>6 DEF Observe, ReplyTruncated, AutoCompact, ThinkFails, AgentTypes, RunStates
<1> QED
    BY <1>2, <1>3, <1>4, <1>5, <1>6 DEF RunSteps, AgentSteps, WorldSteps, OddReplies

\* A run that takes a step is one that the driver drives, or it is deaf.
LEMMA RunningIsDriven ==
    ASSUME RunIsDriven, RunSteps
    PROVE  /\ run # NoRun
           /\ (Driven /\ ~run.deaf) \/ (~Alive /\ run.deaf)
<1>1. run.at # "none"
    BY DEF RunSteps, AgentSteps, WorldSteps, OddReplies, At, StopAtTop, BeginThink, StopThinking,
       EndTurn, AskUser, TakeDecision, StopAsking, RunTools, StopTools, ReplyText, ReplyCalls,
       Observe, ThinkFails, ThinkGivesUp, ReplyTruncated, ReplyStopped, AutoCompact
<1>2. run # NoRun
    BY <1>1 DEF NoRun
<1> QED BY <1>2 DEF RunIsDriven, Driven, Alive

\* A step of the run leaves it to whom it belongs.
LEMMA RunStaysDriven ==
    ASSUME AgentTypes, RunIsDriven, RunSteps, UNCHANGED driver
    PROVE  RunIsDriven'
<1>1. ~NoRun.deaf
    BY DEF NoRun
<1> QED BY <1>1, DeafnessStays, RunningIsDriven DEF RunIsDriven, Driven, Alive

\* What ends a run, and what drains its inbox, announces every interjection in it.
LEMMA AnnouncedAreAccounted ==
    ASSUME AgentTypes, EndRun \/ \E s \in Transcripts : Inject(s), unheard' = unheard,
           NEW i \in Interjections, Accounted(i), ~run.deaf
    PROVE  Accounted(i)'
<1>1. PICK kind \in {"Folded", "Returned"} : stream' = stream \o Announced(kind)
    BY DEF EndRun, Inject, Tell
<1>2. ToSet(stream') = ToSet(stream) \cup {Event(kind, j) : j \in ToSet(inbox)}
    BY <1>1, AnnouncedFacts
<1>3. CASE i \in unheard
    BY <1>3 DEF Accounted
<1>4. CASE i \in ToSet(inbox)
  <2>1. Event(kind, i) \in ToSet(stream')
    BY <1>2, <1>4
  <2>2. Event(kind, i).kind # "Ask" /\ Event(kind, i).of = i
    BY DEF Event
  <2> QED BY <2>1, <2>2 DEF Accounted
<1>5. CASE \E e \in ToSet(stream) : e.kind # "Ask" /\ e.of = i
    BY <1>2, <1>5 DEF Accounted
<1> QED BY <1>3, <1>4, <1>5 DEF Accounted

\* A step of a run that is heard loses no interjection.
LEMMA AccountedStays ==
    ASSUME ThreadTypes, RunSteps, ~run.deaf, NEW i \in Interjections, Accounted(i)
    PROVE  Accounted(i)'
<1> USE DEF ThreadTypes
<1>4. ASSUME EndRun, unheard' = unheard PROVE Accounted(i)'
    BY <1>4, AnnouncedAreAccounted
<1>5. ASSUME NEW s \in Transcripts, Inject(s), unheard' = unheard PROVE Accounted(i)'
    BY <1>5, AnnouncedAreAccounted
<1>6. ASSUME UNCHANGED <<inbox, unheard>>, ToSet(stream) \subseteq ToSet(stream'), run'.at # "none"
      PROVE  Accounted(i)'
    BY <1>6 DEF Accounted, NoRun
<1>7. CASE StopAtTop
    BY <1>4, <1>7 DEF StopAtTop, AbortRun
<1>8. CASE BeginThink
  <2>1. session \in Transcripts
    BY DEF AgentTypes
  <2> QED BY <1>4, <1>5, <1>8, <2>1 DEF BeginThink
<1>9. CASE StopThinking
    BY <1>4, <1>9 DEF StopThinking, AbortRun
<1>10. CASE EndTurn
    BY <1>4, <1>10 DEF EndTurn
<1>11. CASE AskUser
  <2>2. ToSet(stream) \subseteq ToSet(stream')
    BY <1>11, AskedContents
  <2>3. run'.at = "asking"
    BY <1>11 DEF AskUser, AgentTypes, RunStates
  <2> QED BY <1>6, <1>11, <2>2, <2>3 DEF AskUser
<1>12. CASE TakeDecision \/ StopAsking \/ RunTools
  <2>1. run'.at # "none"
    <3>1. \A g : Resolved(g).at = "acting"
        BY DEF Resolved, AgentTypes, RunStates
    <3>2. CASE TakeDecision
        BY <3>1, <3>2 DEF TakeDecision, At
    <3>3. CASE StopAsking
        BY <3>1, <3>3 DEF StopAsking
    <3>4. CASE RunTools
        BY <3>4 DEF RunTools, AgentTypes, RunStates
    <3> QED BY <1>12, <3>2, <3>3, <3>4
  <2> QED BY <1>6, <1>12, <2>1 DEF TakeDecision, StopAsking, RunTools
<1>13. CASE StopTools
    BY <1>4, <1>13 DEF StopTools, AbortRun
<1>14. CASE ReplyText
  <2>1. Append(session, "text") \in Transcripts
    BY TranscriptFacts DEF AgentTypes, MessageKinds
  <2> QED BY <1>5, <1>14, <2>1 DEF ReplyText
<1>15. CASE ReplyCalls \/ Observe \/ ReplyTruncated \/ AutoCompact
  <2>1. run'.at # "none"
    BY <1>15 DEF ReplyCalls, Observe, ReplyTruncated, AutoCompact, AgentTypes, RunStates
  <2> QED BY <1>6, <1>15, <2>1 DEF ReplyCalls, Observe, ReplyTruncated, AutoCompact
<1>16. CASE ThinkFails
    BY <1>16 DEF ThinkFails, Accounted
<1>17. CASE ThinkGivesUp \/ ReplyStopped
    BY <1>4, <1>17 DEF ThinkGivesUp, ReplyStopped
<1> QED
    BY <1>7, <1>8, <1>9, <1>10, <1>11, <1>12, <1>13, <1>14, <1>15, <1>16, <1>17
    DEF RunSteps, AgentSteps, WorldSteps, OddReplies

\* No step of the run loses an interjection.
LEMMA InterjectionsRun ==
    ASSUME ThreadTypes, InterjectionsInv, RunSteps, UnchangedBut
    PROVE  InterjectionsInv'
<1> USE DEF ThreadTypes
<1>1. RunIsDriven'
    BY RunStaysDriven DEF InterjectionsInv, UnchangedBut
<1>2. UNCHANGED <<fate, driver, interjects>>
    BY DEF UnchangedBut, history, channels
<1>20. unheard \subseteq unheard'
    BY DEF RunSteps, AgentSteps, WorldSteps, OddReplies, StopAtTop, BeginThink, StopThinking,
       EndTurn, AskUser, TakeDecision, StopAsking, RunTools, StopTools, ReplyText, ReplyCalls,
       Observe, ThinkFails, ThinkGivesUp, ReplyTruncated, ReplyStopped, AutoCompact, AbortRun
<1>21. Waiting' = Waiting /\ Forgotten' = Forgotten /\ Alive' = Alive
    BY <1>2 DEF Waiting, Forgotten, Alive
<1>22. CASE ~Alive
  <2>1. \A i \in Interjections : fate[i] \in {"accepted", "sent"} => i \in unheard'
    BY <1>20, <1>22 DEF InterjectionsInv, Forgotten
  <2> QED BY <1>1, <1>2, <1>20, <1>21, <1>22, <2>1 DEF InterjectionsInv, Accounted
<1>23. CASE Alive
  <2>1. ASSUME \A i \in Interjections : Accounted(i) => Accounted(i)' PROVE InterjectionsInv'
    BY <1>1, <1>2, <1>20, <1>21, <1>23, <2>1 DEF InterjectionsInv
  <2>2. ~run.deaf
    BY <1>23, RunningIsDriven DEF InterjectionsInv
  <2>3. ASSUME NEW i \in Interjections, Accounted(i) PROVE Accounted(i)'
    BY <2>2, <2>3, AccountedStays
  <2> QED BY <2>1, <2>3
<1> QED BY <1>22, <1>23

\* The variables InterjectionsInv is about, the driver's place apart.
interjectionVars == <<run, stream, inbox, unheard, fate, interjects>>

\* A step that leaves inbox and events alone keeps InterjectionsInv.
LEMMA InterjectionsFrame ==
    ASSUME InterjectionsInv, UNCHANGED interjectionVars, ~Driven' => ~Driven, Alive' <=> Alive
    PROVE  InterjectionsInv'
BY DEF InterjectionsInv, RunIsDriven, Accounted, interjectionVars, Waiting, Forgotten, Alive

\* Neither the main loop nor the driver loses an interjection that was taken in.
LEMMA InterjectionsThread ==
    ASSUME ThreadTypes, InterjectionsInv,
           MainSteps \/ Disconnect \/ Crash \/ DriverSteps \/ OldSteps
    PROVE  InterjectionsInv'
<1> USE DEF ThreadTypes
<1>1. ASSUME FreshAgent, fate' = fate PROVE InterjectionsInv'
  <2>1. run' = NoRun /\ stream' = <<>> /\ unheard' = unheard \cup Forgotten
    BY <1>1 DEF FreshAgent
  <2>2. \A i \in Interjections : fate[i] \in {"accepted", "sent"} => i \in Forgotten
    BY DEF Forgotten
  <2>3. ~run'.deaf /\ Forgotten' = Forgotten
    BY <1>1, <2>1 DEF NoRun, Forgotten
  <2> QED BY <1>1, <2>1, <2>2, <2>3 DEF InterjectionsInv, RunIsDriven, Accounted
<1>2. CASE TurnStart \/ TurnInterrupt \/ HandleFinished \/ ThreadResume \/ ResumeFails
    BY <1>2, InterjectionsFrame
    DEF TurnStart, TurnInterrupt, HandleFinished, ThreadResume, ResumeFails, interjectionVars,
        agentVars, channels, history, Driven, Alive
<1>3. ASSUME NEW i \in Interjections, TurnInterject(i) PROVE InterjectionsInv'
  <2>1. fate' = [fate EXCEPT ![i] = "sent"] /\ fate \in [Interjections -> Fates]
    BY <1>3 DEF TurnInterject, DriverTypes
  <2>2. \A j \in Interjections : /\ fate'[j] = "accepted" => fate[j] = "accepted"
                                 /\ fate'[j] = "sent" => j = i \/ fate[j] = "sent"
    BY <2>1
  <2>3. UNCHANGED <<run, stream, inbox, unheard, driver>> /\ Alive
    BY <1>3 DEF TurnInterject, agentVars
  <2>4. Waiting' = Waiting \cup {i}
    <3> DEFINE e == [of |-> i, turn |-> main.active]
    <3>1. e \in Remarks /\ interjects \in Seq(Remarks) /\ e.of = i
        BY MainEdits DEF DriverTypes, Remarks
    <3>2. interjects' = Append(interjects, e)
        BY <1>3 DEF TurnInterject
    <3> HIDE DEF e
    <3>3. ToSet(interjects') = ToSet(interjects) \cup {e}
        BY <3>1, <3>2, Contents
    <3>4. Waiting' = Aimed(interjects') /\ Waiting = Aimed(interjects)
        BY AimedFacts DEF Waiting
    <3> QED BY <3>1, <3>3, <3>4 DEF Aimed
  <2>5. Alive'
    BY <2>3 DEF Alive
  <2> QED BY <2>2, <2>3, <2>4, <2>5 DEF InterjectionsInv, RunIsDriven, Accounted, Driven
<1>4. ASSUME NEW c \in Commands, SendCommand(c) PROVE InterjectionsInv'
    BY <1>4, InterjectionsFrame
    DEF SendCommand, interjectionVars, agentVars, history, Driven, Alive
<1>5. ASSUME NEW allow \in BOOLEAN, Answer(allow) PROVE InterjectionsInv'
  <2>1. driver'.at = driver.at
    BY <1>5 DEF Answer, DriverTypes, Drivers
  <2> QED BY <1>5, <2>1, InterjectionsFrame
          DEF Answer, interjectionVars, agentVars, channels, Driven, Alive
<1>6. CASE Reload \/ Crash
    BY <1>1, <1>6 DEF Reload, Crash, history
<1>7. CASE Disconnect
    BY <1>7, InterjectionsFrame
    DEF Disconnect, interjectionVars, agentVars, channels, history, Driven, Alive
<1>8. CASE DriverCommand
    BY <1>8, InterjectionsFrame DEF DriverCommand, interjectionVars, Driven, Alive
<1>19. CASE DriverGone
  <2>1. Driven /\ Driven' /\ Alive /\ Alive'
    BY <1>19 DEF DriverGone, Driving, Driven, Alive, DriverTypes, Drivers
  <2> QED BY <1>19, <2>1, InterjectionsFrame DEF DriverGone, interjectionVars, agentVars, history
<1>20. CASE DriverReturns
  <2>1. driver'.at = "gone" /\ stream' = <<>> /\ fate' = fate /\ unheard' = unheard \cup Forgotten
    BY <1>20 DEF DriverReturns, NewDriver
  <2>2. run' = NoRun \/ run'.deaf
    BY <1>20 DEF DriverReturns, AgentTypes, RunStates
  <2>3. RunIsDriven'
    BY <2>1, <2>2 DEF RunIsDriven
  <2>4. \A i \in Interjections : fate'[i] \in {"accepted", "sent"} => i \in unheard'
    BY <2>1 DEF Forgotten
  <2>5. Forgotten' \subseteq unheard'
    BY <2>1 DEF Forgotten
  <2> QED BY <2>3, <2>4, <2>5 DEF InterjectionsInv, Accounted
<1>21. CASE SendDecision
  <2>1. Driven /\ Driven' /\ Alive /\ Alive'
    BY <1>21 DEF SendDecision, Driven, Alive, DriverTypes, Drivers
  <2> QED BY <1>21, <2>1, InterjectionsFrame DEF SendDecision, interjectionVars, channels, history
<1>22. CASE OldSteps
    BY <1>22, InterjectionsFrame
    DEF OldSteps, OldBegins, OldCheckpoint, OldEnds, OldClears, OldUnchanged, interjectionVars,
        agentVars, Driven, Alive
<1>9. CASE DriverTurn
  <2>1. driver'.at = "turn" /\ run = NoRun /\ ~run'.deaf
    BY <1>9 DEF DriverTurn, StartRun, NoRun, NewDriver, InterjectionsInv, RunIsDriven, Driven
  <2>2. UNCHANGED <<stream, unheard, fate, interjects>>
    BY <1>9 DEF DriverTurn, StartRun
  <2>3. Waiting' = Waiting /\ Alive'
    BY <2>1, <2>2 DEF Waiting, Alive
  <2> QED BY <2>1, <2>2, <2>3 DEF InterjectionsInv, RunIsDriven, Accounted, Driven
<1>10. CASE ReadEvent
  <2>1. ToSet(stream) = {Head(stream)} \cup ToSet(stream')
    BY <1>10, Contents DEF ReadEvent, AgentTypes
  <2>2. \A i \in Interjections : /\ fate'[i] = "accepted" => fate[i] = "accepted" /\ i # Head(stream).of
                                 /\ fate'[i] = "sent" => fate[i] = "sent"
    BY <1>10 DEF ReadEvent, DriverTypes
  <2>3. UNCHANGED <<run, inbox, unheard, driver, interjects>> /\ Driven /\ Alive
    BY <1>10 DEF ReadEvent, channels, Driving, Driven, Alive
  <2>4. Waiting' = Waiting /\ Alive'
    BY <2>3 DEF Waiting, Alive
  <2> QED BY <2>1, <2>2, <2>3, <2>4 DEF InterjectionsInv, RunIsDriven, Accounted, Driven
<1>11. CASE ReadAsk
  <2>1. ToSet(stream) = {Head(stream)} \cup ToSet(stream') /\ Head(stream).kind = "Ask"
    BY <1>11, Contents DEF ReadAsk, AgentTypes
  <2>2. UNCHANGED <<run, inbox, unheard, fate, interjects>> /\ driver.at = "turn" /\ driver'.at = "approval"
    BY <1>11 DEF ReadAsk, Driving, channels, DriverTypes, Drivers, history
  <2>3. Waiting' = Waiting /\ Alive'
    BY <2>2 DEF Waiting, Alive
  <2> QED BY <2>1, <2>2, <2>3 DEF InterjectionsInv, RunIsDriven, Accounted, Driven
<1>12. CASE EndApproval
  <2>1. Driven /\ Driven' /\ Alive /\ Alive'
    BY <1>12 DEF EndApproval, Answered, Driven, Alive, DriverTypes, Drivers
  <2> QED BY <1>12, <2>1, InterjectionsFrame DEF EndApproval, interjectionVars, agentVars, channels,
                                                 history
<1>13. CASE TakeInterrupt
  <2>1. Driven' /\ Driven /\ Alive' /\ Alive
    BY <1>13 DEF TakeInterrupt, DriverTypes, Drivers, Driven, Alive
  <2>3. run # NoRun => run' # NoRun
    <3>1. [run EXCEPT !.cancelled = TRUE].cancelled
        BY Zenon DEF AgentTypes, RunStates
    <3>2. ~NoRun.cancelled
        BY DEF NoRun
    <3>3. run # NoRun => run' = run \/ run' = [run EXCEPT !.cancelled = TRUE]
        BY <1>13, Zenon DEF TakeInterrupt
    <3> QED BY <3>1, <3>2, <3>3
  <2>2. UNCHANGED <<stream, inbox, unheard, fate, interjects>>
    BY <1>13 DEF TakeInterrupt, history
  <2>4. run'.deaf = run.deaf
    BY <1>13 DEF TakeInterrupt, AgentTypes, RunStates
  <2>5. Waiting' = Waiting
    BY <2>2 DEF Waiting
  <2>6. RunIsDriven'
    BY <2>1, <2>4 DEF InterjectionsInv, RunIsDriven, Alive
  <2> QED BY <2>1, <2>2, <2>3, <2>5, <2>6 DEF InterjectionsInv, Accounted
<1>14. CASE TakeInterjection
  <2>1. PICK i \in Interjections : i = Head(interjects).of
    <3>1. Head(interjects) \in Remarks
        BY <1>14, QueueTypes DEF TakeInterjection, DriverTypes
    <3> QED BY <3>1 DEF Remarks
  <2>2. UNCHANGED <<run, stream, driver>> /\ Driven /\ Alive /\ Alive'
    BY <1>14 DEF TakeInterjection, Driving, Driven, Alive
  <2>3. \/ /\ inbox' = Append(inbox, i)
           /\ unheard' = IF run = NoRun THEN unheard \cup {i} ELSE unheard
           /\ fate' = [fate EXCEPT ![i] = "accepted"]
        \/ fate' = [fate EXCEPT ![i] = "returned"] /\ UNCHANGED <<inbox, unheard>>
    BY <1>14, <2>1 DEF TakeInterjection
  <2>4. fate \in [Interjections -> Fates]
    BY DEF DriverTypes
  <2>5. ToSet(Append(inbox, i)) = ToSet(inbox) \cup {i}
    BY Contents DEF AgentTypes
  <2>8. \A j \in Waiting : j = i \/ j \in Waiting'
    <3>1. ToSet(interjects) = {Head(interjects)} \cup ToSet(interjects')
        BY <1>14, Contents DEF TakeInterjection, DriverTypes
    <3>2. Waiting' = Aimed(interjects') /\ Waiting = Aimed(interjects)
        BY AimedFacts DEF Waiting
    <3> QED BY <2>1, <3>1, <3>2 DEF Aimed
  <2>9. unheard \subseteq unheard' /\ RunIsDriven'
    BY <2>2, <2>3 DEF InterjectionsInv, RunIsDriven, Driven
  <2>10. \A j \in Interjections : fate'[j] = "sent" => j # i /\ fate[j] = "sent"
    BY <2>3, <2>4
  <2>11. \A j \in Interjections : fate'[j] = "sent" => j \in unheard' \cup Waiting'
    BY <2>8, <2>9, <2>10 DEF InterjectionsInv
  <2>6. CASE fate' = [fate EXCEPT ![i] = "returned"] /\ UNCHANGED <<inbox, unheard>>
    <3>1. \A j \in Interjections : fate'[j] = "accepted" => fate[j] = "accepted"
        BY <2>4, <2>6
    <3> QED BY <2>2, <2>6, <2>9, <2>11, <3>1 DEF InterjectionsInv, Accounted
  <2>7. CASE /\ inbox' = Append(inbox, i)
             /\ unheard' = IF run = NoRun THEN unheard \cup {i} ELSE unheard
             /\ fate' = [fate EXCEPT ![i] = "accepted"]
    <3>1. \A j \in Interjections : fate'[j] = "accepted" => j = i \/ fate[j] = "accepted"
        BY <2>4, <2>7
    <3>2. /\ ToSet(inbox') = ToSet(inbox) \cup {i} /\ unheard \subseteq unheard'
          /\ run = NoRun => i \in unheard'
        BY <2>5, <2>7
    <3> QED BY <2>2, <2>9, <2>11, <3>1, <3>2 DEF InterjectionsInv, Accounted
  <2> QED BY <2>3, <2>6, <2>7
<1>15. CASE KeepCommand
  <2>1. driver'.at = driver.at
    BY <1>15 DEF KeepCommand, DriverTypes, Drivers
  <2> QED BY <1>15, <2>1, InterjectionsFrame
          DEF KeepCommand, interjectionVars, agentVars, history, Driven, Alive
<1>16. CASE Checkpoint
    BY <1>16, InterjectionsFrame
    DEF Checkpoint, interjectionVars, agentVars, channels, history, Driven, Alive
<1>17. CASE EndWithCommand \/ EndTurnOfThread
  <2>1. run' = NoRun /\ stream' = <<>> /\ run = NoRun
    BY <1>17 DEF EndWithCommand, EndTurnOfThread, StreamEnded, agentVars
  <2>2. UNCHANGED <<stream, inbox, unheard, fate, interjects>>
    BY <1>17 DEF EndWithCommand, EndTurnOfThread, agentVars
  <2>3. driver'.at = "settled" /\ ~run'.deaf
    BY <1>17, <2>1 DEF EndWithCommand, EndTurnOfThread, Settled, NoRun, DriverTypes, Drivers
  <2>4. Waiting' = Waiting /\ Alive'
    BY <2>2, <2>3 DEF Waiting, Alive
  <2> QED BY <2>1, <2>2, <2>3, <2>4 DEF InterjectionsInv, RunIsDriven, Accounted
<1>18. CASE ClearPartial
    BY <1>18, InterjectionsFrame
    DEF ClearPartial, interjectionVars, agentVars, channels, history, NewDriver, Driven, Alive
<1> QED
    BY <1>2, <1>3, <1>4, <1>5, <1>6, <1>7, <1>8, <1>9, <1>10, <1>11, <1>12, <1>13, <1>14,
       <1>15, <1>16, <1>17, <1>18, <1>19, <1>20, <1>21, <1>22 DEF MainSteps, DriverSteps

\* A thread that was just opened has no interjection to account for.
LEMMA InterjectionsInit == ThreadInit => InterjectionsInv
BY DEF ThreadInit, AgentInit, NoRun, NewDriver, Alive, Driven, InterjectionsInv, RunIsDriven, Accounted

\* Every step accounts for every interjection.
LEMMA InterjectionsStep ==
    ThreadTypes /\ InterjectionsInv /\ [ThreadNext]_threadVars => InterjectionsInv'
<1> SUFFICES ASSUME ThreadTypes, InterjectionsInv, [ThreadNext]_threadVars
             PROVE  InterjectionsInv'
    OBVIOUS
<1>1. CASE UNCHANGED threadVars
    BY <1>1, InterjectionsFrame
    DEF threadVars, agentVars, channels, history, interjectionVars, Driven, Alive
<1> QED BY <1>1, StepKinds, InterjectionsRun, InterjectionsThread

\* Between turns every interjection the client was told was taken is accounted for:
\* an event told what became of it, or it is one of those no event will tell of, or,
\* when no driver has looked at it, it waits in the channel for a turn to come.
THEOREM InterjectionsSettleCorrect == ThreadSpec => []InterjectionsSettle
<1>1. InterjectionsInv => InterjectionsSettle
    BY NoContents
    DEF InterjectionsInv, InterjectionsSettle, Quiet, RunIsDriven, Driven, Accounted
<1> QED
    BY <1>1, TypesInit, TypesStep, InterjectionsInit, InterjectionsStep, PTL DEF ThreadSpec

-----------------------------------------------------------------------------
(* The transcript of a request.                                            *)

\* The last message calls tools whose results are not there yet.
OpenCalls(s) == s # <<>> /\ Last(s) = "calls" /\ Paired(Front(s))

\* The run has called tools and has not added their results.
Working == run.at \in {"acting", "asking", "tools"}

SessionSound == IF Working THEN OpenCalls(session) ELSE Paired(session)

PairingInv ==
    ~spoiled =>
        /\ \A r \in ToSet(log) : Paired(r.messages)
        /\ Paired(partial.messages) \/ OpenCalls(partial.messages)
        /\ SessionSound
        /\ Paired(old.messages) \/ (old.at = "turn" /\ OpenCalls(old.messages))

\* What may be appended to a transcript that pairs its calls.
LEMMA PairedFacts ==
    ASSUME NEW s \in Transcripts, Paired(s)
    PROVE  /\ Forkable(s) = s
           /\ Paired(Append(s, "user")) /\ Paired(Append(s, "text"))
           /\ OpenCalls(Append(s, "calls"))
           /\ \A n \in Nat : Paired(s \o [k \in 1 .. n |-> "user"])
           /\ Paired(s \o <<"text", "user">>)
<1> USE DEF Transcripts
<1>1. s # <<>> => s[Len(s)] # "calls" /\ Last(s) = s[Len(s)]
    BY DEF Paired, Last
<1>2. Paired(Append(s, "user")) /\ Paired(Append(s, "text"))
    BY DEF Paired, MessageKinds
<1>3. OpenCalls(Append(s, "calls"))
  <2>1. Append(s, "calls") # <<>> /\ Last(Append(s, "calls")) = "calls"
    BY DEF MessageKinds, Last
  <2>2. Front(Append(s, "calls")) = s
    BY DEF MessageKinds, Front
  <2> QED BY <2>1, <2>2 DEF OpenCalls
<1>4. \A n \in Nat : Paired(s \o [k \in 1 .. n |-> "user"])
    BY DEF Paired, MessageKinds
<1>5. Paired(s \o <<"text", "user">>)
    BY DEF Paired, MessageKinds
<1> QED BY <1>1, <1>2, <1>3, <1>4, <1>5 DEF Forkable

\* Calls without results are dropped by fork_prefix_len, or paired by their results.
LEMMA OpenCallsFacts ==
    ASSUME NEW s \in Transcripts, OpenCalls(s)
    PROVE  Paired(Forkable(s)) /\ Paired(Append(s, "results"))
<1>1. Paired(Forkable(s))
    BY DEF Forkable, OpenCalls
<1>2. /\ Len(s) \in Nat \ {0} /\ s[Len(s)] = "calls"
      /\ Len(Front(s)) = Len(s) - 1 /\ \A k \in 1 .. Len(s) - 1 : Front(s)[k] = s[k]
  <2>1. s # <<>> /\ s \in Seq(MessageKinds)
    BY DEF OpenCalls, Transcripts
  <2>2. Len(s) \in Nat \ {0}
    BY <2>1
  <2>3. s[Len(s)] = "calls"
    BY DEF OpenCalls, Last
  <2>4. Len(Front(s)) = Len(s) - 1 /\ \A k \in 1 .. Len(s) - 1 : Front(s)[k] = s[k]
    BY <2>1, <2>2 DEF Front
  <2> QED BY <2>2, <2>3, <2>4
<1>3. /\ Len(Append(s, "results")) = Len(s) + 1
      /\ \A k \in 1 .. Len(s) : Append(s, "results")[k] = s[k]
      /\ Append(s, "results")[Len(s) + 1] = "results"
    BY DEF Transcripts
<1>4. \A k \in 1 .. Len(s) - 1 : /\ s[k] = "calls"   => k < Len(s) - 1 /\ s[k + 1] = "results"
                                 /\ s[k] = "results" => k > 1 /\ s[k - 1] = "calls"
    BY <1>2 DEF OpenCalls, Paired
<1>5. Paired(Append(s, "results"))
    BY <1>2, <1>3, <1>4 DEF Paired
<1> QED BY <1>1, <1>5

\* The empty transcript pairs its calls.
LEMMA NoMessages == Paired(<<>>)
BY DEF Paired

\* The rest of a run pairs the calls of its transcript.
LEMMA EndingsPair ==
    ASSUME NEW s \in Transcripts, Paired(s) \/ OpenCalls(s), NEW e \in Endings(s)
    PROVE  Paired(e)
<1>1. CASE OpenCalls(s)
  <2>1. s # <<>> /\ Last(s) = "calls" /\ Paired(Front(s))
    BY <1>1 DEF OpenCalls
  <2>2. e = Front(s) \/ e = Append(s, "results")
    BY <2>1 DEF Endings
  <2> QED BY <1>1, <2>1, <2>2, OpenCallsFacts
<1>2. CASE Paired(s)
  <2>1. s # <<>> => Last(s) # "calls"
    BY <1>2 DEF Paired, Last, Transcripts
  <2>2. e = s \/ e = Append(s, "text")
    BY <2>1 DEF Endings
  <2> QED BY <1>2, <2>2, PairedFacts
<1> QED BY <1>1, <1>2

\* The run extends, cuts and replaces its transcript soundly.
LEMMA PairingRun ==
    ASSUME ThreadTypes, PairingInv, RunSteps, UnchangedBut
    PROVE  PairingInv'
<1> USE DEF ThreadTypes
<1>2. UNCHANGED <<log, partial, old>>
    BY DEF UnchangedBut, disk
<1>3. SUFFICES ASSUME ~spoiled' PROVE ~spoiled /\ (SessionSound => SessionSound')
    BY <1>2 DEF PairingInv
<1>4. session \in Transcripts
    BY DEF AgentTypes
<1>5. Paired(session) => Paired(session \o [k \in 1 .. Len(inbox) |-> "user"])
    BY <1>4, PairedFacts DEF AgentTypes
<1>6. ASSUME EndRun, session' \in {session, Forkable(session)}, spoiled' = spoiled, ~Working
      PROVE  ~spoiled /\ (SessionSound => SessionSound')
    BY <1>3, <1>4, <1>6, PairedFacts DEF SessionSound, Working, EndRun, NoRun
<1>7. CASE StopAtTop
    BY <1>6, <1>7 DEF StopAtTop, AbortRun, At, Working
<1>8. CASE BeginThink
  <2>1. CASE run.thinks = MaxThinks
    BY <1>6, <1>8, <2>1 DEF BeginThink, At, Working
  <2>2. CASE run.thinks # MaxThinks
    <3>1. run'.at = "thinking"
        BY <1>8, <2>2 DEF BeginThink, AgentTypes, RunStates
    <3>2. session' = session \o [k \in 1 .. Len(inbox) |-> "user"] /\ spoiled' = spoiled
        BY <1>8, <2>2 DEF BeginThink, Inject
    <3> QED BY <1>3, <1>5, <1>8, <3>1, <3>2 DEF BeginThink, SessionSound, Working, At
  <2> QED BY <2>1, <2>2
<1>9. CASE StopThinking
    BY <1>6, <1>9 DEF StopThinking, AbortRun, At, Working
<1>10. CASE EndTurn
    BY <1>6, <1>10 DEF EndTurn, At, Working
<1>11. CASE AskUser \/ TakeDecision \/ StopAsking \/ RunTools
  <2>1. UNCHANGED <<session, spoiled>> /\ Working
    BY <1>11 DEF AskUser, TakeDecision, StopAsking, RunTools, At, Working
  <2>2. Working'
    <3>1. \A g : Resolved(g).at = "acting"
        BY DEF Resolved, AgentTypes, RunStates
    <3>2. CASE AskUser
        BY <3>2 DEF AskUser, Working, AgentTypes, RunStates
    <3>3. CASE TakeDecision
        BY <3>1, <3>3 DEF TakeDecision, Working, At
    <3>4. CASE StopAsking
        BY <3>1, <3>4 DEF StopAsking, Working
    <3>5. CASE RunTools
        BY <3>5 DEF RunTools, Working, AgentTypes, RunStates
    <3> QED BY <1>11, <3>2, <3>3, <3>4, <3>5
  <2> QED BY <1>3, <2>1, <2>2 DEF SessionSound
<1>12. CASE StopTools
  <2>1. Working /\ run'.at = "none" /\ session' = Forkable(session) /\ spoiled' = spoiled
    BY <1>12 DEF StopTools, AbortRun, EndRun, NoRun, At, Working
  <2>2. SessionSound => Paired(session')
    BY <1>4, <2>1, OpenCallsFacts DEF SessionSound
  <2> QED BY <1>3, <2>1, <2>2 DEF SessionSound, Working
<1>13. CASE ReplyText
  <2>1. Paired(session) => Paired(Append(session, "text")) /\ Append(session, "text") \in Transcripts
    BY <1>4, PairedFacts, TranscriptFacts DEF MessageKinds
  <2>2. session' = Append(session, "text") \o [k \in 1 .. Len(inbox) |-> "user"]
    BY <1>13 DEF ReplyText, Inject
  <2>3. Paired(session) => Paired(session')
    BY <2>1, <2>2, PairedFacts DEF AgentTypes
  <2>4. ~Working /\ ~Working' /\ spoiled' = spoiled
    BY <1>13 DEF ReplyText, Working, At, AgentTypes, RunStates
  <2> QED BY <1>3, <2>3, <2>4 DEF SessionSound
<1>14. CASE ReplyCalls
  <2>1. ~Working /\ Working' /\ session' = Append(session, "calls") /\ spoiled' = spoiled
    BY <1>14 DEF ReplyCalls, Working, At, AgentTypes, RunStates
  <2> QED BY <1>3, <1>4, <2>1, PairedFacts DEF SessionSound
<1>15. CASE Observe
  <2>1. Working /\ ~Working'
    BY <1>15 DEF Observe, Working, At, AgentTypes, RunStates
  <2>2. session' = Append(session, "results") /\ ~spoiled
    BY <1>3, <1>15 DEF Observe
  <2> QED BY <1>4, <2>1, <2>2, OpenCallsFacts DEF SessionSound
<1>16. CASE ThinkFails
  <2>1. ~Working /\ ~Working' /\ session' = session /\ spoiled' = spoiled
    BY <1>16 DEF ThinkFails, Working, At, NoRun
  <2> QED BY <1>3, <2>1 DEF SessionSound
<1>17. CASE ThinkGivesUp
    BY <1>6, <1>17 DEF ThinkGivesUp, At, Working
<1>18. CASE ReplyTruncated
  <2>1. ~Working /\ ~Working' /\ ~spoiled /\ session' = session \o <<"text", "user">>
    BY <1>3, <1>18 DEF ReplyTruncated, Working, At, AgentTypes, RunStates, Partial
  <2> QED BY <1>4, <2>1, PairedFacts DEF SessionSound
<1>19. CASE ReplyStopped
  <2>1. ~Working /\ ~Working' /\ ~spoiled /\ session' = Append(session, "text")
    BY <1>3, <1>19 DEF ReplyStopped, EndRun, NoRun, Working, At, Partial
  <2> QED BY <1>4, <2>1, PairedFacts DEF SessionSound
<1>20. CASE AutoCompact
  <2>1. ~Working' /\ Paired(session') /\ spoiled' = spoiled
    BY <1>20, CompactionFacts DEF AutoCompact, Working, AgentTypes, RunStates
  <2> QED BY <1>3, <2>1 DEF SessionSound
<1> QED
    BY <1>7, <1>8, <1>9, <1>10, <1>11, <1>12, <1>13, <1>14, <1>15, <1>16, <1>17, <1>18, <1>19,
       <1>20 DEF RunSteps, AgentSteps, WorldSteps, OddReplies

\* The variables PairingInv is about.
pairingVars == <<session, run, spoiled, log, partial, old>>

\* A step that leaves transcript, run, log and checkpoint alone keeps PairingInv.
LEMMA PairingFrame ==
    ASSUME PairingInv, UNCHANGED pairingVars
    PROVE  PairingInv'
BY DEF PairingInv, SessionSound, Working, pairingVars

\* A session command leaves a sound transcript and sound records.
LEMMA ApplyPairs ==
    ASSUME ThreadTypes, NEW c, Apply(c), Paired(session), \A r \in ToSet(log) : Paired(r.messages)
    PROVE  Paired(session') /\ \A r \in ToSet(log') : Paired(r.messages)
<1>1. Paired(session')
    BY CompactionFacts, NoMessages DEF Apply
<1>2. /\ Record(NoTurn, <<>>) \in Records /\ Record(NoTurn, session') \in Records
      /\ log \in Seq(Records) /\ <<>> \in Seq(Records)
    BY ApplyTypes, RecordTypes, TranscriptFacts DEF ThreadTypes, DriverTypes
<1>3. /\ ToSet(Append(log, Record(NoTurn, session'))) = ToSet(log) \cup {Record(NoTurn, session')}
      /\ ToSet(<<Record(NoTurn, <<>>)>>) = {Record(NoTurn, <<>>)}
    BY <1>2, Contents DEF ToSet
<1>4. \/ log' = <<Record(NoTurn, <<>>)>> \/ log' = log
      \/ log' = Append(log, Record(NoTurn, session'))
    BY DEF Apply
<1>5. \A r \in ToSet(log') : r \in ToSet(log) \cup {Record(NoTurn, <<>>), Record(NoTurn, session')}
    BY <1>3, <1>4
<1> QED BY <1>1, <1>5, NoMessages DEF Record

\* Commands, checkpoints, records and resumes take sound transcripts to sound ones.
LEMMA PairingThread ==
    ASSUME ThreadTypes, PairingInv, RunIsDriven,
           MainSteps \/ Disconnect \/ Crash \/ DriverSteps \/ OldSteps
    PROVE  PairingInv'
<1> USE DEF ThreadTypes
<1>1. CASE TurnStart \/ TurnInterrupt \/ HandleFinished \/ ThreadResume \/ ResumeFails \/ Disconnect
    BY <1>1, PairingFrame
    DEF TurnStart, TurnInterrupt, HandleFinished, ThreadResume, ResumeFails, Disconnect, pairingVars,
        agentVars, disk
<1>2. ASSUME NEW i \in Interjections, TurnInterject(i) PROVE PairingInv'
    BY <1>2, PairingFrame DEF TurnInterject, pairingVars, agentVars, disk
<1>3. ASSUME NEW c \in Commands, SendCommand(c) PROVE PairingInv'
    BY <1>3, PairingFrame DEF SendCommand, pairingVars, agentVars, disk
<1>4. ASSUME NEW allow \in BOOLEAN, Answer(allow) PROVE PairingInv'
    BY <1>4, PairingFrame DEF Answer, pairingVars, agentVars, disk
<1>5. CASE Reload
  <2>1. SUFFICES ASSUME ~spoiled' PROVE ~spoiled /\ PairingInv'
    BY DEF PairingInv
  <2>2. ~spoiled /\ (Loaded = <<>> \/ Last(Loaded) # "calls")
    BY <1>5, <2>1 DEF Reload
  <2>3. /\ \A r \in ToSet(log) : Paired(r.messages)
        /\ Paired(partial.messages) \/ OpenCalls(partial.messages)
    BY <2>2 DEF PairingInv
  <2>4. Pending => Paired(partial.messages)
    BY <2>2, <2>3, NoMessages DEF Loaded, OpenCalls
  <2>5. Paired(Latest(log))
    <3>1. \A k \in DOMAIN log : log[k] \in ToSet(log)
        BY DEF ToSet
    <3> QED BY <2>3, <3>1, LatestFacts, NoMessages DEF DriverTypes
  <2>6. Paired(session') /\ ~Working'
    BY <1>5, <2>4, <2>5, LoadedFacts DEF Reload, FreshAgent, NoRun, Working
  <2>7. \A r \in ToSet(log') : Paired(r.messages)
    <3>1. log \in Seq(Records) /\ partial \in Records
        BY DEF DriverTypes
    <3>2. log' = log \/ (Pending /\ log' = Append(log, partial))
        BY <1>5 DEF Reload, Promote, disk
    <3>3. ToSet(Append(log, partial)) = ToSet(log) \cup {partial}
        BY <3>1, Contents
    <3> QED BY <2>3, <2>4, <3>2, <3>3
  <2>8. Paired(partial'.messages) \/ OpenCalls(partial'.messages)
    <3>1. partial' = partial \/ partial' = NoPartial
        BY <1>5 DEF Reload, Promote, disk
    <3> QED BY <2>3, <3>1, NoMessages DEF NoPartial
  <2>9. Paired(old'.messages) \/ (old'.at = "turn" /\ OpenCalls(old'.messages))
    <3>1. old' = Left
        BY <1>5 DEF Reload
    <3>2. \A p, t : Old(p, t).at = p /\ Old(p, t).messages = session
        BY DEF Old
    <3>3. Paired(session) \/ OpenCalls(session)
        BY <2>2 DEF PairingInv, SessionSound
    <3>4. driver.at \in {"settled", "idle"} => Paired(session)
        BY <2>2 DEF PairingInv, SessionSound, RunIsDriven, Driven, Working, NoRun
    <3>5. NoOld.messages = <<>> /\ [NoOld EXCEPT !.at = "settled"].messages = <<>>
        BY DEF NoOld
    <3> QED BY <3>1, <3>2, <3>3, <3>4, <3>5, NoMessages DEF Left
  <2> QED BY <2>2, <2>6, <2>7, <2>8, <2>9 DEF PairingInv, SessionSound
<1>6. CASE OldBegins
  <2>1. partial'.messages = old.messages /\ UNCHANGED <<session, run, spoiled, log>>
    BY <1>6 DEF OldBegins, OldUnchanged, Record, agentVars
  <2>2. old.at # "turn" /\ old'.messages = Append(old.messages, "user")
    BY <1>6 DEF OldBegins, DriverTypes, Olds
  <2>3. Paired(old.messages) => Paired(old'.messages)
    BY <2>2, OldEdits, PairedFacts DEF DriverTypes
  <2> QED BY <2>1, <2>2, <2>3 DEF PairingInv, SessionSound, Working
<1>21. CASE OldCheckpoint
  <2>1. partial'.messages = old.messages /\ UNCHANGED <<session, run, spoiled, log, old>>
    BY <1>21 DEF OldCheckpoint, OldUnchanged, Record, agentVars
  <2> QED BY <2>1 DEF PairingInv, SessionSound, Working
<1>22. CASE OldEnds
  <2>1. old'.messages = <<>> /\ UNCHANGED <<session, run, spoiled, partial>>
    BY <1>22 DEF OldEnds, OldUnchanged, NoOld, agentVars
  <2>2. SUFFICES ASSUME ~spoiled PROVE \A r \in ToSet(log') : Paired(r.messages)
    BY <2>1, NoMessages DEF PairingInv, SessionSound, Working
  <2>3. CASE log' = log
    BY <2>2, <2>3 DEF PairingInv
  <2>4. ASSUME NEW s \in Endings(old.messages), log' = Append(log, Record(old.turn, s))
        PROVE  \A r \in ToSet(log') : Paired(r.messages)
    <3>1. old.turn \in TurnIds /\ old.messages \in Transcripts
        BY OldEdits DEF DriverTypes
    <3>2. s \in Transcripts /\ Paired(s)
        BY <2>2, <3>1, EndingsTypes, EndingsPair DEF PairingInv
    <3>3. Record(old.turn, s) \in Records /\ Record(old.turn, s).messages = s /\ log \in Seq(Records)
        BY <3>1, <3>2, RecordTypes DEF Record, DriverTypes
    <3>4. ToSet(log') = ToSet(log) \cup {Record(old.turn, s)}
        BY <2>4, <3>3, Contents
    <3> QED BY <2>2, <3>2, <3>3, <3>4 DEF PairingInv
  <2> QED BY <1>22, <2>3, <2>4 DEF OldEnds
<1>23. CASE OldClears
  <2>1. partial' = NoPartial /\ UNCHANGED <<session, run, spoiled, log>>
    BY <1>23 DEF OldClears, OldUnchanged, agentVars
  <2>2. old'.messages = old.messages \/ old'.messages = <<>>
    BY <1>23 DEF OldClears, NoOld, DriverTypes, Olds
  <2>3. old.at # "turn"
    BY <1>23 DEF OldClears
  <2> QED BY <2>1, <2>2, <2>3, NoMessages DEF PairingInv, SessionSound, Working, NoPartial
<1>7. CASE Crash
  <2>1. UNCHANGED <<spoiled, log, partial>> /\ session' = <<>> /\ run' = NoRun /\ old'.messages = <<>>
    BY <1>7 DEF Crash, FreshAgent, disk, NoOld
  <2> QED BY <2>1, NoMessages DEF PairingInv, SessionSound, Working, NoRun
<1>8. ASSUME RunIsDriven, ~Driven \/ run = NoRun, Alive, ~spoiled
      PROVE  Paired(session)
    BY <1>8 DEF PairingInv, SessionSound, Working, RunIsDriven, Alive, NoRun
<1>9. CASE DriverCommand
  <2>1. SUFFICES ASSUME ~spoiled' PROVE PairingInv'
    BY DEF PairingInv
  <2>2. ~Driven /\ Alive /\ ~spoiled /\ run' = run
    BY <1>9, <2>1 DEF DriverCommand, Driven, Alive
  <2>3. Paired(session') /\ \A r \in ToSet(log') : Paired(r.messages)
    BY <1>8, <1>9, <2>2, ApplyPairs DEF DriverCommand, PairingInv
  <2>4. Paired(partial'.messages) \/ OpenCalls(partial'.messages)
    BY <1>9, <2>2, NoMessages DEF DriverCommand, PairingInv, NoPartial
  <2>5. ~Working' /\ old' = old
    BY <1>9, <2>2 DEF DriverCommand, RunIsDriven, Alive, NoRun, Working
  <2> QED BY <2>2, <2>3, <2>4, <2>5 DEF PairingInv, SessionSound
<1>10. CASE DriverTurn
  <2>1. SUFFICES ASSUME ~spoiled' PROVE PairingInv'
    BY DEF PairingInv
  <2>2. ~Driven /\ Alive /\ ~spoiled
    BY <1>10, <2>1 DEF DriverTurn, StartRun, Driven, Alive
  <2>3. Paired(session)
    BY <1>8, <2>2
  <2>4. /\ partial'.messages = session /\ session' = Append(session, "user") /\ ~Working'
        /\ UNCHANGED <<log, old>>
    BY <1>10 DEF DriverTurn, StartRun, Record, NoRun, Working
  <2>5. Paired(session')
    BY <2>3, <2>4, PairedFacts DEF AgentTypes
  <2> QED BY <2>2, <2>3, <2>4, <2>5 DEF PairingInv, SessionSound
<1>11. CASE ReadEvent \/ TakeInterjection
    BY <1>11, PairingFrame DEF ReadEvent, TakeInterjection, pairingVars, disk
<1>12. CASE ReadAsk
    BY <1>12, PairingFrame DEF ReadAsk, Driving, pairingVars, disk
<1>13. CASE DriverGone
    BY <1>13, PairingFrame DEF DriverGone, pairingVars, agentVars, disk
<1>24. CASE DriverReturns
  <2>1. run'.at = run.at
    BY <1>24 DEF DriverReturns, NoRun, AgentTypes, RunStates
  <2>2. UNCHANGED <<session, spoiled, log, old>> /\ partial' = NoPartial
    BY <1>24 DEF DriverReturns
  <2> QED BY <2>1, <2>2, NoMessages DEF PairingInv, SessionSound, Working, NoPartial
<1>25. CASE SendDecision
    BY <1>25, PairingFrame DEF SendDecision, pairingVars, disk
<1>14. CASE EndApproval
    BY <1>14, PairingFrame DEF EndApproval, pairingVars, agentVars, disk
<1>15. CASE TakeInterrupt
  <2>1. run'.at = run.at
    BY <1>15 DEF TakeInterrupt, AgentTypes, RunStates
  <2>2. UNCHANGED <<session, spoiled, log, partial, old>>
    BY <1>15 DEF TakeInterrupt, disk
  <2> QED BY <2>1, <2>2 DEF PairingInv, SessionSound, Working
<1>16. CASE KeepCommand
    BY <1>16, PairingFrame DEF KeepCommand, Driving, pairingVars, agentVars, disk
<1>17. CASE Checkpoint
  <2>1. partial'.messages = session /\ UNCHANGED <<session, run, spoiled, log, old>>
    BY <1>17 DEF Checkpoint, Record, agentVars
  <2> QED BY <2>1 DEF PairingInv, SessionSound, Working
<1>18. CASE EndWithCommand
  <2>1. SUFFICES ASSUME ~spoiled' PROVE PairingInv'
    BY DEF PairingInv
  <2>2. run = NoRun /\ Alive /\ ~spoiled /\ UNCHANGED <<run, partial, old>>
    BY <1>18, <2>1 DEF EndWithCommand, StreamEnded, Driving, Alive
  <2>3. Paired(session') /\ \A r \in ToSet(log') : Paired(r.messages)
    BY <1>8, <1>18, <2>2, ApplyPairs DEF EndWithCommand, PairingInv
  <2> QED BY <2>2, <2>3 DEF PairingInv, SessionSound, Working, NoRun
<1>19. CASE EndTurnOfThread
  <2>1. SUFFICES ASSUME ~spoiled' PROVE PairingInv'
    BY DEF PairingInv
  <2>2. run = NoRun /\ Alive /\ ~spoiled /\ UNCHANGED <<session, run, partial, old>>
    BY <1>19, <2>1 DEF EndTurnOfThread, StreamEnded, Driving, Alive, agentVars
  <2>3. Paired(session)
    BY <1>8, <2>2
  <2>4. /\ Record(driver.turn, session) \in Records /\ log \in Seq(Records)
        /\ Record(driver.turn, session).messages = session
    BY RecordTypes DEF AgentTypes, DriverTypes, Drivers, Record
  <2>5. log' = log \/ log' = Append(log, Record(driver.turn, session))
    BY <1>19 DEF EndTurnOfThread
  <2>6. \A r \in ToSet(log') : r \in ToSet(log) \/ r = Record(driver.turn, session)
    <3>1. ToSet(Append(log, Record(driver.turn, session)))
                = ToSet(log) \cup {Record(driver.turn, session)}
        BY <2>4, Contents
    <3> QED BY <2>5, <3>1
  <2> QED BY <2>2, <2>3, <2>4, <2>6 DEF PairingInv, SessionSound, Working, NoRun
<1>20. CASE ClearPartial
  <2>1. partial' = NoPartial /\ UNCHANGED <<session, run, spoiled, log, old>>
    BY <1>20 DEF ClearPartial, agentVars
  <2> QED BY <2>1, NoMessages DEF PairingInv, SessionSound, Working, NoPartial
<1> QED
    BY <1>1, <1>2, <1>3, <1>4, <1>5, <1>6, <1>7, <1>9, <1>10, <1>11, <1>12, <1>13, <1>14,
       <1>15, <1>16, <1>17, <1>18, <1>19, <1>20, <1>21, <1>22, <1>23, <1>24, <1>25
    DEF MainSteps, DriverSteps, OldSteps

\* The transcript a request sends to the model pairs every call with its results,
\* unless it was spoiled by a reply that was cut short, a checkpoint that ended in
\* calls, or a run that went on deaf.
THEOREM RequestsArePairedCorrect == ThreadSpec => []RequestsArePaired
<1>1. ThreadInit => PairingInv
    BY NoMessages, NoContents
    DEF ThreadInit, AgentInit, PairingInv, SessionSound, Working, NoPartial, NoRun, NoOld
<1>2. ThreadTypes /\ InterjectionsInv /\ PairingInv /\ [ThreadNext]_threadVars => PairingInv'
  <2> SUFFICES ASSUME ThreadTypes, InterjectionsInv, PairingInv, [ThreadNext]_threadVars
               PROVE  PairingInv'
    OBVIOUS
  <2>1. CASE UNCHANGED threadVars
    BY <2>1, PairingFrame DEF threadVars, agentVars, disk, pairingVars
  <2> QED BY <2>1, StepKinds, PairingRun, PairingThread DEF InterjectionsInv
<1>3. PairingInv => RequestsArePaired
    BY DEF PairingInv, SessionSound, Working, RequestsArePaired, At
<1> QED
    BY <1>1, <1>2, <1>3, TypesInit, TypesStep, InterjectionsInit, InterjectionsStep, PTL
    DEF ThreadSpec

-----------------------------------------------------------------------------
(* Turns: one at a time, each given to one driver.                         *)

\* The driver drives the run of its turn, and has not given it up.
InTurn == driver.at \in {"turn", "approval", "sending"}

\* A turn a replaced driver has, or will take up, is none of the new driver's.
OldTurnIsOld ==
    old.turn # NoTurn => /\ old.turn \in (1 .. issued) \cap outlived
                         /\ old.turn # main.active

TurnsInv ==
    /\ main.active \in {NoTurn, issued} /\ started \subseteq 1 .. issued
    /\ ToSet(finished) \subseteq started
    /\ prompts # <<>> => prompts = <<main.active>> /\ main.active \in Turns \ started /\ ~InTurn
    /\ InTurn => /\ main.active = driver.turn /\ driver.turn \in started \ ToSet(finished)
                 /\ driver.pendingCmd \notin {"Clear", "Compact"}
                 /\ driver.pendingCmd # NoCommand => main.at = "awaiting" /\ command = NoCommand
    /\ driver.at = "leaving" => driver.turn \in started
    /\ command # NoCommand => main.at = "awaiting"
    /\ command \in {"Clear", "Compact"} => main.active = NoTurn
    /\ OldTurnIsOld /\ (old.at = "turn" => old.turn \in started)

\* The variables TurnsInv is about, the driver apart.
turnVars == <<main, issued, prompts, finished, command, started, old, outlived>>

\* The driver keeps the turn it has, or takes none up.
SameTurn ==
    /\ InTurn' => InTurn /\ driver'.turn = driver.turn /\ driver'.pendingCmd = driver.pendingCmd
    /\ driver'.at = "leaving" => driver.at = "leaving" /\ driver'.turn = driver.turn

\* A step that leaves the turns alone keeps TurnsInv.
LEMMA TurnsFrame ==
    ASSUME TurnsInv, UNCHANGED turnVars, SameTurn
    PROVE  TurnsInv'
BY DEF TurnsInv, OldTurnIsOld, turnVars, SameTurn

\* While a turn is taken up, it is the active one; a free thread has none under way.
LEMMA NoneIsNoTurn ==
    ASSUME ThreadTypes, TurnsInv
    PROVE  /\ \A t \in started : t # NoTurn
           /\ InTurn => main.active # NoTurn
           /\ main.active = NoTurn => prompts = <<>> /\ ~InTurn
BY DEF TurnsInv, ThreadTypes, DriverTypes, Turns, NoTurn

\* What a driver that is replaced is left with: the active turn, or none.
LEMMA LeftFacts ==
    ASSUME ThreadTypes, TurnsInv
    PROVE  /\ Left.turn \in {NoTurn, main.active}
           /\ Left.at = "turn" => InTurn /\ Left.turn = driver.turn
<1>0. \A p, t : Old(p, t).at = p /\ Old(p, t).turn = t
    BY DEF Old
<1>1. CASE InTurn
    BY <1>0, <1>1 DEF Left, InTurn, TurnsInv
<1>2. CASE driver.at = "leaving"
    BY <1>2 DEF Left, NoOld
<1>3. CASE driver.at = "settled"
    BY <1>0, <1>3 DEF Left, NextPrompt, TurnsInv
<1>4. CASE driver.at = "idle"
    BY <1>0, <1>4 DEF Left, NoOld, TurnsInv
<1>5. CASE driver.at = "gone"
    BY <1>5 DEF Left, NoOld
<1> QED BY <1>1, <1>2, <1>3, <1>4, <1>5 DEF InTurn, ThreadTypes, DriverTypes, Drivers

\* A turn is asked for, taken up and ended once; commands that rewrite the transcript
\* find no turn under way.
LEMMA TurnsThread ==
    ASSUME ThreadTypes, TurnsInv,
           MainSteps \/ Disconnect \/ Crash \/ DriverSteps \/ OldSteps
    PROVE  TurnsInv'
<1> USE DEF ThreadTypes
<1>1. CASE TurnStart
  <2>1. main.active = NoTurn /\ prompts = <<>> /\ ~InTurn /\ command = NoCommand
    BY <1>1, NoneIsNoTurn DEF TurnStart, Free, TurnsInv
  <2>2. UNCHANGED <<finished, command, driver, started, old, outlived>> /\ issued' = issued + 1
    BY <1>1 DEF TurnStart, history
  <2>3. started \subseteq 1 .. (issued + 1) /\ issued + 1 \notin started
    BY DEF TurnsInv, DriverTypes
  <2>4. issued + 1 \in Turns
    BY <1>1, BoundAssumption DEF TurnStart, DriverTypes, Turns
  <2>5. \/ prompts' = <<issued + 1>> /\ main'.active = issued + 1
        \/ prompts' = <<>> /\ main' = main
    BY <1>1, <2>1 DEF TurnStart, DriverTypes, Mains
  <2>6. CASE prompts' = <<issued + 1>> /\ main'.active = issued + 1
    <3>1. OldTurnIsOld'
        BY <2>2, <2>6 DEF TurnsInv, OldTurnIsOld, DriverTypes
    <3> QED BY <2>1, <2>2, <2>3, <2>4, <2>6, <3>1 DEF TurnsInv, InTurn, NoCommand
  <2>7. CASE prompts' = <<>> /\ main' = main
    <3>1. OldTurnIsOld'
        BY <2>2, <2>7 DEF TurnsInv, OldTurnIsOld, DriverTypes
    <3> QED BY <2>1, <2>2, <2>3, <2>7, <3>1 DEF TurnsInv, InTurn, NoCommand
  <2> QED BY <2>5, <2>6, <2>7
<1>2. CASE TurnInterrupt \/ Disconnect
    BY <1>2, TurnsFrame
    DEF TurnInterrupt, Disconnect, turnVars, channels, history, SameTurn, InTurn
<1>3. ASSUME NEW i \in Interjections, TurnInterject(i) PROVE TurnsInv'
    BY <1>3, TurnsFrame DEF TurnInterject, turnVars, SameTurn, InTurn
<1>4. ASSUME NEW c \in Commands, SendCommand(c) PROVE TurnsInv'
  <2>1. main'.at = "awaiting" /\ main'.active = main.active /\ main.at = "free"
    BY <1>4 DEF SendCommand, Free, DriverTypes, Mains
  <2>2. command' = c /\ (c \in {"Clear", "Compact"} => main.active = NoTurn)
    BY <1>4 DEF SendCommand
  <2>3. UNCHANGED <<issued, prompts, finished, driver, started, old, outlived>>
    BY <1>4 DEF SendCommand, history
  <2> QED BY <2>1, <2>2, <2>3 DEF TurnsInv, OldTurnIsOld, InTurn
<1>5. ASSUME NEW allow \in BOOLEAN, Answer(allow) PROVE TurnsInv'
  <2>1. driver'.at = driver.at /\ driver'.turn = driver.turn /\ driver'.pendingCmd = driver.pendingCmd
    BY <1>5 DEF Answer, DriverTypes, Drivers
  <2> QED BY <1>5, <2>1, TurnsFrame DEF Answer, turnVars, channels, SameTurn, InTurn
<1>6. CASE HandleFinished
  <2>1. ToSet(finished) = {Head(finished)} \cup ToSet(finished')
    BY <1>6, Contents DEF HandleFinished, DriverTypes
  <2>2. main'.at = main.at /\ main.at # "awaiting"
    BY <1>6 DEF HandleFinished, DriverTypes, Mains
  <2>3. \/ main'.active = main.active
        \/ main'.active = NoTurn /\ Head(finished) = main.active
    BY <1>6 DEF HandleFinished, DriverTypes, Mains
  <2>4. UNCHANGED <<issued, prompts, command, driver, started, old, outlived>>
    BY <1>6 DEF HandleFinished, history
  <2>5. OldTurnIsOld'
    BY <2>3, <2>4 DEF TurnsInv, OldTurnIsOld
  <2> QED BY <2>1, <2>2, <2>3, <2>4, <2>5 DEF TurnsInv, InTurn
<1>7. CASE ThreadResume \/ ResumeFails
  <2>1. main'.active = main.active /\ main.at # "awaiting"
    BY <1>7 DEF ThreadResume, ResumeFails, WaitEnds, Free, DriverTypes, Mains
  <2>2. UNCHANGED <<issued, prompts, finished, command, driver, started, old, outlived>>
    BY <1>7 DEF ThreadResume, ResumeFails, channels, history
  <2> QED BY <2>1, <2>2 DEF TurnsInv, OldTurnIsOld, InTurn
<1>8. CASE Reload
  <2>1. main'.active = NoTurn /\ driver'.at = "idle" /\ prompts' = <<>> /\ command' = NoCommand
    BY <1>8 DEF Reload, FreshAgent, NewDriver
  <2>2. UNCHANGED <<issued, finished, started>> /\ old' = Left /\ Left.turn \in outlived'
    BY <1>8 DEF Reload
  <2>4. Left.turn \in {NoTurn, main.active} /\ (Left.at = "turn" => InTurn /\ Left.turn = driver.turn)
    BY LeftFacts
  <2>5. Left.turn # NoTurn => Left.turn \in 1 .. issued
    <3>1. main.active \in TurnIds /\ issued \in Nat
        BY MainEdits DEF DriverTypes
    <3>2. main.active # NoTurn => main.active = issued /\ main.active \in 1 .. MaxTurns
        BY <3>1 DEF TurnsInv, TurnIds, Turns
    <3>3. main.active # NoTurn => main.active \in 1 .. issued
        BY <3>1, <3>2
    <3> QED BY <2>4, <3>3
  <2>6. OldTurnIsOld'
    BY <2>1, <2>2, <2>5 DEF OldTurnIsOld
  <2>7. old'.at = "turn" => old'.turn \in started'
    BY <2>2, <2>4 DEF TurnsInv
  <2> QED BY <2>1, <2>2, <2>6, <2>7 DEF TurnsInv, InTurn
<1>9. CASE Crash
  <2>1. main'.active = NoTurn /\ ~InTurn' /\ prompts' = <<>> /\ command' = NoCommand
    BY <1>9 DEF Crash, FreshAgent, NewDriver, InTurn
  <2>2. UNCHANGED <<issued, started>> /\ ToSet(finished') = {}
    BY <1>9, NoContents DEF Crash, history
  <2>3. old'.turn = NoTurn /\ old'.at = "none" /\ driver'.at = "gone"
    BY <1>9 DEF Crash, NoOld, NewDriver
  <2> QED BY <2>1, <2>2, <2>3 DEF TurnsInv, OldTurnIsOld
<1>10. CASE DriverCommand
  <2>1. ~InTurn /\ ~InTurn' /\ command' = NoCommand /\ main'.active = main.active
    BY <1>10 DEF DriverCommand, InTurn, DriverTypes, Mains
  <2>2. UNCHANGED <<issued, prompts, finished, started, old, outlived, driver>>
    BY <1>10 DEF DriverCommand
  <2> QED BY <2>1, <2>2 DEF TurnsInv, OldTurnIsOld, NoCommand
<1>11. CASE DriverTurn
  <2>1. prompts = <<main.active>> /\ main.active \in Turns \ started /\ Head(prompts) = main.active
    BY <1>11 DEF DriverTurn, TurnsInv
  <2>2. /\ driver'.turn = main.active /\ driver'.pendingCmd = NoCommand /\ prompts' = <<>>
        /\ driver'.at = "turn"
    BY <1>11, <2>1 DEF DriverTurn, NewDriver
  <2>3. /\ started' = started \cup {main.active}
        /\ UNCHANGED <<main, issued, finished, command, old, outlived>>
    BY <1>11, <2>1 DEF DriverTurn
  <2>4. main.active \in 1 .. issued
    BY <2>1 DEF TurnsInv, Turns, NoTurn, DriverTypes
  <2>5. main.active \notin ToSet(finished)
    BY <2>1 DEF TurnsInv
  <2>6. NoCommand \notin {"Clear", "Compact"}
    BY DEF NoCommand
  <2> QED BY <2>2, <2>3, <2>4, <2>5, <2>6 DEF TurnsInv, OldTurnIsOld
<1>12. CASE ReadEvent \/ TakeInterjection
    BY <1>12, TurnsFrame DEF ReadEvent, TakeInterjection, turnVars, channels, SameTurn, InTurn
<1>13. CASE ReadAsk
  <2>1. InTurn /\ InTurn' /\ SameTurn
    BY <1>13 DEF ReadAsk, Driving, InTurn, SameTurn, DriverTypes, Drivers
  <2> QED BY <1>13, <2>1, TurnsFrame DEF ReadAsk, turnVars, channels, history
<1>14. CASE DriverGone
  <2>1. InTurn /\ driver'.at = "leaving" /\ ~InTurn' /\ driver'.turn = driver.turn
    BY <1>14 DEF DriverGone, Driving, InTurn, DriverTypes, Drivers
  <2>2. UNCHANGED <<main, issued, prompts, command, started, old, outlived>>
    BY <1>14 DEF DriverGone, history
  <2>3. ToSet(finished') = ToSet(finished) \cup {driver.turn}
    BY <1>14, Contents DEF DriverGone, DriverTypes, Drivers
  <2> QED BY <2>1, <2>2, <2>3 DEF TurnsInv, OldTurnIsOld
<1>21. CASE DriverReturns
  <2>1. /\ driver'.at = "gone" /\ ~InTurn' /\ prompts' = <<>> /\ command' = NoCommand
        /\ main'.active = main.active
    BY <1>21 DEF DriverReturns, NewDriver, InTurn, DriverTypes, Mains
  <2>2. UNCHANGED <<issued, finished, started, old, outlived>>
    BY <1>21 DEF DriverReturns
  <2> QED BY <2>1, <2>2 DEF TurnsInv, OldTurnIsOld, NoCommand
<1>22. CASE SendDecision
  <2>1. SameTurn
    BY <1>22 DEF SendDecision, InTurn, SameTurn, DriverTypes, Drivers
  <2> QED BY <1>22, <2>1, TurnsFrame DEF SendDecision, turnVars, channels, history
<1>23. CASE OldBegins
  <2>1. old.turn \in Turns /\ old'.turn = old.turn /\ old.turn # NoTurn
    BY <1>23 DEF OldBegins, DriverTypes, Olds, Turns, NoTurn
  <2>2. UNCHANGED <<main, issued, prompts, command, driver, finished, outlived>>
    BY <1>23 DEF OldBegins, OldUnchanged
  <2>3. started' = started \cup {old.turn}
    BY <1>23 DEF OldBegins
  <2>4. old.turn \in 1 .. issued /\ old.turn # main.active
    BY <2>1 DEF TurnsInv, OldTurnIsOld
  <2> QED BY <2>1, <2>2, <2>3, <2>4 DEF TurnsInv, OldTurnIsOld, InTurn
<1>24. CASE OldCheckpoint
    BY <1>24, TurnsFrame DEF OldCheckpoint, OldUnchanged, turnVars, SameTurn, InTurn
<1>25. CASE OldEnds
  <2>1. old'.turn = NoTurn /\ old'.at # "turn" /\ old.turn \in started
    BY <1>25 DEF OldEnds, NoOld, TurnsInv
  <2>2. UNCHANGED <<main, issued, prompts, command, driver, started, outlived>>
    BY <1>25 DEF OldEnds, OldUnchanged
  <2>3. ToSet(finished') = ToSet(finished) \cup {old.turn}
    <3>1. old.turn \in TurnIds /\ finished \in Seq(TurnIds)
        BY OldEdits DEF DriverTypes
    <3>2. finished' = Append(finished, old.turn)
        BY <1>25 DEF OldEnds
    <3> QED BY <3>1, <3>2, Contents
  <2>4. old.turn # NoTurn
    BY <2>1 DEF DriverTypes, Turns, NoTurn
  <2>5. InTurn => driver.turn # old.turn
    BY <2>4 DEF TurnsInv, OldTurnIsOld
  <2> QED BY <2>1, <2>2, <2>3, <2>5 DEF TurnsInv, OldTurnIsOld, InTurn
<1>26. CASE OldClears
  <2>1. /\ old'.turn \in {NoTurn, old.turn} /\ old'.at # "turn"
        /\ UNCHANGED <<main, issued, prompts, command, driver, started, finished, outlived>>
    BY <1>26 DEF OldClears, OldUnchanged, NoOld, DriverTypes, Olds
  <2> QED BY <2>1 DEF TurnsInv, OldTurnIsOld, InTurn
<1>15. CASE EndApproval
  <2>1. InTurn /\ InTurn' /\ SameTurn
    BY <1>15 DEF EndApproval, Answered, InTurn, SameTurn, DriverTypes, Drivers
  <2> QED BY <1>15, <2>1, TurnsFrame DEF EndApproval, turnVars, channels, history
<1>16. CASE TakeInterrupt
  <2>1. InTurn /\ InTurn' /\ SameTurn
    BY <1>16 DEF TakeInterrupt, InTurn, SameTurn, DriverTypes, Drivers
  <2> QED BY <1>16, <2>1, TurnsFrame DEF TakeInterrupt, turnVars, history
<1>17. CASE KeepCommand
  <2>1. /\ InTurn /\ InTurn' /\ driver'.turn = driver.turn /\ driver'.pendingCmd = command
        /\ command' = NoCommand /\ command # NoCommand
    BY <1>17 DEF KeepCommand, Driving, InTurn, DriverTypes, Drivers
  <2>2. command \notin {"Clear", "Compact"} /\ main.at = "awaiting"
    BY <2>1, NoneIsNoTurn DEF TurnsInv
  <2>3. UNCHANGED <<main, issued, prompts, finished, started, old, outlived>>
    BY <1>17 DEF KeepCommand, history
  <2>4. driver'.at # "leaving"
    BY <1>17 DEF KeepCommand, Driving, DriverTypes, Drivers
  <2> QED BY <2>1, <2>2, <2>3, <2>4 DEF TurnsInv, OldTurnIsOld
<1>18. CASE Checkpoint
    BY <1>18, TurnsFrame DEF Checkpoint, turnVars, channels, history, SameTurn, InTurn
<1>19. CASE EndWithCommand \/ EndTurnOfThread
  <2>1. InTurn /\ ~InTurn' /\ driver'.at # "leaving"
    BY <1>19 DEF EndWithCommand, EndTurnOfThread, StreamEnded, Driving, Settled, InTurn, DriverTypes,
              Drivers
  <2>2. ToSet(finished') = ToSet(finished) \cup {driver.turn}
    <3>1. driver.turn \in TurnIds /\ finished \in Seq(TurnIds)
        BY DEF DriverTypes, Drivers
    <3>2. finished' = Append(finished, driver.turn)
        BY <1>19 DEF EndWithCommand, EndTurnOfThread, Settled
    <3> QED BY <3>1, <3>2, Contents
  <2>3. UNCHANGED <<issued, prompts, command, started, old, outlived>> /\ main'.active = main.active
    BY <1>19 DEF EndWithCommand, EndTurnOfThread, DriverTypes, Mains
  <2>4. main' = main \/ command = NoCommand
    BY <1>19, <2>1 DEF EndWithCommand, EndTurnOfThread, TurnsInv
  <2> QED BY <2>1, <2>2, <2>3, <2>4 DEF TurnsInv, OldTurnIsOld
<1>20. CASE ClearPartial
    BY <1>20, TurnsFrame
    DEF ClearPartial, turnVars, channels, history, SameTurn, InTurn, NewDriver
<1> QED
    BY <1>1, <1>2, <1>3, <1>4, <1>5, <1>6, <1>7, <1>8, <1>9, <1>10, <1>11, <1>12, <1>13, <1>14,
       <1>15, <1>16, <1>17, <1>18, <1>19, <1>20, <1>21, <1>22, <1>23, <1>24, <1>25, <1>26
    DEF MainSteps, DriverSteps, OldSteps

\* A thread that was just opened has no turn.
LEMMA TurnsInit == ThreadInit => TurnsInv
BY NoContents DEF ThreadInit, TurnsInv, OldTurnIsOld, NoOld, NewDriver, InTurn, NoCommand

\* Every step keeps TurnsInv.
LEMMA TurnsStep == ThreadTypes /\ TurnsInv /\ [ThreadNext]_threadVars => TurnsInv'
<1> SUFFICES ASSUME ThreadTypes, TurnsInv, [ThreadNext]_threadVars PROVE TurnsInv'
    OBVIOUS
<1>1. CASE UNCHANGED threadVars
    BY <1>1, TurnsFrame DEF threadVars, channels, history, turnVars, SameTurn, InTurn
<1>2. CASE RunSteps /\ UnchangedBut
    BY <1>2, TurnsFrame DEF UnchangedBut, channels, history, turnVars, SameTurn, InTurn
<1> QED BY <1>1, <1>2, StepKinds, TurnsThread

-----------------------------------------------------------------------------
(* What the log and the checkpoint hold of the turns.                      *)

\* The turns of the log l, and that none of them but those of O is in it twice.
TurnsOf(l)        == {l[k].turn : k \in DOMAIN l}
OncePerTurn(l, O) == \A j, k \in DOMAIN l : l[j].turn = l[k].turn /\ l[j].turn \notin O => j = k

\* The turns that may be in the log twice.
Excused == outlived \cup {NoTurn}

\* The turns the log has, or is known to lack.
Kept == lost \cup TurnsOf(log)

RecordsInv ==
    /\ TurnsOf(log) \subseteq started \cup {NoTurn} /\ OncePerTurn(log, Excused)
    /\ partial.turn \in started \cup {NoTurn}
    /\ started \subseteq Kept \cup {partial.turn}
    /\ InTurn => driver.turn \notin TurnsOf(log)
    /\ Alive => partial.turn \in Kept \cup {driver.turn, NoTurn}
    /\ driver.at = "settled" => driver.turn \in Kept
    /\ driver.at = "idle" => driver.turn = NoTurn
    /\ old.at = "turn" => old.turn \in Kept

\* partial_is_committed looks the turn up in the log.
LEMMA LoggedIsTurnsOf == Logged = TurnsOf(log)
BY DEF Logged, TurnsOf

\* A checkpoint a replaced driver writes over is in the log, or is trampled.
LEMMA TrampledFacts == partial.turn \in TurnsOf(log) \cup Trampled \cup {NoTurn, old.turn}
BY LoggedIsTurnsOf DEF Trampled, Pending, Committed

\* A turn that is not in the log can be appended to it.
LEMMA LogGrows ==
    ASSUME NEW l \in Seq(Records), NEW O, OncePerTurn(l, O), NEW r \in Records,
           r.turn \notin TurnsOf(l) \/ r.turn \in O
    PROVE  TurnsOf(Append(l, r)) = TurnsOf(l) \cup {r.turn} /\ OncePerTurn(Append(l, r), O)
<1> DEFINE m == Append(l, r)
<1>1. /\ DOMAIN m = 1 .. (Len(l) + 1) /\ DOMAIN l = 1 .. Len(l) /\ Len(l) \in Nat
      /\ m[Len(l) + 1] = r /\ \A k \in 1 .. Len(l) : m[k] = l[k]
    OBVIOUS
<1> HIDE DEF m
<1>2. \A k \in DOMAIN m : k \in DOMAIN l \/ k = Len(l) + 1
    BY <1>1
<1>3. \A k \in DOMAIN l : k \in DOMAIN m /\ m[k] = l[k] /\ m[k].turn \in TurnsOf(l)
    BY <1>1 DEF TurnsOf
<1>4. Len(l) + 1 \in DOMAIN m /\ m[Len(l) + 1] = r
    BY <1>1
<1>5. TurnsOf(m) = TurnsOf(l) \cup {r.turn}
  <2>1. TurnsOf(m) \subseteq TurnsOf(l) \cup {r.turn}
    BY <1>2, <1>3, <1>4 DEF TurnsOf
  <2>2. TurnsOf(l) \cup {r.turn} \subseteq TurnsOf(m)
    BY <1>3, <1>4 DEF TurnsOf
  <2> QED BY <2>1, <2>2
<1>6. OncePerTurn(m, O)
  <2> SUFFICES ASSUME NEW j \in DOMAIN m, NEW k \in DOMAIN m,
                      m[j].turn = m[k].turn, m[j].turn \notin O
               PROVE  j = k
    BY DEF OncePerTurn
  <2>1. CASE j \in DOMAIN l /\ k \in DOMAIN l
    BY <1>3, <2>1 DEF OncePerTurn
  <2>2. CASE j = Len(l) + 1 \/ k = Len(l) + 1
    BY <1>2, <1>3, <1>4, <2>2
  <2> QED BY <1>2, <2>1, <2>2
<1> QED BY <1>5, <1>6 DEF m

\* The variables RecordsInv is about, the driver apart.
recordVars == <<log, partial, started, lost, old, outlived>>

\* The driver keeps the turn it has, and settles none.
KeepsTurn ==
    /\ driver'.turn = driver.turn
    /\ InTurn' => InTurn
    /\ Alive' => Alive
    /\ driver'.at \in {"settled", "idle"} => driver'.at = driver.at

\* A step that leaves log and checkpoint alone keeps RecordsInv.
LEMMA RecordsFrame ==
    ASSUME RecordsInv, UNCHANGED recordVars, KeepsTurn
    PROVE  RecordsInv'
BY DEF RecordsInv, Kept, Excused, recordVars, KeepsTurn

\* A session command that is no Clear adds no turn to the log and takes none away.
LEMMA ApplyRecords ==
    ASSUME ThreadTypes, NEW c, Apply(c), OncePerTurn(log, Excused)
    PROVE  /\ OncePerTurn(log', Excused)
           /\ c = "Clear"  => TurnsOf(log') = {NoTurn}
           /\ c # "Clear" => /\ TurnsOf(log) \subseteq TurnsOf(log')
                             /\ TurnsOf(log') \subseteq TurnsOf(log) \cup {NoTurn}
<1>1. log \in Seq(Records) /\ Record(NoTurn, session') \in Records
    BY ApplyTypes, RecordTypes DEF ThreadTypes, DriverTypes
<1>2. Record(NoTurn, session').turn = NoTurn /\ Record(NoTurn, <<>>).turn = NoTurn
    BY DEF Record
<1>3. CASE c = "Clear"
  <2>1. log' = <<Record(NoTurn, <<>>)>>
    BY <1>3 DEF Apply
  <2> QED BY <1>2, <1>3, <2>1 DEF TurnsOf, OncePerTurn
<1>4. CASE c # "Clear"
  <2>1. log' = log \/ log' = Append(log, Record(NoTurn, session'))
    BY <1>4 DEF Apply
  <2>2. /\ OncePerTurn(Append(log, Record(NoTurn, session')), Excused)
        /\ TurnsOf(Append(log, Record(NoTurn, session'))) = TurnsOf(log) \cup {NoTurn}
    <3>1. NoTurn \in Excused
        BY DEF Excused
    <3> QED BY <1>1, <1>2, <3>1, LogGrows
  <2> QED BY <1>4, <2>1, <2>2
<1> QED BY <1>3, <1>4

\* No step of the main loop, and no command, appends a turn twice or loses one that is
\* not counted as lost.
LEMMA RecordsMain ==
    ASSUME ThreadTypes, TurnsInv, RecordsInv,
           MainSteps \/ Disconnect \/ Crash \/ DriverCommand
    PROVE  RecordsInv'
<1> USE DEF ThreadTypes
<1>1. CASE TurnStart \/ TurnInterrupt \/ HandleFinished \/ ThreadResume \/ ResumeFails \/ Disconnect
    BY <1>1, RecordsFrame
    DEF TurnStart, TurnInterrupt, HandleFinished, ThreadResume, ResumeFails, Disconnect, recordVars,
        disk, history, KeepsTurn, InTurn, Alive
<1>2. ASSUME NEW i \in Interjections, TurnInterject(i) PROVE RecordsInv'
    BY <1>2, RecordsFrame DEF TurnInterject, recordVars, disk, KeepsTurn, InTurn, Alive
<1>3. ASSUME NEW c \in Commands, SendCommand(c) PROVE RecordsInv'
    BY <1>3, RecordsFrame DEF SendCommand, recordVars, disk, history, KeepsTurn, InTurn, Alive
<1>4. ASSUME NEW allow \in BOOLEAN, Answer(allow) PROVE RecordsInv'
  <2>1. driver'.at = driver.at /\ driver'.turn = driver.turn
    BY <1>4 DEF Answer, DriverTypes, Drivers
  <2> QED BY <1>4, <2>1, RecordsFrame DEF Answer, recordVars, disk, KeepsTurn, InTurn, Alive
<1>5. CASE Reload
  <2>1. /\ driver'.at = "idle" /\ driver'.turn = NoTurn /\ UNCHANGED <<started, lost>>
        /\ old' = Left /\ outlived \subseteq outlived'
    BY <1>5 DEF Reload, NewDriver
  <2>2. Excused \subseteq Excused' /\ ~InTurn' /\ OncePerTurn(log, Excused)
    BY <2>1 DEF Excused, InTurn, RecordsInv
  <2>3. OncePerTurn(log, Excused')
    BY <2>2 DEF OncePerTurn
  <2>4. /\ TurnsOf(log') \subseteq started \cup {NoTurn} /\ OncePerTurn(log', Excused')
        /\ partial'.turn \in TurnsOf(log') \cup {NoTurn} /\ TurnsOf(log) \subseteq TurnsOf(log')
        /\ partial.turn \in TurnsOf(log') \cup {NoTurn}
    <3>1. CASE Pending
      <4>1. log' = Append(log, partial) /\ partial' = NoPartial
        BY <1>5, <3>1 DEF Reload, Promote
      <4>2. partial.turn \notin TurnsOf(log)
        BY <3>1, LoggedIsTurnsOf DEF Pending, Committed
      <4>3. TurnsOf(log') = TurnsOf(log) \cup {partial.turn} /\ OncePerTurn(log', Excused')
        BY <2>3, <4>1, <4>2, LogGrows DEF DriverTypes
      <4> QED BY <4>1, <4>3 DEF RecordsInv, NoPartial
    <3>2. CASE ~Pending
      <4>1. UNCHANGED <<log, partial>>
        BY <1>5, <3>2 DEF Reload, Promote, disk
      <4>2. partial.turn \in TurnsOf(log) \cup {NoTurn}
        BY <3>2, LoggedIsTurnsOf DEF Pending, Committed
      <4> QED BY <2>3, <4>1, <4>2 DEF RecordsInv
    <3> QED BY <3>1, <3>2
  <2>5. \A u \in started : u # NoTurn
    BY NoneIsNoTurn
  <2>6. Kept \cup {partial.turn} \subseteq Kept' \cup {NoTurn} /\ started \subseteq Kept'
    BY <2>1, <2>4, <2>5 DEF RecordsInv, Kept
  <2>7. old'.at = "turn" => old'.turn \in started
    BY <2>1, LeftFacts DEF TurnsInv
  <2>8. /\ partial'.turn \in started' \cup {NoTurn}
        /\ partial'.turn \in Kept' \cup {driver'.turn, NoTurn}
    BY <2>1, <2>4 DEF Kept
  <2> QED BY <2>1, <2>2, <2>4, <2>6, <2>7, <2>8 DEF RecordsInv
<1>7. CASE Crash
  <2>1. /\ driver'.at = "gone" /\ old'.at = "none"
        /\ UNCHANGED <<log, partial, started, lost, outlived>>
    BY <1>7 DEF Crash, NewDriver, NoOld, disk, history
  <2> QED BY <2>1 DEF RecordsInv, Kept, Excused, InTurn, Alive
<1>8. CASE DriverCommand
  <2>1. /\ driver.at = "idle" /\ UNCHANGED <<driver, started, old, outlived>>
        /\ OncePerTurn(log, Excused)
    BY <1>8 DEF DriverCommand, RecordsInv
  <2>2. ~InTurn' /\ Excused' = Excused
    BY <2>1 DEF InTurn, Excused
  <2>3. CASE command = "Clear"
    <3>1. partial'.turn = NoTurn /\ lost' = lost \cup TurnsOf(log) \cup {partial.turn}
        BY <1>8, <2>3, LoggedIsTurnsOf DEF DriverCommand, NoPartial
    <3>2. TurnsOf(log') = {NoTurn} /\ OncePerTurn(log', Excused)
        BY <1>8, <2>1, <2>3, ApplyRecords DEF DriverCommand
    <3>3. Kept \cup {partial.turn} \subseteq Kept'
        BY <3>1 DEF Kept
    <3> QED BY <2>1, <2>2, <3>1, <3>2, <3>3 DEF RecordsInv
  <2>4. CASE command # "Clear"
    <3>1. UNCHANGED <<partial, lost>>
        BY <1>8, <2>4 DEF DriverCommand
    <3>2. /\ TurnsOf(log) \subseteq TurnsOf(log') /\ TurnsOf(log') \subseteq TurnsOf(log) \cup {NoTurn}
          /\ OncePerTurn(log', Excused)
        BY <1>8, <2>1, <2>4, ApplyRecords DEF DriverCommand
    <3>3. Kept \subseteq Kept'
        BY <3>1, <3>2 DEF Kept
    <3>4. UNCHANGED driver /\ Alive' = Alive
        BY <2>1 DEF Alive
    <3> QED BY <2>1, <2>2, <3>1, <3>2, <3>3, <3>4 DEF RecordsInv
  <2> QED BY <2>3, <2>4
<1> QED BY <1>1, <1>2, <1>3, <1>4, <1>5, <1>7, <1>8 DEF MainSteps

\* A session command at the end of a turn, the record of the turn, and the end of the driver.
LEMMA RecordsDriver ==
    ASSUME ThreadTypes, TurnsInv, RecordsInv, DriverSteps, ~DriverCommand
    PROVE  RecordsInv'
<1> USE DEF ThreadTypes
<1>0. \A u \in started : u # NoTurn
    BY NoneIsNoTurn
<1>9. CASE DriverTurn
  <2>1. PICK t : t = Head(prompts)
    OBVIOUS
  <2>2. t \in Turns \ started /\ t # NoTurn
    BY <1>9, <2>1 DEF DriverTurn, TurnsInv, Turns, NoTurn
  <2>3. /\ partial'.turn = t /\ started' = started \cup {t} /\ UNCHANGED <<log, lost, old, outlived>>
        /\ driver'.at = "turn" /\ driver'.turn = t /\ driver.at = "idle"
    BY <1>9, <2>1 DEF DriverTurn, Record, NewDriver
  <2>4. Kept' = Kept /\ Excused' = Excused
    BY <2>3 DEF Kept, Excused
  <2>5. started \subseteq Kept
    BY <1>0, <2>3 DEF RecordsInv, Alive
  <2>6. t \notin TurnsOf(log)
    BY <2>2 DEF RecordsInv
  <2> QED BY <2>3, <2>4, <2>5, <2>6 DEF RecordsInv
<1>10. CASE ReadEvent \/ TakeInterjection
    BY <1>10, RecordsFrame DEF ReadEvent, TakeInterjection, recordVars, disk, KeepsTurn, InTurn, Alive
<1>11. CASE ReadAsk
  <2>1. KeepsTurn
    BY <1>11 DEF ReadAsk, Driving, InTurn, Alive, KeepsTurn, DriverTypes, Drivers
  <2> QED BY <1>11, <2>1, RecordsFrame DEF ReadAsk, recordVars, disk, history
<1>12. CASE DriverGone
  <2>1. KeepsTurn
    BY <1>12 DEF DriverGone, Driving, InTurn, Alive, KeepsTurn, DriverTypes, Drivers
  <2> QED BY <1>12, <2>1, RecordsFrame DEF DriverGone, recordVars, disk, history
<1>20. CASE DriverReturns
  <2>1. driver.at = "leaving" /\ driver'.at = "gone" /\ partial'.turn = NoTurn
    BY <1>20 DEF DriverReturns, NewDriver, NoPartial
  <2>2. lost' = lost \cup {driver.turn} /\ UNCHANGED <<log, started, old, outlived>>
    BY <1>20 DEF DriverReturns
  <2>3. Kept' = Kept \cup {driver.turn} /\ Excused' = Excused
    BY <2>2 DEF Kept, Excused
  <2>4. started \subseteq Kept'
    BY <1>0, <2>1, <2>3 DEF RecordsInv, Alive
  <2>5. ~InTurn' /\ ~Alive'
    BY <2>1 DEF InTurn, Alive
  <2> QED BY <2>1, <2>2, <2>3, <2>4, <2>5 DEF RecordsInv
<1>13. CASE EndApproval
  <2>1. KeepsTurn
    BY <1>13 DEF EndApproval, Answered, InTurn, Alive, KeepsTurn, DriverTypes, Drivers
  <2> QED BY <1>13, <2>1, RecordsFrame DEF EndApproval, recordVars, disk, history
<1>21. CASE SendDecision
  <2>1. KeepsTurn
    BY <1>21 DEF SendDecision, InTurn, Alive, KeepsTurn, DriverTypes, Drivers
  <2> QED BY <1>21, <2>1, RecordsFrame DEF SendDecision, recordVars, disk, history
<1>14. CASE TakeInterrupt
  <2>1. KeepsTurn
    BY <1>14 DEF TakeInterrupt, InTurn, Alive, KeepsTurn, DriverTypes, Drivers
  <2> QED BY <1>14, <2>1, RecordsFrame DEF TakeInterrupt, recordVars, disk, history
<1>15. CASE KeepCommand
  <2>1. KeepsTurn
    BY <1>15 DEF KeepCommand, Driving, InTurn, Alive, KeepsTurn, DriverTypes, Drivers
  <2> QED BY <1>15, <2>1, RecordsFrame DEF KeepCommand, recordVars, disk, history
<1>16. CASE Checkpoint
  <2>1. /\ InTurn /\ driver.at = "turn" /\ partial'.turn = driver.turn
        /\ UNCHANGED <<driver, log, started, lost, old, outlived>>
    BY <1>16 DEF Checkpoint, Driving, InTurn, Record, history
  <2>2. driver.turn \in started
    BY <2>1 DEF TurnsInv
  <2>3. Kept' = Kept /\ Excused' = Excused /\ InTurn' /\ Alive
    BY <2>1 DEF Kept, Excused, InTurn, Alive
  <2>4. started \subseteq Kept \cup {driver.turn}
    BY <1>0, <2>3 DEF RecordsInv
  <2> QED BY <2>1, <2>2, <2>3, <2>4 DEF RecordsInv
<1>17. CASE EndWithCommand
  <2>1. /\ InTurn /\ driver'.at = "settled" /\ driver'.turn = driver.turn
        /\ lost' = lost \cup {driver.turn} /\ UNCHANGED <<partial, started, old, outlived>>
    BY <1>17 DEF EndWithCommand, StreamEnded, Driving, Settled, InTurn, DriverTypes, Drivers
  <2>2. driver.pendingCmd # "Clear"
    BY <2>1 DEF TurnsInv
  <2>3. /\ TurnsOf(log) \subseteq TurnsOf(log') /\ TurnsOf(log') \subseteq TurnsOf(log) \cup {NoTurn}
        /\ OncePerTurn(log', Excused)
    BY <1>17, <2>2, ApplyRecords DEF EndWithCommand, RecordsInv
  <2>4. /\ Kept \cup {driver.turn} \subseteq Kept' /\ Excused' = Excused /\ Alive
        /\ ~InTurn'
    BY <2>1, <2>3 DEF Kept, Excused, Alive, InTurn
  <2> QED BY <2>1, <2>3, <2>4 DEF RecordsInv
<1>18. CASE EndTurnOfThread
  <2>1. /\ InTurn /\ driver'.at = "settled" /\ driver'.turn = driver.turn
        /\ UNCHANGED <<partial, started, old, outlived>>
    BY <1>18 DEF EndTurnOfThread, StreamEnded, Driving, Settled, InTurn, DriverTypes, Drivers
  <2>2. driver.turn \in started
    BY <2>1 DEF TurnsInv
  <2>3. \/ log' = Append(log, Record(driver.turn, session)) /\ lost' = lost
        \/ log' = log /\ lost' = lost \cup {driver.turn}
    BY <1>18 DEF EndTurnOfThread
  <2>4. /\ TurnsOf(Append(log, Record(driver.turn, session))) = TurnsOf(log) \cup {driver.turn}
        /\ OncePerTurn(Append(log, Record(driver.turn, session)), Excused)
    <3>1. /\ log \in Seq(Records) /\ Record(driver.turn, session) \in Records
          /\ Record(driver.turn, session).turn = driver.turn
        BY RecordTypes DEF DriverTypes, AgentTypes, Drivers, Record
    <3>2. OncePerTurn(log, Excused) /\ driver.turn \notin TurnsOf(log)
        BY <2>1 DEF RecordsInv
    <3> QED BY <3>1, <3>2, LogGrows
  <2>5. /\ TurnsOf(log') \subseteq TurnsOf(log) \cup {driver.turn} /\ OncePerTurn(log', Excused)
        /\ Kept' = Kept \cup {driver.turn}
    BY <2>3, <2>4 DEF RecordsInv, Kept
  <2>6. Excused' = Excused /\ Alive /\ ~InTurn'
    BY <2>1 DEF Excused, Alive, InTurn
  <2> QED BY <2>1, <2>2, <2>5, <2>6 DEF RecordsInv
<1>19. CASE ClearPartial
  <2>1. /\ driver.at = "settled" /\ driver'.at = "idle" /\ driver'.turn = NoTurn /\ partial'.turn = NoTurn
        /\ UNCHANGED <<log, started, lost, old, outlived>>
    BY <1>19 DEF ClearPartial, NewDriver, NoPartial, history
  <2>2. Kept' = Kept /\ Excused' = Excused /\ Alive /\ ~InTurn'
    BY <2>1 DEF Kept, Excused, Alive, InTurn
  <2>3. started \subseteq Kept
    BY <1>0, <2>1, <2>2 DEF RecordsInv
  <2> QED BY <2>1, <2>2, <2>3 DEF RecordsInv
<1> QED
    BY <1>9, <1>10, <1>11, <1>12, <1>13, <1>14, <1>15, <1>16, <1>17, <1>18, <1>19, <1>20, <1>21
    DEF DriverSteps

\* A driver that was replaced appends no turn but its own, and what it writes over counts
\* as lost.
LEMMA RecordsOld ==
    ASSUME ThreadTypes, TurnsInv, RecordsInv, OldSteps
    PROVE  RecordsInv'
<1> USE DEF ThreadTypes
<1>0. \A u \in started : u # NoTurn
    BY NoneIsNoTurn
<1>1. OldSteps => UNCHANGED <<driver, outlived>> /\ Excused' = Excused
    BY DEF OldSteps, OldBegins, OldCheckpoint, OldEnds, OldClears, OldUnchanged, Excused
<1>2. UNCHANGED <<driver, outlived>> /\ Excused' = Excused /\ InTurn' = InTurn /\ Alive' = Alive
    BY <1>1 DEF InTurn, Alive
<1>3. CASE OldBegins
  <2>1. /\ partial'.turn = old.turn /\ started' = started \cup {old.turn} /\ log' = log
        /\ lost' = lost \cup Trampled \cup {old.turn} /\ old'.turn = old.turn
    BY <1>3 DEF OldBegins, Record, DriverTypes, Olds
  <2>2. Kept' = Kept \cup Trampled \cup {old.turn}
    BY <2>1 DEF Kept
  <2>3. partial.turn \in Kept' \cup {NoTurn}
    BY <2>2, TrampledFacts DEF Kept
  <2>4. started' \subseteq Kept'
    BY <1>0, <2>1, <2>2, <2>3 DEF RecordsInv
  <2>5. TurnsOf(log') = TurnsOf(log) /\ OncePerTurn(log', Excused')
    BY <1>2, <2>1 DEF RecordsInv
  <2> QED BY <1>2, <2>1, <2>2, <2>4, <2>5 DEF RecordsInv
<1>4. CASE OldCheckpoint
  <2>1. /\ partial'.turn = old.turn /\ lost' = lost \cup Trampled /\ UNCHANGED <<log, old, started>>
        /\ old.at = "turn"
    BY <1>4 DEF OldCheckpoint, Record
  <2>2. Kept' = Kept \cup Trampled /\ old.turn \in Kept /\ old.turn \in started
    BY <2>1 DEF Kept, RecordsInv, TurnsInv
  <2>3. partial.turn \in Kept' \cup {NoTurn}
    BY <2>2, TrampledFacts DEF Kept
  <2>4. started \subseteq Kept'
    BY <1>0, <2>2, <2>3 DEF RecordsInv
  <2>5. TurnsOf(log') = TurnsOf(log) /\ OncePerTurn(log', Excused')
    BY <1>2, <2>1 DEF RecordsInv
  <2> QED BY <1>2, <2>1, <2>2, <2>4, <2>5 DEF RecordsInv
<1>5. CASE OldEnds
  <2>1. old'.at = "settled" /\ UNCHANGED <<partial, started, lost>> /\ old.at = "turn"
    BY <1>5 DEF OldEnds, OldUnchanged, NoOld
  <2>2. old.turn \in started /\ old.turn \in Excused /\ (InTurn => driver.turn # old.turn)
    BY <1>0, <2>1 DEF TurnsInv, OldTurnIsOld, Excused
  <2>3. /\ TurnsOf(log) \subseteq TurnsOf(log') /\ TurnsOf(log') \subseteq TurnsOf(log) \cup {old.turn}
        /\ OncePerTurn(log', Excused)
    <3>1. CASE log' = log
        BY <3>1 DEF RecordsInv
    <3>2. ASSUME NEW s \in Endings(old.messages), log' = Append(log, Record(old.turn, s))
          PROVE  /\ TurnsOf(log) \subseteq TurnsOf(log')
                 /\ TurnsOf(log') \subseteq TurnsOf(log) \cup {old.turn}
                 /\ OncePerTurn(log', Excused)
      <4>1. old.turn \in TurnIds /\ s \in Transcripts
        BY OldEdits, EndingsTypes DEF DriverTypes
      <4>2. Record(old.turn, s) \in Records /\ Record(old.turn, s).turn = old.turn
        BY <4>1, RecordTypes DEF Record
      <4>3. OncePerTurn(log, Excused) /\ log \in Seq(Records)
        BY DEF RecordsInv, DriverTypes
      <4> QED BY <2>2, <3>2, <4>2, <4>3, LogGrows
    <3> QED BY <1>5, <3>1, <3>2 DEF OldEnds
  <2>4. Kept \subseteq Kept'
    BY <2>1, <2>3 DEF Kept
  <2>5. InTurn => driver.turn \notin TurnsOf(log')
    BY <2>2, <2>3 DEF RecordsInv
  <2> QED BY <1>2, <2>1, <2>2, <2>3, <2>4, <2>5 DEF RecordsInv
<1>6. CASE OldClears
  <2>1. /\ partial'.turn = NoTurn /\ UNCHANGED <<log, started>> /\ old'.at # "turn"
        /\ lost' = IF Pending THEN lost \cup {partial.turn} ELSE lost
    BY <1>6 DEF OldClears, OldUnchanged, NoOld, NoPartial, DriverTypes, Olds
  <2>2. Kept \subseteq Kept' /\ partial.turn \in Kept' \cup {NoTurn}
    BY <2>1, LoggedIsTurnsOf DEF Kept, Pending, Committed
  <2>3. started \subseteq Kept'
    BY <1>0, <2>2 DEF RecordsInv
  <2>4. TurnsOf(log') = TurnsOf(log) /\ OncePerTurn(log', Excused')
    BY <1>2, <2>1 DEF RecordsInv
  <2> QED BY <1>2, <2>1, <2>2, <2>3, <2>4 DEF RecordsInv
<1> QED BY <1>3, <1>4, <1>5, <1>6 DEF OldSteps

\* A thread that was just opened has nothing on disk.
LEMMA RecordsInit == ThreadInit => RecordsInv
BY DEF ThreadInit, RecordsInv, Kept, Excused, TurnsOf, OncePerTurn, NoPartial, NewDriver, NoOld, InTurn

\* Every step keeps RecordsInv.
LEMMA RecordsStep ==
    ThreadTypes /\ TurnsInv /\ RecordsInv /\ [ThreadNext]_threadVars => RecordsInv'
<1> SUFFICES ASSUME ThreadTypes, TurnsInv, RecordsInv, [ThreadNext]_threadVars
             PROVE  RecordsInv'
    OBVIOUS
<1>1. CASE UNCHANGED threadVars
    BY <1>1, RecordsFrame DEF threadVars, disk, history, recordVars, KeepsTurn, InTurn, Alive
<1>2. CASE RunSteps /\ UnchangedBut
    BY <1>2, RecordsFrame DEF UnchangedBut, disk, history, recordVars, KeepsTurn, InTurn, Alive
<1> QED BY <1>1, <1>2, StepKinds, RecordsMain, RecordsDriver, RecordsOld

-----------------------------------------------------------------------------
(* What a resume would read between turns.                                 *)

HasUser(s) == "user" \in ToSet(s)

\* A resume would look no further than the log.
Plain == partial.turn \in TurnsOf(log) \cup {NoTurn}

TranscriptInv ==
    /\ InTurn => HasUser(session)
    /\ driver.at \in {"idle", "settled"} /\ ~behind => Latest(log) = session
    /\ driver.at = "idle" /\ ~behind => Plain

\* There is no checkpoint that a resume would promote.
LEMMA PlainFacts == Plain <=> ~Pending
BY LoggedIsTurnsOf DEF Plain, Pending, Committed

\* What the user said stays in a transcript that is extended or cut at open calls.
LEMMA UserFacts ==
    ASSUME NEW s \in Transcripts
    PROVE  /\ HasUser(Append(s, "user")) /\ (HasUser(s) => s # <<>>)
           /\ HasUser(s) => HasUser(Forkable(s))
           /\ HasUser(s) => \A m \in MessageKinds : HasUser(Append(s, m))
           /\ HasUser(s) => \A c \in Transcripts : HasUser(s \o c)
<1> USE DEF Transcripts
<1>1. \A m \in MessageKinds : ToSet(Append(s, m)) = ToSet(s) \cup {m}
    BY Contents
<1>2. \A c \in Transcripts : ToSet(s \o c) = ToSet(s) \cup ToSet(c)
    BY Contents
<1>3. ASSUME HasUser(s), s # <<>>, Last(s) = "calls" PROVE HasUser(Front(s))
  <2>1. PICK k \in DOMAIN s : s[k] = "user"
    BY <1>3 DEF HasUser, ToSet
  <2>2. k \in 1 .. Len(s) - 1 /\ Len(s) \in Nat \ {0}
    BY <1>3, <2>1 DEF Last
  <2>3. k \in DOMAIN Front(s) /\ Front(s)[k] = s[k]
    BY <2>2 DEF Front
  <2> QED BY <2>1, <2>3 DEF HasUser, ToSet
<1>4. HasUser(s) => s # <<>>
    BY NoContents DEF HasUser
<1>5. "user" \in MessageKinds
    BY DEF MessageKinds
<1> QED BY <1>1, <1>2, <1>3, <1>4, <1>5 DEF HasUser, Forkable

\* A compaction keeps something the user said.
LEMMA CompactionHasUser ==
    ASSUME NEW s, NEW c \in Compactions(s)
    PROVE  HasUser(c)
<1>1. c \in Seq(MessageKinds) /\ c # <<>> /\ c[1] = "user"
    BY CompactionFacts DEF Transcripts
<1>2. 1 \in DOMAIN c
    BY <1>1
<1> QED BY <1>1, <1>2 DEF HasUser, ToSet

\* No step of the run takes the last words of the user out of the transcript.
LEMMA RunKeepsUser ==
    ASSUME ThreadTypes, HasUser(session), RunSteps
    PROVE  HasUser(session')
<1>1. session \in Transcripts /\ Len(inbox) \in Nat
    BY DEF ThreadTypes, AgentTypes
<1>2. [k \in 1 .. Len(inbox) |-> "user"] \in Transcripts
    BY <1>1, TranscriptFacts
<1>3. ASSUME NEW s \in Transcripts, HasUser(s), Inject(s) PROVE HasUser(session')
    BY <1>2, <1>3, UserFacts DEF Inject
<1>4. CASE StopAtTop \/ StopThinking \/ StopTools
    BY <1>1, <1>4, UserFacts DEF StopAtTop, StopThinking, StopTools, AbortRun
<1>5. CASE BeginThink
    BY <1>1, <1>3, <1>5 DEF BeginThink
<1>6. CASE EndTurn \/ AskUser \/ TakeDecision \/ StopAsking \/ RunTools \/ ThinkFails \/ ThinkGivesUp
    BY <1>6 DEF EndTurn, AskUser, TakeDecision, StopAsking, RunTools, ThinkFails, ThinkGivesUp
<1>7. CASE ReplyText
  <2>1. Append(session, "text") \in Transcripts /\ HasUser(Append(session, "text"))
    BY <1>1, UserFacts, TranscriptFacts DEF MessageKinds
  <2> QED BY <1>3, <1>7, <2>1 DEF ReplyText
<1>8. CASE ReplyCalls \/ Observe \/ ReplyStopped
    BY <1>1, <1>8, UserFacts DEF ReplyCalls, Observe, ReplyStopped, Partial, MessageKinds
<1>9. CASE ReplyTruncated
  <2>1. \A reply \in Partial : <<reply, "user">> \in Transcripts
    BY DEF Partial, Transcripts, MessageKinds
  <2> QED BY <1>1, <1>9, <2>1, UserFacts DEF ReplyTruncated
<1>10. CASE AutoCompact
    BY <1>10, CompactionHasUser DEF AutoCompact
<1> QED
    BY <1>4, <1>5, <1>6, <1>7, <1>8, <1>9, <1>10 DEF RunSteps, AgentSteps, WorldSteps, OddReplies

\* What a command writes to the log is what is read from it.
LEMMA ApplyReads ==
    ASSUME ThreadTypes, NEW c, Apply(c)
    PROVE  /\ c = "Clear" => Latest(log') = session'
           /\ c = "SetModel" => UNCHANGED <<log, session>>
           /\ c # "SetModel" /\ session' # <<>> => Latest(log') = session'
           /\ (session = <<>> => Latest(log) = <<>>) /\ c # "SetModel" => Latest(log') = session'
           /\ c # "Clear" /\ session # <<>> => session' # <<>>
           /\ c # "Clear" => TurnsOf(log) \subseteq TurnsOf(log')
<1>1. /\ log \in Seq(Records) /\ Record(NoTurn, session') \in Records
      /\ Record(NoTurn, session').messages = session'
    BY ApplyTypes, RecordTypes DEF ThreadTypes, DriverTypes, Record
<1>2. Latest(Append(log, Record(NoTurn, session')))
        = IF session' # <<>> THEN session' ELSE Latest(log)
    BY <1>1, LatestAppend
<1>3. CASE c = "Clear"
  <2>1. log' = <<Record(NoTurn, <<>>)>> /\ session' = <<>>
    BY <1>3 DEF Apply
  <2>2. Full(log') = {}
    BY <2>1 DEF Full, Record
  <2> QED BY <1>3, <2>1, <2>2, LatestIsTop
<1>4. CASE c \in {"Compact", "SetPreserveThinking"}
  <2>1. log' = Append(log, Record(NoTurn, session'))
    BY <1>4 DEF Apply
  <2>2. session' = session \/ session' # <<>>
    BY <1>4, CompactionFacts DEF Apply
  <2>3. TurnsOf(log) \subseteq TurnsOf(log')
    <3>1. \A k \in DOMAIN log : k \in DOMAIN log' /\ log'[k] = log[k]
        BY <1>1, <2>1
    <3> QED BY <3>1 DEF TurnsOf
  <2> QED BY <1>2, <1>4, <2>1, <2>2, <2>3
<1>5. CASE c = "SetModel"
    BY <1>5 DEF Apply
<1> QED BY <1>3, <1>4, <1>5 DEF Apply

\* The variables TranscriptInv is about, the driver apart.
transcriptVars == <<session, log, behind, partial>>

\* A step that leaves transcript and disk alone keeps TranscriptInv.
LEMMA TranscriptFrame ==
    ASSUME TranscriptInv, UNCHANGED transcriptVars, InTurn' => InTurn,
           driver'.at \in {"settled", "idle"} => driver'.at = driver.at
    PROVE  TranscriptInv'
BY DEF TranscriptInv, transcriptVars, Plain

\* At the end of a command and of a resume the log gives the transcript.
LEMMA TranscriptMain ==
    ASSUME ThreadTypes, RecordsInv, TranscriptInv,
           MainSteps \/ Disconnect \/ Crash \/ DriverCommand
    PROVE  TranscriptInv'
<1> USE DEF ThreadTypes
<1>1. CASE TurnStart \/ TurnInterrupt \/ HandleFinished \/ ThreadResume \/ ResumeFails \/ Disconnect
    BY <1>1, TranscriptFrame
    DEF TurnStart, TurnInterrupt, HandleFinished, ThreadResume, ResumeFails, Disconnect,
        transcriptVars, agentVars, disk, history, InTurn
<1>2. ASSUME NEW i \in Interjections, TurnInterject(i) PROVE TranscriptInv'
    BY <1>2, TranscriptFrame DEF TurnInterject, transcriptVars, agentVars, disk, InTurn
<1>3. ASSUME NEW c \in Commands, SendCommand(c) PROVE TranscriptInv'
    BY <1>3, TranscriptFrame DEF SendCommand, transcriptVars, agentVars, disk, history, InTurn
<1>4. ASSUME NEW allow \in BOOLEAN, Answer(allow) PROVE TranscriptInv'
  <2>1. driver'.at = driver.at
    BY <1>4 DEF Answer, DriverTypes, Drivers
  <2> QED BY <1>4, <2>1, TranscriptFrame DEF Answer, transcriptVars, agentVars, disk, InTurn
<1>5. CASE Reload
  <2>1. driver'.at = "idle" /\ ~InTurn' /\ ~behind' /\ session' = Loaded
    BY <1>5 DEF Reload, NewDriver, InTurn
  <2>2. Latest(log') = Loaded /\ Plain'
    <3>1. CASE Pending
      <4>1. log' = Append(log, partial) /\ partial'.turn = NoTurn
        BY <1>5, <3>1 DEF Reload, Promote, NoPartial
      <4>2. Latest(log') = Loaded
        BY <3>1, <4>1, LatestAppend, LoadedFacts DEF DriverTypes
      <4> QED BY <4>1, <4>2 DEF Plain
    <3>2. CASE ~Pending
      <4>1. UNCHANGED <<log, partial>>
        BY <1>5, <3>2 DEF Reload, Promote, disk
      <4> QED BY <3>2, <4>1, LoadedFacts, PlainFacts DEF Plain
    <3> QED BY <3>1, <3>2
  <2> QED BY <2>1, <2>2 DEF TranscriptInv
<1>6. CASE Crash
  <2>1. driver'.at = "gone"
    BY <1>6 DEF Crash, NewDriver
  <2> QED BY <2>1 DEF TranscriptInv, InTurn
<1>7. CASE DriverCommand
  <2>1. /\ driver.at = "idle" /\ driver' = driver /\ ~InTurn' /\ Apply(command)
        /\ partial' = IF command = "Clear" THEN NoPartial ELSE partial
    BY <1>7 DEF DriverCommand, InTurn
  <2>2. behind' <=> /\ behind /\ command # "Clear"
                    /\ command = "SetModel" \/ session' = <<>> \/ Pending
    BY <1>7, Zenon DEF DriverCommand
  <2>3. CASE command = "Clear"
    <3>1. partial'.turn = NoTurn /\ Latest(log') = session'
        BY <2>1, <2>3, ApplyReads DEF NoPartial
    <3> QED BY <2>1, <3>1 DEF TranscriptInv, Plain
  <2>4. CASE command # "Clear" /\ ~behind
    <3>1. Latest(log) = session /\ Plain
        BY <2>1, <2>4 DEF TranscriptInv
    <3>2. Latest(log') = session' /\ TurnsOf(log) \subseteq TurnsOf(log') /\ partial' = partial
        BY <2>1, <2>4, <3>1, ApplyReads
    <3> QED BY <2>1, <3>1, <3>2 DEF TranscriptInv, Plain
  <2>5. CASE command # "Clear" /\ behind /\ ~behind'
    <3>1. command # "SetModel" /\ session' # <<>> /\ ~Pending
        BY <2>2, <2>5
    <3>2. Latest(log') = session' /\ TurnsOf(log) \subseteq TurnsOf(log') /\ partial' = partial
        BY <2>1, <2>5, <3>1, ApplyReads
    <3> QED BY <2>1, <3>1, <3>2, PlainFacts DEF TranscriptInv, Plain
  <2>6. CASE behind'
    BY <2>1, <2>6 DEF TranscriptInv
  <2> QED BY <2>3, <2>4, <2>5, <2>6
<1> QED BY <1>1, <1>2, <1>3, <1>4, <1>5, <1>6, <1>7 DEF MainSteps

\* At the end of a turn the log gives the transcript, or is known to be behind.
LEMMA TranscriptDriver ==
    ASSUME ThreadTypes, TranscriptInv, TurnsInv, DriverSteps, ~DriverCommand
    PROVE  TranscriptInv'
<1> USE DEF ThreadTypes
<1>1. CASE DriverTurn
  <2>1. driver'.at = "turn" /\ session' = Append(session, "user")
    BY <1>1 DEF DriverTurn, StartRun, NewDriver
  <2> QED BY <2>1, UserFacts DEF TranscriptInv, AgentTypes
<1>2. CASE ReadEvent \/ TakeInterjection
    BY <1>2, TranscriptFrame DEF ReadEvent, TakeInterjection, transcriptVars, disk, InTurn
<1>3. CASE ReadAsk
  <2>1. InTurn /\ driver'.at = "approval"
    BY <1>3 DEF ReadAsk, Driving, InTurn, DriverTypes, Drivers
  <2> QED BY <1>3, <2>1, TranscriptFrame DEF ReadAsk, transcriptVars, disk, history
<1>4. CASE DriverGone
  <2>1. driver'.at = "leaving"
    BY <1>4 DEF DriverGone, DriverTypes, Drivers
  <2> QED BY <2>1 DEF TranscriptInv, InTurn
<1>5. CASE DriverReturns
  <2>1. driver'.at = "gone"
    BY <1>5 DEF DriverReturns, NewDriver
  <2> QED BY <2>1 DEF TranscriptInv, InTurn
<1>6. CASE EndApproval
  <2>1. InTurn /\ driver'.at = "sending"
    BY <1>6 DEF EndApproval, Answered, InTurn, DriverTypes, Drivers
  <2> QED BY <1>6, <2>1, TranscriptFrame DEF EndApproval, transcriptVars, agentVars, disk, history
<1>7. CASE SendDecision
  <2>1. InTurn /\ driver'.at = "turn"
    BY <1>7 DEF SendDecision, InTurn, DriverTypes, Drivers
  <2> QED BY <1>7, <2>1, TranscriptFrame DEF SendDecision, transcriptVars, disk, history
<1>8. CASE TakeInterrupt
  <2>1. InTurn /\ driver'.at \in {"turn", "approval", "sending"}
    BY <1>8 DEF TakeInterrupt, InTurn, DriverTypes, Drivers
  <2> QED BY <1>8, <2>1, TranscriptFrame DEF TakeInterrupt, transcriptVars, disk, history
<1>9. CASE KeepCommand
  <2>1. InTurn /\ driver'.at = driver.at
    BY <1>9 DEF KeepCommand, Driving, InTurn, DriverTypes, Drivers
  <2> QED BY <1>9, <2>1, TranscriptFrame
          DEF KeepCommand, transcriptVars, agentVars, disk, history, InTurn
<1>10. CASE Checkpoint
  <2>1. driver' = driver /\ session' = session /\ InTurn /\ driver.at = "turn"
    BY <1>10 DEF Checkpoint, Driving, InTurn, agentVars
  <2> QED BY <2>1 DEF TranscriptInv, InTurn
<1>11. CASE EndWithCommand
  <2>1. /\ InTurn /\ driver'.at = "settled" /\ Apply(driver.pendingCmd)
        /\ behind' <=> driver.pendingCmd = "SetModel"
    BY <1>11, Zenon DEF EndWithCommand, StreamEnded, Driving, Settled, InTurn, DriverTypes, Drivers
  <2>2. session # <<>> /\ driver.pendingCmd # "Clear"
    BY <2>1, UserFacts DEF TranscriptInv, AgentTypes, TurnsInv
  <2>3. driver.pendingCmd # "SetModel" => Latest(log') = session'
    BY <2>1, <2>2, ApplyReads
  <2> QED BY <2>1, <2>3 DEF TranscriptInv, InTurn
<1>12. CASE EndTurnOfThread
  <2>1. InTurn /\ driver'.at = "settled" /\ session' = session
    BY <1>12 DEF EndTurnOfThread, StreamEnded, Driving, Settled, InTurn, DriverTypes, Drivers,
              agentVars
  <2>2. session # <<>>
    BY <2>1, UserFacts DEF TranscriptInv, AgentTypes
  <2>3. log' = Append(log, Record(driver.turn, session)) \/ behind'
    BY <1>12 DEF EndTurnOfThread
  <2>4. Latest(Append(log, Record(driver.turn, session))) = session
    <3>1. /\ log \in Seq(Records) /\ Record(driver.turn, session) \in Records
          /\ Record(driver.turn, session).messages = session
        BY RecordTypes DEF DriverTypes, AgentTypes, Drivers, Record
    <3> QED BY <2>2, <3>1, LatestAppend
  <2> QED BY <2>1, <2>3, <2>4 DEF TranscriptInv, InTurn
<1>13. CASE ClearPartial
  <2>1. /\ driver.at = "settled" /\ driver'.at = "idle" /\ partial'.turn = NoTurn
        /\ UNCHANGED <<session, log, behind>>
    BY <1>13 DEF ClearPartial, NewDriver, NoPartial, agentVars, history
  <2> QED BY <2>1 DEF TranscriptInv, Plain, InTurn
<1> QED
    BY <1>1, <1>2, <1>3, <1>4, <1>5, <1>6, <1>7, <1>8, <1>9, <1>10, <1>11, <1>12, <1>13
    DEF DriverSteps

\* A driver that was replaced leaves the log behind, or leaves it alone.
LEMMA TranscriptOld ==
    ASSUME ThreadTypes, TranscriptInv, OldSteps
    PROVE  TranscriptInv'
<1>1. UNCHANGED <<driver, session>> /\ InTurn' = InTurn
    BY DEF OldSteps, OldBegins, OldCheckpoint, OldEnds, OldClears, OldUnchanged, agentVars, InTurn
<1>2. CASE OldBegins
  <2>1. behind'
    BY <1>2 DEF OldBegins
  <2> QED BY <1>1, <2>1 DEF TranscriptInv
<1>3. CASE OldCheckpoint
  <2>1. /\ partial'.turn = old.turn /\ log' = log
        /\ behind' <=> behind \/ old.turn \notin TurnsOf(log)
    BY <1>3, LoggedIsTurnsOf, Zenon DEF OldCheckpoint, Record
  <2> QED BY <1>1, <2>1 DEF TranscriptInv, Plain
<1>4. CASE OldEnds
  <2>1. behind' \/ UNCHANGED <<log, behind>>
    BY <1>4 DEF OldEnds
  <2>2. partial' = partial
    BY <1>4 DEF OldEnds
  <2> QED BY <1>1, <2>1, <2>2 DEF TranscriptInv, Plain
<1>5. CASE OldClears
  <2>1. partial'.turn = NoTurn /\ UNCHANGED <<log, behind>>
    BY <1>5 DEF OldClears, NoPartial
  <2> QED BY <1>1, <2>1 DEF TranscriptInv, Plain
<1> QED BY <1>2, <1>3, <1>4, <1>5 DEF OldSteps

\* The log of a thread that was just opened gives the empty transcript.
LEMMA TranscriptInit == ThreadInit => TranscriptInv
<1> SUFFICES ASSUME ThreadInit PROVE TranscriptInv
    OBVIOUS
<1>1. /\ log = <<>> /\ session = <<>> /\ driver.at = "idle" /\ ~behind
      /\ partial.turn = NoTurn
    BY Zenon DEF ThreadInit, AgentInit, NewDriver, NoPartial
<1>2. Full(log) = {}
    BY <1>1 DEF Full
<1> QED BY <1>1, <1>2, LatestIsTop DEF TranscriptInv, Plain, InTurn

\* Every step keeps TranscriptInv.
LEMMA TranscriptStep ==
    /\ ThreadTypes /\ InterjectionsInv /\ TurnsInv /\ RecordsInv /\ TranscriptInv
    /\ [ThreadNext]_threadVars
    => TranscriptInv'
<1> SUFFICES ASSUME ThreadTypes, InterjectionsInv, TurnsInv, RecordsInv, TranscriptInv,
                    [ThreadNext]_threadVars
             PROVE  TranscriptInv'
    OBVIOUS
<1>1. CASE UNCHANGED threadVars
    BY <1>1, TranscriptFrame DEF threadVars, agentVars, disk, history, transcriptVars, InTurn
<1>2. CASE RunSteps /\ UnchangedBut
  <2>1. driver' = driver /\ driver.at \notin {"idle", "settled"}
    BY <1>2, RunningIsDriven DEF InterjectionsInv, UnchangedBut, Driven, Alive
  <2>2. InTurn => HasUser(session')
    BY <1>2, RunKeepsUser DEF TranscriptInv
  <2> QED BY <2>1, <2>2 DEF TranscriptInv, InTurn
<1> QED BY <1>1, <1>2, StepKinds, TranscriptMain, TranscriptDriver, TranscriptOld

\* A set whose members are all one has at most one.
LEMMA AtMostOne ==
    ASSUME NEW S, \A j, k \in S : j = k
    PROVE  Cardinality(S) <= 1
<1>1. CASE S = {}
  <2>1. Cardinality({}) = 0
    BY FS_EmptySet
  <2>2. Cardinality(S) = 0
    BY <1>1, <2>1, Zenon
  <2> QED BY <2>2
<1>2. CASE S # {}
  <2>1. PICK k \in S : TRUE
    BY <1>2
  <2>2. S = {k}
    BY <2>1
  <2>3. Cardinality({k}) = 1
    BY FS_Singleton, Zenon
  <2>4. Cardinality(S) = 1
    BY <2>2, <2>3, Zenon
  <2> QED BY <2>4
<1> QED BY <1>1, <1>2

\* A turn is at one position of the log, if at any.
LEMMA OnePosition ==
    ASSUME NEW l \in Seq(Records), NEW O, OncePerTurn(l, O), NEW t, t \notin O
    PROVE  Cardinality({k \in DOMAIN l : l[k].turn = t}) <= 1
<1>1. \A j, k \in {k \in DOMAIN l : l[k].turn = t} : j = k
    BY DEF OncePerTurn
<1> QED BY <1>1, AtMostOne

\* The disk holds the conversation: a turn is in the log at most once, unless a
\* resume replaced its driver while it ran; every turn that was taken up is in
\* the log or in the checkpoint, unless the disk was made to forget it; and a
\* resume between turns finds the transcript as it is, unless the disk is known
\* to be behind.
THEOREM DiskHoldsTheConversationCorrect == ThreadSpec => []DiskHoldsTheConversation
<1>1. ThreadTypes /\ TurnsInv /\ RecordsInv /\ TranscriptInv => DiskHoldsTheConversation
  <2> SUFFICES ASSUME ThreadTypes, TurnsInv, RecordsInv, TranscriptInv
               PROVE  DiskHoldsTheConversation
    OBVIOUS
  <2>1. ASSUME NEW t \in started \ outlived
        PROVE  Cardinality({k \in DOMAIN log : log[k].turn = t}) <= 1
    <3>1. log \in Seq(Records) /\ OncePerTurn(log, Excused) /\ t \notin Excused
        BY NoneIsNoTurn DEF ThreadTypes, DriverTypes, RecordsInv, Excused
    <3> QED BY <3>1, OnePosition
  <2>2. \A t \in started \ lost : t \in Logged \/ partial.turn = t
    BY LoggedIsTurnsOf DEF RecordsInv, Kept
  <2>3. Quiet /\ ~behind => Loaded = session
    BY LoadedFacts, PlainFacts DEF TranscriptInv, Quiet
  <2> QED BY <2>1, <2>2, <2>3 DEF DiskHoldsTheConversation
<1> QED
    BY <1>1, TypesInit, TypesStep, InterjectionsInit, InterjectionsStep, TurnsInit, TurnsStep,
       RecordsInit, RecordsStep, TranscriptInit, TranscriptStep, PTL DEF ThreadSpec
=============================================================================
