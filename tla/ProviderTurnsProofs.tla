------------------------- MODULE ProviderTurnsProofs -------------------------
(***************************************************************************)
(* For any tasks, requests and leases, and whatever the gates do between   *)
(* one lock and the next: a worker runs on a lease of its own, a task      *)
(* stands in one queue, and a gate that sleeps can be reached.             *)
(***************************************************************************)
EXTENDS ProviderTurns, ResourceCoordinatorProofs

TurnTypes ==
    /\ TypeInv
    /\ queued   \in [Task -> Request \cup {NoRequest}]
    /\ assigned \in [Task -> LeaseId \cup {NoLease}]
    /\ gate     \in [Task -> Gate]
    /\ mail     \subseteq Coordinator
    /\ lost     \subseteq Task

\* Where a gate has a lease in its hands.
Carrying == {"Yield", "Assign", "Drop", "Hold"}

\* What a gate asks for, and what it believes is queued, is its own task's; what it
\* carries is a lease.
OwnRequests ==
    /\ expired = {}
    /\ \A t \in Task : gate[t].at \in {"Take", "Yield", "Select"} =>
          gate[t].want \in Request /\ Ask[gate[t].want].task = t
    /\ \A t \in Task : queued[t] # NoRequest => Ask[queued[t]].task = t
    /\ \A t \in Task : gate[t].at \in Carrying => gate[t].lease \in LeaseId

\* A request that waits is the one its gate believes queued, and one believed
\* queued waits, unless a failed write dropped it.
Matched(q, b, gone) ==
    /\ \A k \in Key : \A r \in Waiting(q, k) : b[Ask[r].task] = r
    /\ \A t \in Task \ gone : b[t] # NoRequest => b[t] \in Waiting(q, Ask[b[t]].key)

QueueInv == Matched(queues, queued, lost)

TurnInv == TurnTypes /\ OwnRequests /\ QueueInv

-----------------------------------------------------------------------------
(* The gates.                                                              *)

Place == {"Idle", "Take", "Yield", "Select", "Assign", "Wait", "Failed", "Cancel", "Drop", "Hold"}

\* The gate of t goes to place with the lease id, the others stay where they are.
GoesTo(t, place, id) ==
    /\ gate' \in [Task -> Gate]
    /\ gate'[t].at = place /\ gate'[t].lease = id
    /\ place \in {"Yield", "Select"} => gate'[t].want = gate[t].want
    /\ \A u \in Task \ {t} :
          gate'[u].at = gate[u].at /\ gate'[u].lease = gate[u].lease /\ gate'[u].want = gate[u].want

\* A gate has a place, a request, a lease and a notification.
LEMMA GateFields ==
    ASSUME gate \in [Task -> Gate], NEW t \in Task
    PROVE  /\ gate[t].at \in Place /\ gate[t].want \in Request \cup {NoRequest}
           /\ gate[t].lease \in LeaseId \cup {NoLease} /\ gate[t].woken \in BOOLEAN
           /\ gate[t] \in Gate
BY DEF Gate, Place

\* The gate of t, moved (acquire_now).
LEMMA MovedFacts ==
    ASSUME gate \in [Task -> Gate], NEW t \in Task, NEW place \in Place,
           NEW id \in LeaseId \cup {NoLease}, NEW g, g = Moved(gate, t, place, id)
    PROVE  /\ g \in [Task -> Gate]
           /\ g[t].at = place /\ g[t].lease = id
           /\ place \in {"Yield", "Select"} => g[t].want = gate[t].want
           /\ \A u \in Task \ {t} : g[u] = gate[u]
<1> DEFINE want  == IF place \in {"Yield", "Select"} THEN gate[t].want ELSE NoRequest
           woken == gate[t].woken /\ place \notin {"Hold", "Failed"}
           e     == [at |-> place, want |-> want, lease |-> id, woken |-> woken]
<1>1. want \in Request \cup {NoRequest} /\ woken \in BOOLEAN
  BY GateFields
<1>2. g = [gate EXCEPT ![t] = e]
  BY DEF Moved
<1>3. place \in {"Yield", "Select"} => want = gate[t].want
  OBVIOUS
<1> HIDE DEF want, woken
<1>4. e \in Gate
  BY <1>1 DEF Gate, Place
<1>5. e.at = place /\ e.lease = id /\ e.want = want
  OBVIOUS
<1> HIDE DEF e
<1> QED
  BY <1>2, <1>3, <1>4, <1>5

\* A notification wakes gates and moves none (notify_waiters).
LEMMA NotifiedFacts ==
    ASSUME NEW g \in [Task -> Gate], NEW h, h = Notified(g)
    PROVE  /\ h \in [Task -> Gate]
           /\ \A u \in Task : h[u].at = g[u].at /\ h[u].lease = g[u].lease /\ h[u].want = g[u].want
<1>1. h = [t \in Task |-> IF g[t].at \in {"Take", "Yield", "Select", "Assign", "Wait"}
                          THEN [g[t] EXCEPT !.woken = TRUE] ELSE g[t]]
  BY DEF Notified
<1>2. ASSUME NEW u \in Task
      PROVE  h[u] \in Gate /\ h[u].at = g[u].at /\ h[u].lease = g[u].lease /\ h[u].want = g[u].want
  <2>1. g[u] \in Gate /\ (h[u] = g[u] \/ h[u] = [g[u] EXCEPT !.woken = TRUE])
    BY <1>1
  <2>2. [g[u] EXCEPT !.woken = TRUE] \in Gate
    BY <2>1 DEF Gate
  <2> QED
    BY <2>1, <2>2 DEF Gate
<1> QED
  BY <1>1, <1>2

\* A gate that is made new (the top of the loop, the cleanup).
LEMMA RenewedFacts ==
    /\ IdleGate \in Gate /\ IdleGate.at = "Idle" /\ IdleGate.lease = NoLease
    /\ \A want \in Request \cup {NoRequest} :
          LET e == [IdleGate EXCEPT !.at = "Take", !.want = want]
          IN  e \in Gate /\ e.at = "Take" /\ e.lease = NoLease /\ e.want = want
    /\ LET e == [IdleGate EXCEPT !.at = "Cancel"]
       IN  e \in Gate /\ e.at = "Cancel" /\ e.lease = NoLease
<1>1. IdleGate \in Gate /\ IdleGate.at = "Idle" /\ IdleGate.lease = NoLease
  BY DEF IdleGate, Gate
<1>2. ASSUME NEW want \in Request \cup {NoRequest}, NEW e,
             e = [IdleGate EXCEPT !.at = "Take", !.want = want]
      PROVE  e \in Gate /\ e.at = "Take" /\ e.lease = NoLease /\ e.want = want
  BY <1>1, <1>2 DEF Gate
<1>3. ASSUME NEW e, e = [IdleGate EXCEPT !.at = "Cancel"]
      PROVE  e \in Gate /\ e.at = "Cancel" /\ e.lease = NoLease
  BY <1>1, <1>3 DEF Gate
<1> QED
  BY <1>1, <1>2, <1>3

\* Where each call leaves the gates (acquire, acquire_now, ProviderTurnWaitCleanup).
LEMMA GateMoves ==
    ASSUME gate \in [Task -> Gate], assigned \in [Task -> LeaseId \cup {NoLease}], NEW t \in Task
    PROVE  /\ Enter(t) => GoesTo(t, "Take", NoLease) /\ gate'[t].want = Wanted(t)
           /\ Take(t) => \/ GoesTo(t, "Select", assigned[t]) /\ assigned[t] = NoLease
                         \/ GoesTo(t, "Yield", assigned[t]) /\ assigned[t] # NoLease
                         \/ GoesTo(t, "Hold", assigned[t]) /\ assigned[t] # NoLease
           /\ Yield(t) => GoesTo(t, "Select", NoLease)
           /\ YieldFails(t) => GoesTo(t, "Failed", NoLease)
           /\ SelectNobody(t) => GoesTo(t, "Wait", NoLease)
           /\ SelectFails(t) => GoesTo(t, "Failed", NoLease)
           /\ Assign(t) => GoesTo(t, "Wait", NoLease)
           /\ CancelRequest(t) => GoesTo(t, "Cancel", NoLease)
           /\ CancelAssignment(t) =>
                 \/ GoesTo(t, "Idle", NoLease) /\ assigned[t] = NoLease
                 \/ GoesTo(t, "Drop", assigned[t]) /\ assigned[t] # NoLease
           /\ GiveBack(t) => GoesTo(t, "Idle", NoLease)
<1>0. NoLease \in LeaseId \cup {NoLease} /\ assigned[t] \in LeaseId \cup {NoLease}
  OBVIOUS
<1>1. ASSUME NEW place \in Place, NEW id \in LeaseId \cup {NoLease},
             gate' = Moved(gate, t, place, id)
      PROVE  GoesTo(t, place, id)
  BY <1>1, MovedFacts DEF GoesTo
<1>2. ASSUME NEW place \in Place, NEW id \in LeaseId \cup {NoLease},
             gate' = Notified(Moved(gate, t, place, id))
      PROVE  GoesTo(t, place, id)
  <2> DEFINE g == Moved(gate, t, place, id)
  <2>1. /\ g \in [Task -> Gate]
        /\ g[t].at = place /\ g[t].lease = id
        /\ place \in {"Yield", "Select"} => g[t].want = gate[t].want
        /\ \A u \in Task \ {t} : g[u] = gate[u]
    BY MovedFacts
  <2> HIDE DEF g
  <2>2. gate' = Notified(g)
    BY <1>2 DEF g
  <2>3. /\ gate' \in [Task -> Gate]
        /\ \A u \in Task : gate'[u].at = g[u].at /\ gate'[u].lease = g[u].lease /\ gate'[u].want = g[u].want
    BY <2>1, <2>2, NotifiedFacts
  <2> QED
    BY <2>1, <2>3 DEF GoesTo
<1>3. ASSUME NEW e \in Gate, e.at \notin {"Yield", "Select"}, gate' = [gate EXCEPT ![t] = e]
      PROVE  GoesTo(t, e.at, e.lease) /\ gate'[t].want = e.want
  BY <1>3 DEF GoesTo
<1>4. ASSUME gate' = Notified([gate EXCEPT ![t] = IdleGate])
      PROVE  GoesTo(t, "Idle", NoLease)
  <2> DEFINE g == [gate EXCEPT ![t] = IdleGate]
  <2>1. g \in [Task -> Gate] /\ g[t].at = "Idle" /\ g[t].lease = NoLease /\ \A u \in Task \ {t} : g[u] = gate[u]
    BY RenewedFacts
  <2> HIDE DEF g
  <2>2. gate' = Notified(g)
    BY <1>4 DEF g
  <2>3. /\ gate' \in [Task -> Gate]
        /\ \A u \in Task : gate'[u].at = g[u].at /\ gate'[u].lease = g[u].lease /\ gate'[u].want = g[u].want
    BY <2>1, <2>2, NotifiedFacts
  <2> QED
    BY <2>1, <2>3 DEF GoesTo
<1>5. Enter(t) => GoesTo(t, "Take", NoLease) /\ gate'[t].want = Wanted(t)
  <2> SUFFICES ASSUME Enter(t) PROVE GoesTo(t, "Take", NoLease) /\ gate'[t].want = Wanted(t)
    OBVIOUS
  <2>1. Wanted(t) \in Request
    BY TurnAskAssumption DEF Wanted, TurnRequest, Key
  <2> DEFINE e == [IdleGate EXCEPT !.at = "Take", !.want = Wanted(t)]
  <2>2. gate' = [gate EXCEPT ![t] = e]
    BY DEF Enter
  <2>3. e \in Gate /\ e.at = "Take" /\ e.lease = NoLease /\ e.want = Wanted(t)
    BY <2>1, RenewedFacts
  <2> HIDE DEF e
  <2> QED
    BY <1>3, <2>2, <2>3
<1>6. Take(t) => \/ GoesTo(t, "Select", assigned[t]) /\ assigned[t] = NoLease
                 \/ GoesTo(t, "Yield", assigned[t]) /\ assigned[t] # NoLease
                 \/ GoesTo(t, "Hold", assigned[t]) /\ assigned[t] # NoLease
  BY <1>0, <1>1 DEF Take, Place
<1>7. (Yield(t) => GoesTo(t, "Select", NoLease)) /\ (YieldFails(t) => GoesTo(t, "Failed", NoLease))
  BY <1>0, <1>1, <1>2 DEF Yield, YieldFails, Place
<1>8. (SelectNobody(t) => GoesTo(t, "Wait", NoLease)) /\ (SelectFails(t) => GoesTo(t, "Failed", NoLease))
  BY <1>0, <1>1, <1>2 DEF SelectNobody, SelectFails, Place
<1>9. (Assign(t) => GoesTo(t, "Wait", NoLease))
  BY <1>0, <1>1 DEF Assign, Place
<1>10. CancelRequest(t) => GoesTo(t, "Cancel", NoLease)
  <2> SUFFICES ASSUME CancelRequest(t) PROVE GoesTo(t, "Cancel", NoLease)
    OBVIOUS
  <2> DEFINE e == [IdleGate EXCEPT !.at = "Cancel"]
  <2>1. gate' = [gate EXCEPT ![t] = e]
    BY DEF CancelRequest
  <2>2. e \in Gate /\ e.at = "Cancel" /\ e.lease = NoLease
    BY RenewedFacts
  <2> HIDE DEF e
  <2> QED
    BY <1>3, <2>1, <2>2
<1>11. CancelAssignment(t) =>
          \/ GoesTo(t, "Idle", NoLease) /\ assigned[t] = NoLease
          \/ GoesTo(t, "Drop", assigned[t]) /\ assigned[t] # NoLease
  BY <1>0, <1>1, <1>4 DEF CancelAssignment, Place
<1>12. GiveBack(t) => GoesTo(t, "Idle", NoLease)
  BY <1>4 DEF GiveBack
<1> QED
  BY <1>5, <1>6, <1>7, <1>8, <1>9, <1>10, <1>11, <1>12

\* A selection that finds somebody leaves the gate with the lease in its hands, or
\* about to assign it (acquire_now).
LEMMA SelectMoves ==
    ASSUME gate \in [Task -> Gate], NEW t \in Task, SelectSomebody(t)
    PROVE  \E id \in LeaseId, r \in Eligible(Requeued(t), Ask[gate[t].want].key) :
              /\ Grant(Requeued(t), Ask[r].key, r, id)
              /\ queued' = [queued EXCEPT ![t] = gate[t].want, ![Ask[r].task] = NoRequest]
              /\ GoesTo(t, IF Ask[r].task = t THEN "Hold" ELSE "Assign", id)
<1>1. PICK id \in LeaseId, r \in Eligible(Requeued(t), Ask[gate[t].want].key) :
         /\ Grant(Requeued(t), Ask[r].key, r, id)
         /\ queued' = [queued EXCEPT ![t] = gate[t].want, ![Ask[r].task] = NoRequest]
         /\ gate' = Moved(gate, t, IF Ask[r].task = t THEN "Hold" ELSE "Assign", id)
  BY DEF SelectSomebody
<1>2. GoesTo(t, IF Ask[r].task = t THEN "Hold" ELSE "Assign", id)
  BY <1>1, MovedFacts DEF GoesTo, Place
<1> QED
  BY <1>1, <1>2

-----------------------------------------------------------------------------
(* The requests.                                                           *)

\* What acquire_now requeues is the task's own request, and the queues still
\* match what the gates believe.
LEMMA RequeuedFacts ==
    ASSUME TurnInv, NEW t \in Task, gate[t].at = "Select"
    PROVE  /\ gate[t].want \in Request /\ Ask[gate[t].want].task = t
           /\ QueuesTyped(Requeued(t))
           /\ Matched(Requeued(t), [queued EXCEPT ![t] = gate[t].want], StillLost(t))
           /\ \A k \in Key : \A r \in Waiting(queues, k) :
                 Ask[r].task # t => r \in Waiting(Requeued(t), k)
<1> DEFINE b == [queued EXCEPT ![t] = gate[t].want]
<1>1. PICK want \in Request : want = gate[t].want /\ Ask[want].task = t
  BY DEF TurnInv, OwnRequests
<1>2. Ask[want].key \in Key
  BY AskFacts
<1>3. QueuesTyped(queues) /\ queued \in [Task -> Request \cup {NoRequest}]
  BY DEF TurnInv, TurnTypes, TypeInv
<1>4. \A k \in Key : \A r \in Waiting(queues, k) : queued[Ask[r].task] = r
  BY DEF TurnInv, QueueInv, Matched
<1>5. \A u \in Task \ lost : queued[u] # NoRequest => queued[u] \in Waiting(queues, Ask[queued[u]].key)
  BY DEF TurnInv, QueueInv, Matched
<1>6. b[t] = want /\ \A u \in Task \ {t} : b[u] = queued[u]
  BY <1>1, <1>3
<1>7. CASE queued[t] = want
  <2>1. Requeued(t) = queues /\ StillLost(t) = lost
    BY <1>1, <1>7 DEF Requeued, StillLost
  <2>2. b = queued
    BY <1>1, <1>3, <1>7
  <2> QED
    BY <1>1, <1>3, <2>1, <2>2 DEF TurnInv, QueueInv
<1>8. CASE queued[t] # want
  <2> DEFINE kept == IF queued[t] = NoRequest THEN queues ELSE Without(queues, t)
  <2>1. /\ QueuesTyped(kept)
        /\ \A k \in Key : Waiting(kept, k) = {r \in Waiting(queues, k) : Ask[r].task # t}
    <3>1. CASE queued[t] # NoRequest
      BY <1>3, <3>1, WithoutFacts
    <3>2. CASE queued[t] = NoRequest
      <4>1. \A k \in Key : \A r \in Waiting(queues, k) : Ask[r].task # t
        BY <1>4, <3>2, TurnAskAssumption DEF Waiting
      <4> QED
        BY <1>3, <3>2, <4>1
    <3> QED
      BY <3>1, <3>2
  <2>2. Requeued(t) = Enqueued(kept, want) /\ StillLost(t) = lost \ {t}
    BY <1>1, <1>8 DEF Requeued, StillLost
  <2> HIDE DEF kept
  <2>3. /\ QueuesTyped(Requeued(t))
        /\ Waiting(Requeued(t), Ask[want].key) = Waiting(kept, Ask[want].key) \cup {want}
        /\ \A k \in Key \ {Ask[want].key} : Waiting(Requeued(t), k) = Waiting(kept, k)
    <3>1. \A r \in Waiting(kept, Ask[want].key) : Ask[r].task # Ask[want].task
      BY <1>1, <1>2, <2>1
    <3>2. /\ QueuesTyped(Enqueued(kept, want))
          /\ Waiting(Enqueued(kept, want), Ask[want].key) = Waiting(kept, Ask[want].key) \cup {want}
          /\ \A k \in Key \ {Ask[want].key} : Waiting(Enqueued(kept, want), k) = Waiting(kept, k)
      BY <2>1, <3>1, EnqueuedFacts
    <3> QED
      BY <2>2, <3>2
  <2> HIDE DEF b
  <2>4. \A k \in Key : \A r \in Waiting(Requeued(t), k) :
           r = want \/ (r \in Waiting(queues, k) /\ Ask[r].task # t)
    BY <2>1, <2>3
  <2>5. \A k \in Key : \A r \in Waiting(queues, k) : Ask[r].task # t => r \in Waiting(Requeued(t), k)
    BY <2>1, <2>3
  <2>6. \A k \in Key : \A r \in Waiting(Requeued(t), k) : b[Ask[r].task] = r
    <3> SUFFICES ASSUME NEW k \in Key, NEW r \in Waiting(Requeued(t), k) PROVE b[Ask[r].task] = r
      OBVIOUS
    <3>1. CASE r = want
      BY <1>1, <1>6, <3>1
    <3>2. CASE r # want
      <4>1. r \in Waiting(queues, k) /\ Ask[r].task # t /\ Ask[r].task \in Task
        BY <2>4, <3>2, AskFacts DEF Waiting
      <4> QED
        BY <1>4, <1>6, <4>1
    <3> QED
      BY <3>1, <3>2
  <2>7. ASSUME NEW u \in Task \ (lost \ {t}), b[u] # NoRequest
        PROVE  b[u] \in Waiting(Requeued(t), Ask[b[u]].key)
    <3>1. CASE u = t
      BY <1>6, <2>3, <3>1
    <3>2. CASE u # t
      <4>1. PICK r \in Request : r = queued[u]
        BY <1>3, <1>6, <2>7, <3>2
      <4>2. b[u] = r /\ Ask[r].task = u /\ r \in Waiting(queues, Ask[r].key) /\ Ask[r].key \in Key
        BY <1>5, <1>6, <2>7, <3>2, <4>1, AskFacts DEF TurnInv, OwnRequests
      <4> QED
        BY <2>5, <3>2, <4>2
    <3> QED
      BY <3>1, <3>2
  <2>8. Matched(Requeued(t), b, StillLost(t))
    BY <2>2, <2>6, <2>7 DEF Matched
  <2> QED
    BY <1>1, <2>3, <2>5, <2>8 DEF b
<1> QED
  BY <1>7, <1>8

\* What a gate carries stays a lease.
LEMMA CarriedStayLeases ==
    ASSUME OwnRequests, NEW t \in Task, NEW place \in Place, NEW id, GoesTo(t, place, id),
           place \in Carrying => id \in LeaseId,
           NEW u \in Task, gate'[u].at \in Carrying
    PROVE  gate'[u].lease \in LeaseId
<1>1. CASE u = t
  BY <1>1 DEF GoesTo, OwnRequests
<1>2. CASE u # t
  BY <1>2 DEF GoesTo, OwnRequests
<1> QED
  BY <1>1, <1>2

\* What a gate asks for stays its own task's, whatever step is taken.
LEMMA WantsStayOwn ==
    ASSUME OwnRequests, NEW t \in Task, NEW place \in Place, NEW id, GoesTo(t, place, id),
           place = "Take" => gate'[t].want \in Request /\ Ask[gate'[t].want].task = t,
           place \in {"Yield", "Select"} => gate[t].at \in {"Take", "Yield"},
           NEW u \in Task, gate'[u].at \in {"Take", "Yield", "Select"}
    PROVE  gate'[u].want \in Request /\ Ask[gate'[u].want].task = u
<1>1. CASE u = t
  BY <1>1 DEF GoesTo, OwnRequests
<1>2. CASE u # t
  BY <1>2 DEF GoesTo, OwnRequests
<1> QED
  BY <1>1, <1>2

\* A step that leaves the requests alone.
LEMMA QuietStep ==
    ASSUME TurnInv, TurnTypes', expired' = {}, UNCHANGED <<queues, queued, lost>>,
           NEW t \in Task, NEW place \in Place, NEW id, GoesTo(t, place, id),
           place = "Take" => gate'[t].want \in Request /\ Ask[gate'[t].want].task = t,
           place \in {"Yield", "Select"} => gate[t].at \in {"Take", "Yield"},
           place \in Carrying => id \in LeaseId
    PROVE  TurnInv'
<1>1. OwnRequests'
  BY WantsStayOwn, CarriedStayLeases DEF TurnInv, OwnRequests
<1>2. QueueInv'
  BY DEF TurnInv, QueueInv, Matched, Waiting
<1> QED
  BY <1>1, <1>2 DEF TurnInv

\* The queue of k loses S, a request at most; its gate forgets it or it is lost.
TakesOut(t, k, S, forgotten) ==
    /\ S \subseteq Waiting(Requeued(t), k) /\ \A r, s \in S : r = s
    /\ queues' = Dropped(Requeued(t), k, S)
    /\ forgotten \subseteq {Ask[r].task : r \in S}
    /\ \A u \in Task : queued'[u] = IF u \in forgotten THEN NoRequest
                                    ELSE IF u = t THEN gate[t].want ELSE queued[u]
    /\ lost' = StillLost(t) \cup ({Ask[r].task : r \in S} \ forgotten)

\* A selection that grants nobody, somebody, or fails: the request it took, if
\* any, is dropped, and either forgotten by its gate or lost.
LEMMA SelectStep ==
    ASSUME TurnInv, TurnTypes', expired' = {},
           NEW t \in Task, gate[t].at = "Select",
           NEW place \in Place \ {"Take", "Yield", "Select"}, NEW id, GoesTo(t, place, id),
           place \in Carrying => id \in LeaseId,
           NEW k \in Key, NEW S, NEW forgotten, TakesOut(t, k, S, forgotten)
    PROVE  TurnInv'
<1> DEFINE q == Requeued(t)
           b == [queued EXCEPT ![t] = gate[t].want]
<1>1. /\ gate[t].want \in Request /\ Ask[gate[t].want].task = t
      /\ QueuesTyped(q) /\ Matched(q, b, StillLost(t))
  BY RequeuedFacts
<1>2. \A u \in Task : queued'[u] = IF u \in forgotten THEN NoRequest ELSE b[u]
  BY DEF TurnInv, TurnTypes, TakesOut
<1>a. /\ S \subseteq Waiting(q, k) /\ (\A r, s \in S : r = s)
      /\ queues' = Dropped(q, k, S)
      /\ forgotten \subseteq {Ask[r].task : r \in S}
      /\ lost' = StillLost(t) \cup ({Ask[r].task : r \in S} \ forgotten)
  BY DEF TakesOut
<1> HIDE DEF q, b
<1>3. /\ Waiting(queues', k) = Waiting(q, k) \ S
      /\ \A j \in Key \ {k} : Waiting(queues', j) = Waiting(q, j)
  BY <1>1, <1>a, DroppedFacts
<1>4. \A u \in Task : b[u] # NoRequest => Ask[b[u]].task = u
  BY <1>1 DEF b, TurnInv, TurnTypes, OwnRequests
<1>5. OwnRequests'
  <2>1. \A u \in Task : queued'[u] # NoRequest => Ask[queued'[u]].task = u
    BY <1>2, <1>4
  <2> QED
    BY <2>1, WantsStayOwn, CarriedStayLeases DEF TurnInv, OwnRequests
<1>6. ASSUME NEW j \in Key, NEW r \in Waiting(queues', j)
      PROVE  queued'[Ask[r].task] = r
  <2>1. r \in Waiting(q, j) /\ Ask[r].task \in Task /\ b[Ask[r].task] = r /\ r \notin S
    <3>1. r \in Waiting(q, j) /\ r \notin S
      <4>1. CASE j = k
        BY <1>3, <4>1
      <4>2. CASE j # k
        <5>1. r \in Waiting(q, j)
          BY <1>3, <4>2
        <5>2. Ask[r].key = j /\ \A s \in S : Ask[s].key = k
          BY <1>a, <5>1 DEF Waiting
        <5> QED
          BY <4>2, <5>1, <5>2
      <4> QED
        BY <4>1, <4>2
    <3> QED
      BY <1>1, <3>1, AskFacts DEF Waiting, Matched
  <2>2. \A s \in S : b[Ask[s].task] = s
    BY <1>1, <1>a DEF Matched
  <2>3. Ask[r].task \notin forgotten
    BY <1>a, <2>1, <2>2
  <2> QED
    BY <1>2, <2>1, <2>3
<1>7. ASSUME NEW u \in Task \ lost', queued'[u] # NoRequest
      PROVE  queued'[u] \in Waiting(queues', Ask[queued'[u]].key)
  <2>1. u \notin forgotten /\ queued'[u] = b[u] /\ u \in Task \ StillLost(t)
    BY <1>2, <1>7, <1>a
  <2>2. b[u] \in Waiting(q, Ask[b[u]].key) /\ Ask[b[u]].key \in Key
    BY <1>1, <1>7, <2>1, AskFacts DEF Matched, Waiting
  <2>3. b[u] \notin S
    BY <1>4, <1>7, <1>a, <2>1
  <2> QED
    BY <1>3, <2>1, <2>2, <2>3
<1>8. QueueInv'
  <2>1. \A j \in Key : \A r \in Waiting(queues', j) : queued'[Ask[r].task] = r
    BY <1>6
  <2>2. \A u \in Task \ lost' : queued'[u] # NoRequest => queued'[u] \in Waiting(queues', Ask[queued'[u]].key)
    BY <1>7
  <2> QED
    BY <2>1, <2>2 DEF QueueInv, Matched, Waiting
<1> QED
  BY <1>5, <1>8 DEF TurnInv

\* The requests and the leases stay typed, the queues matched, whatever a gate does
\* (acquire, acquire_now, ProviderTurnWaitCleanup).
LEMMA TurnStep ==
    ASSUME TurnInv, NEW t \in Task, Acquire(t) \/ Leave(t)
    PROVE  TurnInv'
<1> USE DEF Place
<1>0. /\ TurnTypes /\ TypeInv /\ QueuesTyped(queues) /\ expired = {}
      /\ gate \in [Task -> Gate] /\ assigned \in [Task -> LeaseId \cup {NoLease}]
      /\ queued \in [Task -> Request \cup {NoRequest}] /\ lost \subseteq Task
  BY DEF TurnInv, TurnTypes, TypeInv, OwnRequests
<1>1. CASE Enter(t)
  <2>1. GoesTo(t, "Take", NoLease) /\ gate'[t].want = Wanted(t)
    BY <1>0, <1>1, GateMoves
  <2>2. Wanted(t) \in Request /\ Ask[Wanted(t)].task = t
    BY TurnAskAssumption DEF Wanted, TurnRequest, Key
  <2>3. TypeInv'
    BY <1>0, <1>1 DEF Enter, TypeInv, LeasesTyped, CursorsTyped, resources
  <2>4. TurnTypes'
    BY <1>0, <1>1, <2>1, <2>3 DEF Enter, TurnTypes, GoesTo
  <2> QED
    BY <1>0, <1>1, <2>1, <2>2, <2>4, QuietStep DEF Enter, resources, Carrying
<1>2. CASE Take(t)
  <2>1. TypeInv'
    BY <1>0, <1>2 DEF Take, TypeInv, LeasesTyped, CursorsTyped, resources
  <2>2. PICK place \in Place \ {"Take"}, id \in LeaseId \cup {NoLease} :
           GoesTo(t, place, id) /\ (place \in Carrying => id \in LeaseId)
    BY <1>0, <1>2, GateMoves DEF Carrying
  <2>3. TurnTypes'
    BY <1>0, <1>2, <2>1, <2>2 DEF Take, TurnTypes, GoesTo
  <2> QED
    BY <1>0, <1>2, <2>2, <2>3, QuietStep DEF Take, resources
<1>3. CASE Yield(t) \/ YieldFails(t)
  <2>1. Release(gate[t].lease) /\ gate[t].at = "Yield" /\ UNCHANGED <<queued, assigned, mail, lost>>
    BY <1>3 DEF Yield, YieldFails
  <2>2. gate[t].lease \in LeaseId
    BY <2>1 DEF TurnInv, OwnRequests, Carrying
  <2>3. TypeInv' /\ UNCHANGED <<queues, expired>>
    BY <1>0, <2>1, <2>2, ReleaseTyped DEF Release
  <2>4. PICK place \in {"Select", "Failed"} : GoesTo(t, place, NoLease)
    BY <1>0, <1>3, GateMoves
  <2>5. TurnTypes'
    BY <1>0, <2>1, <2>3, <2>4 DEF TurnTypes, GoesTo
  <2> QED
    BY <1>0, <2>1, <2>3, <2>4, <2>5, QuietStep DEF Carrying
<1>4. ASSUME gate[t].at = "Select"
      PROVE  /\ gate[t].want \in Request /\ Ask[gate[t].want].task = t /\ Ask[gate[t].want].key \in Key
             /\ QueuesTyped(Requeued(t)) /\ StillLost(t) \subseteq Task
             /\ \A k \in Key : Eligible(Requeued(t), k) \subseteq Waiting(Requeued(t), k)
  BY <1>0, <1>4, RequeuedFacts, AskFacts DEF StillLost, Eligible
<1>5. CASE SelectNobody(t)
  <2> DEFINE k == Ask[gate[t].want].key
  <2>1. /\ gate[t].at = "Select" /\ GrantNone(Requeued(t), k)
        /\ queued' = [queued EXCEPT ![t] = gate[t].want]
        /\ lost' = StillLost(t)
        /\ UNCHANGED <<boost, expired, assigned, mail>>
    BY <1>5 DEF SelectNobody
  <2>2. k \in Key /\ gate[t].want \in Request /\ QueuesTyped(Requeued(t)) /\ StillLost(t) \subseteq Task
    BY <1>4, <2>1
  <2> HIDE DEF k
  <2>3. TypeInv'
    BY <1>0, <2>1, <2>2, GrantNoneTyped
  <2>4. GoesTo(t, "Wait", NoLease)
    BY <1>0, <1>5, GateMoves
  <2>5. TurnTypes'
    BY <1>0, <2>1, <2>2, <2>3, <2>4 DEF TurnTypes, GoesTo
  <2>6. queues' = Dropped(Requeued(t), k, {})
    BY <1>0, <2>1 DEF GrantNone
  <2>7. \A u \in Task : queued'[u] = IF u \in {} THEN NoRequest
                                     ELSE IF u = t THEN gate[t].want ELSE queued[u]
    BY <1>0, <2>1
  <2>8. {} \in SUBSET Waiting(Requeued(t), k) /\ {} \in SUBSET {Ask[r].task : r \in {}}
        /\ lost' = StillLost(t) \cup ({Ask[r].task : r \in {}} \ {})
    BY <2>1
  <2>11. TakesOut(t, k, {}, {})
    BY <2>6, <2>7, <2>8 DEF TakesOut
  <2> QED
    BY <1>0, <2>1, <2>2, <2>4, <2>5, <2>11, SelectStep DEF Carrying
<1>6. CASE SelectSomebody(t)
  <2>1. /\ gate[t].at = "Select"
        /\ lost' = StillLost(t)
        /\ UNCHANGED <<boost, expired, assigned, mail>>
    BY <1>6 DEF SelectSomebody
  <2>2. PICK k \in Key : k = Ask[gate[t].want].key
    BY <1>4, <2>1
  <2>3. PICK id \in LeaseId, r \in Eligible(Requeued(t), k) :
           /\ Grant(Requeued(t), Ask[r].key, r, id)
           /\ queued' = [queued EXCEPT ![t] = gate[t].want, ![Ask[r].task] = NoRequest]
           /\ GoesTo(t, IF Ask[r].task = t THEN "Hold" ELSE "Assign", id)
    BY <1>0, <1>6, <2>2, SelectMoves
  <2>4. r \in Waiting(Requeued(t), k) /\ r \in Request /\ Ask[r].key = k /\ Ask[r].task \in Task
    BY <1>4, <2>1, <2>3, AskFacts DEF Waiting
  <2>5. TypeInv'
    BY <1>0, <1>4, <2>1, <2>3, <2>4, GrantTyped
  <2>6. TurnTypes'
    BY <1>0, <1>4, <2>1, <2>3, <2>4, <2>5 DEF TurnTypes, GoesTo
  <2>7. queues' = Dropped(Requeued(t), k, {r})
    BY <1>0, <2>3, <2>4 DEF Grant
  <2>8. \A u \in Task : queued'[u] = IF u \in {Ask[r].task} THEN NoRequest
                                     ELSE IF u = t THEN gate[t].want ELSE queued[u]
    BY <1>0, <1>4, <2>1, <2>3, <2>4
  <2>9. /\ {r} \in SUBSET Waiting(Requeued(t), k) /\ {Ask[r].task} \in SUBSET {Ask[s].task : s \in {r}}
        /\ lost' = StillLost(t) \cup ({Ask[s].task : s \in {r}} \ {Ask[r].task})
    BY <2>1, <2>4
  <2> DEFINE place == IF Ask[r].task = t THEN "Hold" ELSE "Assign"
  <2>10. place \in Place \ {"Take", "Yield", "Select"} /\ GoesTo(t, place, id)
    BY <2>3
  <2> HIDE DEF place
  <2>11. TakesOut(t, k, {r}, {Ask[r].task})
    BY <2>7, <2>8, <2>9 DEF TakesOut
  <2> QED
    BY <1>0, <2>1, <2>6, <2>10, <2>11, SelectStep DEF Carrying
<1>7. CASE SelectFails(t)
  <2>1. /\ gate[t].at = "Select"
        /\ queued' = [queued EXCEPT ![t] = gate[t].want]
        /\ UNCHANGED <<boost, expired, active, inUse, assigned, mail>>
    BY <1>7 DEF SelectFails
  <2>2. PICK k \in Key : k = Ask[gate[t].want].key
    BY <1>4, <2>1
  <2>3. PICK r \in Eligible(Requeued(t), k) :
           /\ queues' = Dropped(Requeued(t), Ask[r].key, expired \cup {r})
           /\ CursorMoved(Ask[r].key, r)
           /\ lost' = StillLost(t) \cup {Ask[r].task}
    BY <1>7, <2>2 DEF SelectFails
  <2>4. r \in Waiting(Requeued(t), k) /\ r \in Request /\ Ask[r].key = k /\ Ask[r].task \in Task
    BY <1>4, <2>1, AskFacts DEF Waiting
  <2>5. queues' = Dropped(Requeued(t), k, {r})
    BY <1>0, <2>3, <2>4
  <2>6. TypeInv'
    <3>1. QueuesTyped(queues')
      BY <1>4, <2>1, <2>5, DroppedFacts
    <3>2. CursorsTyped'
      BY <1>0, <2>3, <2>4, CursorTyped DEF TypeInv
    <3> QED
      BY <1>0, <2>1, <3>1, <3>2 DEF TypeInv, LeasesTyped
  <2>7. GoesTo(t, "Failed", NoLease)
    BY <1>0, <1>7, GateMoves
  <2>8. TurnTypes'
    BY <1>0, <1>4, <2>1, <2>3, <2>4, <2>6, <2>7 DEF TurnTypes, GoesTo
  <2>9. \A u \in Task : queued'[u] = IF u \in {} THEN NoRequest
                                     ELSE IF u = t THEN gate[t].want ELSE queued[u]
    BY <1>0, <2>1
  <2>10. /\ {r} \in SUBSET Waiting(Requeued(t), k) /\ {} \in SUBSET {Ask[s].task : s \in {r}}
         /\ lost' = StillLost(t) \cup ({Ask[s].task : s \in {r}} \ {})
    BY <2>3, <2>4
  <2>11. TakesOut(t, k, {r}, {})
    BY <2>5, <2>9, <2>10 DEF TakesOut
  <2> QED
    BY <1>0, <2>1, <2>7, <2>8, <2>11, SelectStep DEF Carrying
<1>8. CASE Assign(t)
  <2>1. gate[t].lease \in LeaseId /\ TypeInv'
    BY <1>0, <1>8 DEF Assign, TurnInv, OwnRequests, Carrying, TypeInv, LeasesTyped, CursorsTyped, resources
  <2>2. GoesTo(t, "Wait", NoLease)
    BY <1>0, <1>8, GateMoves
  <2>3. TurnTypes'
    BY <1>0, <1>8, <2>1, <2>2 DEF Assign, TurnTypes, GoesTo
  <2> QED
    BY <1>0, <1>8, <2>2, <2>3, QuietStep DEF Assign, resources, Carrying
<1>9. CASE CancelRequest(t)
  <2>1. /\ CancelTaskRequests(t) /\ queued' = [queued EXCEPT ![t] = NoRequest]
        /\ lost' = lost \ {t} /\ UNCHANGED <<assigned, mail, expired>>
    BY <1>9 DEF CancelRequest, CancelTaskRequests
  <2>2. TypeInv'
    BY <1>0, <2>1, CancelTyped
  <2>3. GoesTo(t, "Cancel", NoLease)
    BY <1>0, <1>9, GateMoves
  <2>4. TurnTypes'
    BY <1>0, <2>1, <2>2, <2>3 DEF TurnTypes, GoesTo
  <2>5. \A k \in Key : Waiting(queues', k) = {r \in Waiting(queues, k) : Ask[r].task # t}
    BY <1>0, <2>1, WithoutFacts DEF CancelTaskRequests
  <2>6. queued'[t] = NoRequest /\ \A u \in Task \ {t} : queued'[u] = queued[u]
    BY <1>0, <2>1
  <2>7. OwnRequests'
    <3>1. \A u \in Task : queued'[u] # NoRequest => Ask[queued'[u]].task = u
      BY <2>6 DEF TurnInv, OwnRequests
    <3> QED
      BY <1>0, <2>1, <2>3, <3>1, WantsStayOwn, CarriedStayLeases DEF TurnInv, OwnRequests, Carrying
  <2>8. \A k \in Key : \A r \in Waiting(queues', k) : queued'[Ask[r].task] = r
    BY <2>5, <2>6, AskFacts DEF TurnInv, QueueInv, Matched, Waiting
  <2>9. ASSUME NEW u \in Task \ lost', queued'[u] # NoRequest
        PROVE  queued'[u] \in Waiting(queues', Ask[queued'[u]].key)
    <3>1. u # t /\ u \in Task \ lost /\ queued'[u] = queued[u]
      BY <2>1, <2>6, <2>9
    <3>2. queued[u] \in Waiting(queues, Ask[queued[u]].key) /\ queued[u] \in Request /\ Ask[queued[u]].task = u
      BY <1>0, <2>9, <3>1 DEF TurnInv, OwnRequests, QueueInv, Matched
    <3> QED
      BY <2>5, <3>1, <3>2, AskFacts
  <2>10. QueueInv'
    BY <2>8, <2>9 DEF QueueInv, Matched, Waiting
  <2> QED
    BY <2>4, <2>7, <2>10 DEF TurnInv
<1>10. CASE CancelAssignment(t)
  <2>1. TypeInv'
    BY <1>0, <1>10 DEF CancelAssignment, TypeInv, LeasesTyped, CursorsTyped, resources
  <2>2. PICK place \in {"Idle", "Drop"}, id \in LeaseId \cup {NoLease} :
           GoesTo(t, place, id) /\ (place \in Carrying => id \in LeaseId)
    BY <1>0, <1>10, GateMoves DEF Carrying
  <2>3. TurnTypes'
    BY <1>0, <1>10, <2>1, <2>2 DEF CancelAssignment, TurnTypes, GoesTo
  <2> QED
    BY <1>0, <1>10, <2>2, <2>3, QuietStep DEF CancelAssignment, resources
<1>11. CASE GiveBack(t)
  <2>1. Release(gate[t].lease) /\ gate[t].lease \in LeaseId /\ UNCHANGED <<queued, assigned, mail, lost>>
    BY <1>11 DEF GiveBack, TurnInv, OwnRequests, Carrying
  <2>2. TypeInv' /\ UNCHANGED <<queues, expired>>
    BY <1>0, <2>1, ReleaseTyped DEF Release
  <2>3. GoesTo(t, "Idle", NoLease)
    BY <1>0, <1>11, GateMoves
  <2>4. TurnTypes'
    BY <1>0, <2>1, <2>2, <2>3 DEF TurnTypes, GoesTo
  <2> QED
    BY <1>0, <2>1, <2>2, <2>3, <2>4, QuietStep DEF Carrying
<1> QED
  BY <1>1, <1>2, <1>3, <1>5, <1>6, <1>7, <1>8, <1>9, <1>10, <1>11 DEF Acquire, Leave

\* Types, own requests and matched queues are invariant (ProviderTurns).
LEMMA TurnInvariant == TSpec => []TurnInv
<1>1. TInit => TurnInv
  <2> SUFFICES ASSUME TInit PROVE TurnInv
    OBVIOUS
  <2>1. TypeInv
    <3>1. QueuesTyped(queues)
      BY DEF TInit, Init, QueuesTyped, Orderly
    <3>2. \A k \in Key : Cursor[k].root \in RootSession \cup {NoOne}
                         /\ Cursor[k].parent \in Parent \cup {NoOne}
      BY CursorAssumption
    <3>3. lastParent \in [Key -> [RootSession -> Parent \cup {NoOne}]]
      BY <3>2 DEF TInit, Init
    <3> QED
      BY <3>1, <3>2, <3>3 DEF TInit, Init, TypeInv, LeasesTyped, CursorsTyped, MaxBoost
  <2>2. IdleGate \in Gate
    BY RenewedFacts
  <2>3. TurnTypes
    BY <2>1, <2>2 DEF TInit, TurnTypes
  <2>4. OwnRequests
    BY DEF TInit, Init, OwnRequests, IdleGate, Carrying
  <2>5. QueueInv
    BY DEF TInit, Init, QueueInv, Matched, Waiting
  <2> QED
    BY <2>3, <2>4, <2>5 DEF TurnInv
<1>2. ASSUME TurnInv, [TNext]_tvars
      PROVE  TurnInv'
  <2>1. CASE \E t \in Task : Acquire(t) \/ Leave(t)
    BY <1>2, <2>1, TurnStep
  <2>2. ASSUME NEW t \in Coordinator, Mail(t)
        PROVE  TurnInv'
    <3>1. UNCHANGED <<resources, queued, assigned, gate, lost>> /\ mail' \subseteq Coordinator
      BY <1>2, <2>2 DEF Mail, TurnInv, TurnTypes
    <3> QED
      BY <1>2, <3>1 DEF TurnInv, TurnTypes, OwnRequests, QueueInv, Matched, Waiting, resources,
                        TypeInv, LeasesTyped, CursorsTyped, QueuesTyped
  <2>3. CASE UNCHANGED tvars
    BY <1>2, <2>3 DEF tvars, turns, TurnInv, TurnTypes, OwnRequests, QueueInv, Matched, Waiting,
                      resources, TypeInv, LeasesTyped, CursorsTyped, QueuesTyped
  <2> QED
    BY <1>2, <2>1, <2>2, <2>3 DEF TNext
<1> QED
  BY <1>1, <1>2, PTL DEF TSpec

\* Types (TurnsTypeOK).
THEOREM TurnsTypeCorrect == TSpec => []TurnsTypeOK
<1>1. TurnInv => TurnsTypeOK
  BY DEF TurnInv, TurnTypes, TurnsTypeOK, TypeOK, TypeInv, QueuesTyped, Orderly, LeasesTyped, CursorsTyped
<1> QED
  BY <1>1, TurnInvariant, PTL

\* A task stands in at most one queue, the one acquire_now remembers for it,
\* whatever a gate queues, replaces, grants, loses or cancels meanwhile.
THEOREM OneRequestPerTaskCorrect == TSpec => []OneRequestPerTask
<1>1. TurnInv => OneRequestPerTask
  BY DEF TurnInv, QueueInv, Matched, OneRequestPerTask
<1> QED
  BY <1>1, TurnInvariant, PTL

-----------------------------------------------------------------------------
(* The leases.                                                             *)

Assigning(t, id) == gate[t].at = "Assign" /\ gate[t].lease = id

\* A lease that is in somebody's hands or assigned to somebody is out, granted for
\* that task, and nobody else's; so is one that is about to be assigned, but to
\* the task it was granted for.
LeaseInv ==
    /\ \A t \in Task, id \in LeaseId : Entitled(t, id) =>
          /\ active[id] # NoLease /\ Ask[active[id]].task = t
          /\ ~(InHand(t, id) /\ assigned[t] = id)
    /\ \A t \in Task, id \in LeaseId : Assigning(t, id) =>
          /\ active[id] # NoLease
          /\ \A u \in Task : ~Entitled(u, id) /\ (u # t => ~Assigning(u, id))

\* What a step does to the claims on leases: the gate of t carries given, if
\* anything, instead of what it carried, and the others keep what they had.
LEMMA ClaimsMove ==
    ASSUME gate \in [Task -> Gate], NEW t \in Task, NEW place \in Place, NEW given, GoesTo(t, place, given)
    PROVE  /\ \A id : InHand(t, id)' <=> place \in {"Yield", "Drop", "Hold"} /\ given = id
           /\ \A id : Assigning(t, id)' <=> place = "Assign" /\ given = id
           /\ \A u \in Task \ {t} : \A id : (InHand(u, id)' <=> InHand(u, id))
                                        /\ (Assigning(u, id)' <=> Assigning(u, id))
BY DEF GoesTo, InHand, Assigning

\* The leases stay backed when no claim is made on a lease that had none: nothing
\* is granted or released, and an assignment at most moves into its task's hands.
LEMMA ClaimsKept ==
    ASSUME LeaseInv, UNCHANGED active,
           \A u \in Task, id \in LeaseId : Entitled(u, id)' =>
              Entitled(u, id) /\ ~(InHand(u, id)' /\ (assigned[u] = id)'),
           \A u \in Task, id \in LeaseId : Assigning(u, id)' => Assigning(u, id)
    PROVE  LeaseInv'
BY DEF LeaseInv

\* What a gate does with the leases (acquire_now, cancel_task, the drop of a lease).
LEMMA LeaseStep ==
    ASSUME TurnInv, LeaseInv, NEW t \in Task, Acquire(t) \/ Leave(t)
    PROVE  LeaseInv'
<1>0. /\ gate \in [Task -> Gate] /\ assigned \in [Task -> LeaseId \cup {NoLease}]
      /\ active \in [LeaseId -> Request \cup {NoLease}] /\ NoLease \notin LeaseId
  BY NullAssumption DEF TurnInv, TurnTypes, TypeInv, LeasesTyped
<1>1. CASE Enter(t) \/ SelectNobody(t) \/ SelectFails(t) \/ CancelRequest(t)
  <2>1. PICK place \in {"Take", "Wait", "Failed", "Cancel"} : GoesTo(t, place, NoLease)
    BY <1>0, <1>1, GateMoves
  <2>2. UNCHANGED <<active, assigned>>
    BY <1>1 DEF Enter, SelectNobody, SelectFails, CancelRequest, GrantNone, CancelTaskRequests, resources
  <2>3. /\ \A id : ~InHand(t, id)' /\ ~Assigning(t, id)'
        /\ \A u \in Task \ {t} : \A id : (InHand(u, id)' <=> InHand(u, id))
                                     /\ (Assigning(u, id)' <=> Assigning(u, id))
    BY <1>0, <2>1, ClaimsMove DEF Place
  <2>4. \A u \in Task, id \in LeaseId : Entitled(u, id)' =>
           Entitled(u, id) /\ ~(InHand(u, id)' /\ (assigned[u] = id)')
    BY <2>2, <2>3 DEF LeaseInv, Entitled
  <2>5. \A u \in Task, id \in LeaseId : Assigning(u, id)' => Assigning(u, id)
    BY <2>3
  <2> QED
    BY <2>2, <2>4, <2>5, ClaimsKept
<1>2. CASE Take(t) \/ CancelAssignment(t)
  <2>1. PICK place \in {"Select", "Yield", "Hold", "Idle", "Drop"}, given \in LeaseId \cup {NoLease} :
           GoesTo(t, place, given) /\ (place \in {"Yield", "Hold", "Drop"} => given = assigned[t])
    BY <1>0, <1>2, GateMoves
  <2>2. UNCHANGED active /\ assigned' = [assigned EXCEPT ![t] = NoLease]
    BY <1>2 DEF Take, CancelAssignment, resources
  <2>3. /\ \A id : (InHand(t, id)' => assigned[t] = id) /\ ~Assigning(t, id)'
        /\ \A u \in Task \ {t} : \A id : (InHand(u, id)' <=> InHand(u, id))
                                     /\ (Assigning(u, id)' <=> Assigning(u, id))
    BY <1>0, <2>1, ClaimsMove DEF Place
  <2>4. \A u \in Task, id \in LeaseId : Entitled(u, id)' =>
           Entitled(u, id) /\ ~(InHand(u, id)' /\ (assigned[u] = id)')
    BY <1>0, <2>2, <2>3 DEF LeaseInv, Entitled
  <2>5. \A u \in Task, id \in LeaseId : Assigning(u, id)' => Assigning(u, id)
    BY <2>3
  <2> QED
    BY <2>2, <2>4, <2>5, ClaimsKept
<1>3. CASE Yield(t) \/ YieldFails(t) \/ GiveBack(t)
  <2>1. PICK place \in {"Select", "Failed", "Idle"} : GoesTo(t, place, NoLease)
    BY <1>0, <1>3, GateMoves
  <2>2. PICK given \in LeaseId : InHand(t, given) /\ Release(given) /\ UNCHANGED assigned
    BY <1>3 DEF Yield, YieldFails, GiveBack, InHand, TurnInv, OwnRequests, Carrying
  <2>3. /\ \A id : ~InHand(t, id)' /\ ~Assigning(t, id)'
        /\ \A u \in Task \ {t} : \A id : (InHand(u, id)' <=> InHand(u, id))
                                     /\ (Assigning(u, id)' <=> Assigning(u, id))
    BY <1>0, <2>1, ClaimsMove DEF Place
  <2>4. \A id \in LeaseId \ {given} : active'[id] = active[id]
    BY <1>0, <2>2 DEF Release, ReleaseLease
  <2>5. Entitled(t, given) /\ Ask[active[given]].task = t /\ assigned[t] # given
    BY <2>2 DEF LeaseInv, Entitled
  <2>6. \A u \in Task : ~Entitled(u, given)' /\ ~Assigning(u, given)'
    BY <2>2, <2>3, <2>5 DEF LeaseInv, Entitled
  <2>7. \A u \in Task, id \in LeaseId : Entitled(u, id)' => Entitled(u, id) /\ id # given
    BY <2>2, <2>3, <2>6 DEF Entitled
  <2>8. \A u \in Task, id \in LeaseId : Assigning(u, id)' => Assigning(u, id) /\ id # given
    BY <2>3, <2>6
  <2>9. \A u \in Task, id \in LeaseId : Entitled(u, id)' => ~(InHand(u, id)' /\ (assigned[u] = id)')
    BY <2>2, <2>3, <2>7 DEF LeaseInv, Entitled
  <2> QED
    BY <2>4, <2>7, <2>8, <2>9 DEF LeaseInv
<1>4. CASE SelectSomebody(t)
  <2>1. PICK id \in LeaseId, r \in Eligible(Requeued(t), Ask[gate[t].want].key) :
           /\ Grant(Requeued(t), Ask[r].key, r, id)
           /\ GoesTo(t, IF Ask[r].task = t THEN "Hold" ELSE "Assign", id)
    BY <1>0, <1>4, SelectMoves
  <2>2. PICK place \in {"Hold", "Assign"} : GoesTo(t, place, id) /\ (place = "Hold" <=> Ask[r].task = t)
    BY <2>1
  <2>3. r \in Request
    BY <2>1 DEF Eligible, Waiting
  <2>4. /\ active[id] = NoLease /\ active'[id] = r /\ r # NoLease /\ UNCHANGED assigned
        /\ \A l \in LeaseId \ {id} : active'[l] = active[l]
    BY <1>0, <1>4, <2>1, <2>3, NullAssumption DEF Grant, SelectSomebody
  <2>5. /\ \A l : (InHand(t, l)' <=> place = "Hold" /\ l = id) /\ (Assigning(t, l)' <=> place = "Assign" /\ l = id)
        /\ \A u \in Task \ {t} : \A l : (InHand(u, l)' <=> InHand(u, l))
                                     /\ (Assigning(u, l)' <=> Assigning(u, l))
    BY <1>0, <2>2, ClaimsMove DEF Place
  <2>6. \A u \in Task : ~Entitled(u, id) /\ ~Assigning(u, id)
    BY <2>4 DEF LeaseInv
  <2>7. \A u \in Task, l \in LeaseId \ {id} : /\ Entitled(u, l)' => Entitled(u, l)
                                              /\ Assigning(u, l)' => Assigning(u, l)
                                              /\ ~(Entitled(u, l)' /\ InHand(u, l)' /\ (assigned[u] = l)')
    BY <2>4, <2>5 DEF LeaseInv, Entitled
  <2>8. \A u \in Task : /\ Entitled(u, id)' => u = t /\ place = "Hold" /\ (assigned[u] # id)'
                        /\ Assigning(u, id)' => u = t /\ place = "Assign"
    BY <2>4, <2>5, <2>6 DEF Entitled
  <2> QED
    BY <2>2, <2>4, <2>7, <2>8 DEF LeaseInv
<1>5. CASE Assign(t)
  <2>1. PICK id \in LeaseId : Assigning(t, id)
    BY <1>5 DEF Assign, Assigning, TurnInv, OwnRequests, Carrying
  <2>2. GoesTo(t, "Wait", NoLease)
    BY <1>0, <1>5, GateMoves
  <2>3. active[id] \in Request /\ \A u \in Task : ~Entitled(u, id) /\ (u # t => ~Assigning(u, id))
    BY <1>0, <2>1 DEF LeaseInv
  <2>4. PICK v \in Task : v = Ask[active[id]].task
    BY <2>3, AskFacts
  <2>5. UNCHANGED active /\ assigned' = [assigned EXCEPT ![v] = id]
    BY <1>5, <2>1, <2>4 DEF Assign, Assigning, resources
  <2>6. /\ \A l : ~InHand(t, l)' /\ ~Assigning(t, l)'
        /\ \A u \in Task \ {t} : \A l : (InHand(u, l)' <=> InHand(u, l))
                                    /\ (Assigning(u, l)' <=> Assigning(u, l))
    BY <1>0, <2>2, ClaimsMove DEF Place
  <2>7. \A u \in Task : (Entitled(u, id)' => u = v) /\ ~Assigning(u, id)' /\ ~InHand(u, id)'
    BY <1>0, <2>3, <2>5, <2>6 DEF Entitled
  <2>8. \A u \in Task, l \in LeaseId \ {id} : /\ Entitled(u, l)' => Entitled(u, l)
                                              /\ Assigning(u, l)' => Assigning(u, l)
                                              /\ ~(Entitled(u, l)' /\ InHand(u, l)' /\ (assigned[u] = l)')
    BY <1>0, <2>5, <2>6 DEF LeaseInv, Entitled
  <2> QED
    BY <1>0, <2>3, <2>4, <2>5, <2>7, <2>8, NullAssumption DEF LeaseInv
<1> QED
  BY <1>1, <1>2, <1>3, <1>4, <1>5 DEF Acquire, Leave

\* The claims on leases are invariant.
LEMMA LeaseInvariant == TSpec => [](TurnInv /\ LeaseInv)
<1>1. TInit => LeaseInv
  BY NullAssumption DEF TInit, LeaseInv, Entitled, InHand, Assigning, IdleGate
<1>2. ASSUME TurnInv, LeaseInv, [TNext]_tvars
      PROVE  LeaseInv'
  <2>1. CASE \E t \in Task : Acquire(t) \/ Leave(t)
    BY <1>2, <2>1, LeaseStep
  <2>2. ASSUME UNCHANGED <<active, assigned, gate>>
        PROVE  LeaseInv'
    BY <1>2, <2>2 DEF LeaseInv, Entitled, InHand, Assigning
  <2>3. CASE \E t \in Coordinator : Mail(t)
    BY <2>2, <2>3 DEF Mail, resources
  <2>4. CASE UNCHANGED tvars
    BY <2>2, <2>4 DEF tvars, turns, resources
  <2> QED
    BY <1>2, <2>1, <2>3, <2>4 DEF TNext
<1> QED
  BY <1>1, <1>2, TurnInvariant, PTL DEF TSpec

\* A worker calls the provider only on a lease that is out, granted for it and for
\* nobody else, whatever selection, yield and cancellation do between two locks.
THEOREM TurnsAreBackedCorrect == TSpec => []TurnsAreBacked
<1>1. LeaseInv => TurnsAreBacked
  BY DEF LeaseInv, TurnsAreBacked
<1> QED
  BY <1>1, LeaseInvariant, PTL

-----------------------------------------------------------------------------
(* The sleepers.                                                           *)

\* A gate has selected t and is about to assign it the lease.
BeingAssigned(t) == \E u \in Task, id \in LeaseId : Assigning(u, id) /\ Ask[active[id]].task = t

\* There is something that a gate finds when it looks again, or will be.
Reached(t) == assigned[t] # NoLease \/ queued[t] # NoRequest \/ BeingAssigned(t)

\* A gate that sleeps, or will once it has assigned a lease to another task, is
\* reached, unless a failed write lost its request.
ReachInv ==
    \A t \in Task \ lost : gate[t].at \in {"Wait", "Assign"} => Reached(t)

\* The assignments that other gates are about to make stand (acquire_now keeps the
\* resources locked from the grant to the assignment).
LEMMA AssignmentsStand ==
    ASSUME TurnInv, LeaseInv, NEW t \in Task, Acquire(t) \/ Leave(t)
    PROVE  \A u \in Task \ {t} : /\ gate'[u].at = gate[u].at
                                 /\ \A id \in LeaseId : Assigning(u, id) =>
                                       Assigning(u, id)' /\ active'[id] = active[id]
<1>0. /\ gate \in [Task -> Gate] /\ assigned \in [Task -> LeaseId \cup {NoLease}]
      /\ active \in [LeaseId -> Request \cup {NoLease}]
  BY DEF TurnInv, TurnTypes, TypeInv, LeasesTyped
<1>1. PICK place \in Place, given \in LeaseId \cup {NoLease} : GoesTo(t, place, given)
  <2>1. CASE SelectSomebody(t)
    <3>1. PICK id \in LeaseId, r \in Eligible(Requeued(t), Ask[gate[t].want].key) :
             GoesTo(t, IF Ask[r].task = t THEN "Hold" ELSE "Assign", id)
      BY <1>0, <2>1, SelectMoves
    <3> QED
      BY <3>1 DEF Place
  <2>2. CASE ~SelectSomebody(t)
    BY <1>0, <2>2, GateMoves DEF Acquire, Leave, Place
  <2> QED
    BY <2>1, <2>2
<1>2. \A u \in Task \ {t} : /\ gate'[u].at = gate[u].at
                            /\ \A id \in LeaseId : Assigning(u, id) => Assigning(u, id)'
  BY <1>1 DEF GoesTo, Assigning
<1>3. ASSUME NEW u \in Task \ {t}, NEW id \in LeaseId, Assigning(u, id)
      PROVE  active'[id] = active[id]
  <2>1. active[id] # NoLease /\ ~Entitled(t, id)
    BY <1>3 DEF LeaseInv
  <2>2. CASE Yield(t) \/ YieldFails(t) \/ GiveBack(t)
    <3>1. PICK l \in LeaseId : InHand(t, l) /\ Release(l)
      BY <2>2 DEF Yield, YieldFails, GiveBack, InHand, TurnInv, OwnRequests, Carrying
    <3> QED
      BY <1>0, <2>1, <3>1 DEF Entitled, Release, ReleaseLease
  <2>3. CASE SelectSomebody(t)
    BY <1>0, <2>1, <2>3 DEF SelectSomebody, Grant
  <2>4. CASE Enter(t) \/ Take(t) \/ SelectNobody(t) \/ SelectFails(t) \/ Assign(t)
             \/ CancelRequest(t) \/ CancelAssignment(t)
    BY <2>4 DEF Enter, Take, SelectNobody, GrantNone, SelectFails, Assign, CancelRequest,
                CancelTaskRequests, CancelAssignment, resources
  <2> QED
    BY <2>2, <2>3, <2>4 DEF Acquire, Leave
<1> QED
  BY <1>2, <1>3

\* Whatever a gate does, the sleepers are reached: a selection that forgets a
\* request is about to assign its lease, and it does.
LEMMA ReachStep ==
    ASSUME TurnInv, LeaseInv, ReachInv, NEW t \in Task, Acquire(t) \/ Leave(t)
    PROVE  ReachInv'
<1>0. /\ gate \in [Task -> Gate] /\ assigned \in [Task -> LeaseId \cup {NoLease}]
      /\ queued \in [Task -> Request \cup {NoRequest}] /\ NoRequest \notin Request
      /\ active \in [LeaseId -> Request \cup {NoLease}] /\ NoLease \notin LeaseId
  BY NullAssumption, TurnAskAssumption DEF TurnInv, TurnTypes, TypeInv, LeasesTyped
<1>1. \A u \in Task \ {t} : /\ gate'[u].at = gate[u].at
                            /\ \A id \in LeaseId : Assigning(u, id) =>
                                  Assigning(u, id)' /\ active'[id] = active[id]
  BY AssignmentsStand
<1>2. SUFFICES ASSUME NEW v \in Task \ lost', gate'[v].at \in {"Wait", "Assign"}
               PROVE  Reached(v)'
  BY DEF ReachInv
<1>3. v # t => v \notin lost /\ Reached(v)
  <2>1. SUFFICES ASSUME v # t PROVE v \notin lost
    BY <1>1, <1>2 DEF ReachInv
  <2> QED
    BY <2>1 DEF Acquire, Leave, Enter, Take, Yield, YieldFails, SelectNobody, SelectSomebody,
                SelectFails, Assign, CancelRequest, CancelAssignment, GiveBack, StillLost
<1>4. ASSUME ~Assign(t), BeingAssigned(v)
      PROVE  BeingAssigned(v)' \/ gate[t].at = "Assign"
  BY <1>1, <1>4 DEF BeingAssigned, Assigning
<1>5. ASSUME Acquire(t) \/ Leave(t), ~Assign(t)
      PROVE  gate[t].at # "Assign"
  BY <1>5 DEF Acquire, Leave, Enter, Woken, Take, Yield, YieldFails, SelectNobody, SelectSomebody,
              SelectFails, CancelRequest, CancelAssignment, GiveBack
<1>6. CASE Assign(t)
  <2>1. PICK id \in LeaseId : Assigning(t, id)
    BY <1>6 DEF Assign, Assigning, TurnInv, OwnRequests, Carrying
  <2>2. UNCHANGED <<active, queued, lost>> /\ assigned' = [assigned EXCEPT ![Ask[active[id]].task] = id]
    BY <1>6, <2>1 DEF Assign, Assigning, resources
  <2>3. Reached(v)
    BY <1>2, <1>3, <2>1, <2>2 DEF ReachInv, Assigning
  <2>4. assigned[v] # NoLease => (assigned[v] # NoLease)'
    BY <1>0, <2>2
  <2>5. BeingAssigned(v) => BeingAssigned(v)' \/ (assigned[v] # NoLease)'
    <3>1. SUFFICES ASSUME NEW u \in Task, NEW l \in LeaseId, Assigning(u, l), Ask[active[l]].task = v
                   PROVE  BeingAssigned(v)' \/ (assigned[v] # NoLease)'
      BY DEF BeingAssigned
    <3>2. CASE u = t
      BY <1>0, <2>1, <2>2, <3>1, <3>2 DEF Assigning
    <3>3. CASE u # t
      BY <1>1, <3>1, <3>3 DEF BeingAssigned
    <3> QED
      BY <3>2, <3>3
  <2> QED
    BY <2>2, <2>3, <2>4, <2>5 DEF Reached
<1>7. CASE SelectSomebody(t)
  <2>1. PICK id \in LeaseId, r \in Eligible(Requeued(t), Ask[gate[t].want].key) :
           /\ Grant(Requeued(t), Ask[r].key, r, id)
           /\ queued' = [queued EXCEPT ![t] = gate[t].want, ![Ask[r].task] = NoRequest]
           /\ GoesTo(t, IF Ask[r].task = t THEN "Hold" ELSE "Assign", id)
    BY <1>0, <1>7, SelectMoves
  <2>2. /\ gate[t].want \in Request /\ Ask[r].task \in Task /\ UNCHANGED assigned
        /\ active'[id] = r
    BY <1>0, <1>7, <2>1, AskFacts DEF SelectSomebody, Eligible, Waiting, Grant, TurnInv, OwnRequests
  <2>3. CASE v = Ask[r].task
    <3>1. gate'[t].at = "Assign" /\ gate'[t].lease = id
      BY <1>2, <2>1, <2>3 DEF GoesTo
    <3> QED
      BY <2>2, <2>3, <3>1 DEF Reached, BeingAssigned, Assigning
  <2>4. CASE v # Ask[r].task /\ v = t
    BY <1>0, <2>1, <2>2, <2>4 DEF Reached
  <2>5. CASE v # Ask[r].task /\ v # t
    <3>1. queued'[v] = queued[v] /\ assigned'[v] = assigned[v]
      BY <1>0, <2>1, <2>2, <2>5
    <3>2. BeingAssigned(v) => BeingAssigned(v)'
      BY <1>4, <1>5, <1>7 DEF Assign, SelectSomebody
    <3> QED
      BY <1>3, <2>5, <3>1, <3>2 DEF Reached
  <2> QED
    BY <2>3, <2>4, <2>5
<1>8. CASE ~Assign(t) /\ ~SelectSomebody(t)
  <2>1. CASE v # t
    <3>1. queued'[v] = queued[v] /\ assigned'[v] = assigned[v]
      BY <1>0, <1>8, <2>1 DEF Acquire, Leave, Enter, Take, Yield, YieldFails, SelectNobody,
                SelectFails, CancelRequest, CancelAssignment, GiveBack
    <3> QED
      BY <1>3, <1>4, <1>5, <1>8, <2>1, <3>1 DEF Reached
  <2>2. CASE v = t
    <3>1. SelectNobody(t)
      BY <1>0, <1>2, <1>8, <2>2, GateMoves DEF Acquire, Leave, GoesTo
    <3>2. gate[t].want \in Request /\ queued' = [queued EXCEPT ![t] = gate[t].want]
      BY <3>1 DEF SelectNobody, TurnInv, OwnRequests
    <3> QED
      BY <1>0, <2>2, <3>2 DEF Reached
  <2> QED
    BY <2>1, <2>2
<1> QED
  BY <1>6, <1>7, <1>8

\* A gate that sleeps can be reached: its request is queued, or a lease is assigned
\* to it or about to be, whatever the others do between two locks.
THEOREM NoSleeperForgottenCorrect == TSpec => []NoSleeperForgotten
<1>1. TInit => ReachInv
  BY DEF TInit, ReachInv, IdleGate
<1>2. ASSUME TurnInv, LeaseInv, ReachInv, [TNext]_tvars
      PROVE  ReachInv'
  <2>1. CASE \E t \in Task : Acquire(t) \/ Leave(t)
    BY <1>2, <2>1, ReachStep
  <2>2. ASSUME UNCHANGED <<active, assigned, queued, gate, lost>>
        PROVE  ReachInv'
    BY <1>2, <2>2 DEF ReachInv, Reached, BeingAssigned, Assigning
  <2>3. CASE \E t \in Coordinator : Mail(t)
    BY <2>2, <2>3 DEF Mail, resources
  <2>4. CASE UNCHANGED tvars
    BY <2>2, <2>4 DEF tvars, turns, resources
  <2> QED
    BY <1>2, <2>1, <2>3, <2>4 DEF TNext
<1>3. TurnInv /\ ReachInv => NoSleeperForgotten
  <2> SUFFICES ASSUME TurnInv, ReachInv, NEW t \in Task \ lost, gate[t].at = "Wait"
               PROVE  \/ assigned[t] # NoLease
                      \/ queued[t] \in Waiting(queues, Ask[queued[t]].key)
                      \/ \E u \in Task : gate[u].at = "Assign" /\ Ask[active[gate[u].lease]].task = t
    BY DEF NoSleeperForgotten
  <2>1. Reached(t)
    BY DEF ReachInv
  <2>2. queued[t] # NoRequest => queued[t] \in Waiting(queues, Ask[queued[t]].key)
    BY DEF TurnInv, QueueInv, Matched
  <2> QED
    BY <2>1, <2>2 DEF Reached, BeingAssigned, Assigning
<1> QED
  BY <1>1, <1>2, <1>3, LeaseInvariant, PTL DEF TSpec

-----------------------------------------------------------------------------
(* The provider's limit.                                                   *)

\* The coordinator's leases change by its own grants and releases only: a gate that
\* stops between two locks never takes or returns a unit on its own.
LEMMA GatesUseTheCoordinator ==
    ASSUME TurnInv, [TNext]_tvars
    PROVE  \/ UNCHANGED <<active, inUse>>
           \/ \E id \in LeaseId : ReleaseLease(id)
           \/ \E k \in Key, r \in Request, id \in LeaseId : \E q : Grant(q, k, r, id)
<1>1. ASSUME NEW t \in Task, Acquire(t) \/ Leave(t)
      PROVE  \/ UNCHANGED <<active, inUse>>
             \/ \E id \in LeaseId : ReleaseLease(id)
             \/ \E k \in Key, r \in Request, id \in LeaseId : \E q : Grant(q, k, r, id)
  <2>1. CASE Yield(t) \/ YieldFails(t) \/ GiveBack(t)
    <3>1. gate[t].lease \in LeaseId /\ ReleaseLease(gate[t].lease)
      BY <2>1 DEF Yield, YieldFails, GiveBack, Release, TurnInv, OwnRequests, Carrying
    <3> QED
      BY <3>1
  <2>2. CASE SelectSomebody(t)
    <3>1. PICK id \in LeaseId, r \in Eligible(Requeued(t), Ask[gate[t].want].key) :
             Grant(Requeued(t), Ask[r].key, r, id)
      BY <2>2 DEF SelectSomebody
    <3>2. r \in Request
      BY <3>1 DEF Eligible, Waiting
    <3>3. PICK k \in Key : k = Ask[r].key
      BY <3>2, AskFacts
    <3>4. PICK q : q = Requeued(t)
      OBVIOUS
    <3>5. Grant(q, k, r, id)
      BY <3>1, <3>3, <3>4
    <3> QED
      BY <3>2, <3>5
  <2>3. CASE Enter(t) \/ Take(t) \/ SelectNobody(t) \/ SelectFails(t) \/ Assign(t)
             \/ CancelRequest(t) \/ CancelAssignment(t)
    BY <2>3 DEF Enter, Take, SelectNobody, GrantNone, SelectFails, Assign, CancelRequest,
                CancelTaskRequests, CancelAssignment, resources
  <2> QED
    BY <1>1, <2>1, <2>2, <2>3 DEF Acquire, Leave
<1>2. CASE UNCHANGED resources
  BY <1>2 DEF resources
<1> QED
  BY <1>1, <1>2 DEF TNext, Mail, tvars

\* However the threads of the gates interleave, fail and are cancelled, the two
\* pools keep to the provider's limit together, and the counters to the leases
\* that are out (RuntimeProviderTurnGate, grant_next_at, release).
THEOREM GatesKeepTheLimit == TSpec => [](CombinedCapacity /\ InUseCountsLeases)
<1>1. TInit => CapacityInv /\ CountInv
  <2> SUFFICES ASSUME TInit PROVE CapacityInv /\ CountInv
    OBVIOUS
  <2>1. LeasesTyped /\ \A k \in Key : Leases(k) = {} /\ inUse[k] = 0
    BY DEF TInit, Init, LeasesTyped, Leases
  <2>2. CombinedCapacity
    BY <2>1, CapacityAssumption DEF CombinedCapacity, Key
  <2>3. IsFiniteSet({}) /\ Held(active, {}) = 0
    BY FS_EmptySet, HeldUnfolds
  <2> QED
    BY <2>1, <2>2, <2>3 DEF CapacityInv, CountInv
<1>2. ASSUME TurnInv, CapacityInv, CountInv, [TNext]_tvars
      PROVE  CapacityInv' /\ CountInv'
  <2>1. CASE UNCHANGED <<active, inUse>>
    BY <1>2, <2>1 DEF CapacityInv, CountInv, LeasesTyped, CombinedCapacity, Leases
  <2>2. ASSUME NEW id \in LeaseId, ReleaseLease(id)
        PROVE  CapacityInv' /\ CountInv'
    BY <1>2, <2>2, ReleaseKeepsCapacity, ReleaseCounts
  <2>3. ASSUME NEW q, NEW k \in Key, NEW r \in Request, NEW id \in LeaseId, Grant(q, k, r, id)
        PROVE  CapacityInv' /\ CountInv'
    BY <1>2, <2>3, GrantKeepsCapacity, GrantCounts
  <2> QED
    BY <1>2, <2>1, <2>2, <2>3, GatesUseTheCoordinator
<1>3. CapacityInv /\ CountInv => CombinedCapacity /\ InUseCountsLeases
  BY DEF CapacityInv, CountInv, InUseCountsLeases, Held
<1> QED
  BY <1>1, <1>2, <1>3, TurnInvariant, PTL DEF TSpec

=============================================================================
