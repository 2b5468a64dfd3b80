----------------------------- MODULE FrameFeed -----------------------------
(***************************************************************************)
(* What the fan-out centre of the app server promises a connected client,  *)
(* without queues, pumps or waiting (Broadcaster is the detailed           *)
(* specification).  Of every emitter a client gets the frames it accepts,  *)
(* in order and without a gap, from the moment it is there; a client that  *)
(* missed one does not stay, except for `local', the desktop, which stays  *)
(* and misses none but those that carry no state.                          *)
(***************************************************************************)
EXTENDS Naturals

CONSTANTS
    Client, Local,  \* connections; Local is the desktop's own, on stdio
    Emitter,        \* the tasks that fan frames out
    Thread,         \* conversations
    Everyone        \* the key of a frame that belongs to no thread

VARIABLES
    emitted,    \* [Emitter -> number of frames it fanned out]
    feed,       \* [Client -> the threads it follows]
    standing,   \* [Client -> "absent", "present", "leaving" or "gone"]
    owed,       \* [Client -> [Emitter -> the frames still to be received]]
    holes,      \* [Client -> the emitters whose last frame it did without]
    keeping,    \* the emitters that see their last frame through: it carries state
    seen        \* [Client -> [Emitter -> the last frame received]]

feedVars == <<emitted, feed, standing, owed, holes, keeping, seen>>

FeedInit ==
    /\ emitted  = [e \in Emitter |-> 0]
    /\ feed     = [c \in Client |-> Thread]
    /\ standing = [c \in Client |-> IF c = Local THEN "present" ELSE "absent"]
    /\ owed     = [c \in Client |-> [e \in Emitter |-> {}]]
    /\ holes    = [c \in Client |-> {}]
    /\ keeping  = {}
    /\ seen     = [c \in Client |-> [e \in Emitter |-> 0]]

Wants(c, key) == key = Everyone \/ key \in feed[c]

Join(c) ==
    /\ standing[c] = "absent"
    /\ standing' = [standing EXCEPT ![c] = "present"]
    /\ UNCHANGED <<emitted, feed, owed, holes, keeping, seen>>

Follow(c, threads) ==
    /\ c # Local /\ standing[c] # "absent"
    /\ feed' = [feed EXCEPT ![c] = threads]
    /\ UNCHANGED <<emitted, standing, owed, holes, keeping, seen>>

Wanting(key) == {c \in Client : standing[c] = "present" /\ Wants(c, key)}

\* A frame that carries no state is owed to whoever is there and wants it, but for
\* those that are `lost': they do without, and go, except for the desktop.
FanOut(e, key) ==
    LET n == emitted[e] + 1 IN
    /\ e \notin keeping
    /\ emitted' = [emitted EXCEPT ![e] = n]
    /\ \E lost \in SUBSET Wanting(key) :
         /\ owed' = [c \in Client |-> IF c \in Wanting(key) \ lost
                                       THEN [owed[c] EXCEPT ![e] = @ \cup {n}] ELSE owed[c]]
         /\ standing' = [c \in Client |-> IF c \in lost \ {Local} THEN "leaving" ELSE standing[c]]
    /\ UNCHANGED <<feed, holes, keeping, seen>>

\* One that does is owed to them all.
Promise(e, key) ==
    LET n == emitted[e] + 1 IN
    /\ e \notin keeping
    /\ emitted' = [emitted EXCEPT ![e] = n]
    /\ keeping' = keeping \cup {e}
    /\ owed' = [c \in Client |-> IF c \in Wanting(key)
                                  THEN [owed[c] EXCEPT ![e] = @ \cup {n}] ELSE owed[c]]
    /\ UNCHANGED <<feed, standing, holes, seen>>

\* The oldest frame is received.
Receive(c, e) ==
    /\ standing[c] \in {"present", "leaving"}
    /\ \E n \in owed[c][e] :
         /\ \A m \in owed[c][e] : n <= m
         /\ seen' = [seen EXCEPT ![c][e] = n]
         /\ owed' = [owed EXCEPT ![c][e] = @ \ {n}]
    /\ UNCHANGED <<emitted, feed, standing, holes, keeping>>

\* The frame that e sees through is given up: by the desktop never.
GiveUp(c, e) ==
    /\ c # Local /\ e \in keeping
    /\ emitted[e] \in owed[c][e]
    /\ owed' = [owed EXCEPT ![c][e] = @ \ {emitted[e]}]
    /\ holes' = [holes EXCEPT ![c] = @ \cup {e}]
    /\ UNCHANGED <<emitted, feed, standing, keeping, seen>>

\* Who did without it is sent away before e goes on.
Settle(e) ==
    /\ e \in keeping
    /\ keeping' = keeping \ {e}
    /\ standing' = [c \in Client |-> IF e \in holes[c] /\ standing[c] = "present"
                                     THEN "leaving" ELSE standing[c]]
    /\ holes' = [c \in Client |-> holes[c] \ {e}]
    /\ UNCHANGED <<emitted, feed, owed, seen>>

\* A device is revoked.
Revoke(c) ==
    /\ c # Local /\ standing[c] = "present"
    /\ standing' = [standing EXCEPT ![c] = "leaving"]
    /\ UNCHANGED <<emitted, feed, owed, holes, keeping, seen>>

Part(c) ==
    /\ standing[c] \in {"present", "leaving"}
    /\ standing' = [standing EXCEPT ![c] = "gone"]
    /\ owed' = [owed EXCEPT ![c] = [e \in Emitter |-> {}]]
    /\ holes' = [holes EXCEPT ![c] = {}]
    /\ UNCHANGED <<emitted, feed, keeping, seen>>

FeedNext ==
    \/ \E c \in Client :
         \/ Join(c) \/ Revoke(c) \/ Part(c)
         \/ \E threads \in SUBSET Thread : Follow(c, threads)
         \/ \E e \in Emitter : Receive(c, e) \/ GiveUp(c, e)
    \/ \E e \in Emitter :
         \/ Settle(e)
         \/ \E key \in Thread \cup {Everyone} : FanOut(e, key) \/ Promise(e, key)

FeedSpec == FeedInit /\ [][FeedNext]_feedVars
=============================================================================
