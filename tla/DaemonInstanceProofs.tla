------------------------ MODULE DaemonInstanceProofs ------------------------
(***************************************************************************)
(* Theorems about DaemonInstance: what its files and histories may be, who *)
(* owns the directory, and that a daemon that serves can be reached, for   *)
(* any number of processes, stops and removals.                            *)
(***************************************************************************)
EXTENDS DaemonInstance, TLAPS

USE FileAssumption, BoundsAssumption

-----------------------------------------------------------------------------
(* Types.                                                                  *)

\* No daemon, an empty directory.
LEMMA InitTypes == InstanceInit => InstanceTypeOK
<1> SUFFICES ASSUME InstanceInit PROVE InstanceTypeOK
  OBVIOUS
<1>1. dir \in BOOLEAN /\ raced \in BOOLEAN /\ unlinked \in BOOLEAN
  BY Zenon DEF InstanceInit
<1>2. /\ lockFile \in File \cup {NoFile} /\ socket \in File \cup {NoFile}
      /\ files \in 0 .. MaxFiles /\ stops \in 0 .. MaxStops /\ removals \in 0 .. MaxRemovals
  BY DEF InstanceInit
<1>3. /\ pc \in [Proc -> Stages]
      /\ lock \in [Proc -> File \cup {NoFile}]
      /\ bound \in [Proc -> File \cup {NoFile}]
      /\ identity \in [Proc -> File \cup {NoFile}]
  BY DEF InstanceInit, Stages
<1> QED BY <1>1, <1>2, <1>3 DEF InstanceTypeOK

\* Every system call leaves files, stages and histories what they are
\* (InstanceLock, start_with_factory, the accept loop's end).
THEOREM InstanceTypeCorrect == InstanceSpec => []InstanceTypeOK
<1>1. InstanceInit => InstanceTypeOK
  BY InitTypes
<1>2. InstanceTypeOK /\ [InstanceNext]_instanceVars => InstanceTypeOK'
  <2> SUFFICES ASSUME InstanceTypeOK, [InstanceNext]_instanceVars
               PROVE  InstanceTypeOK'
    OBVIOUS
  <2> USE DEF InstanceTypeOK, File, Go, history
  <2>1. ASSUME NEW p \in Proc, Starts(p)
        PROVE  InstanceTypeOK'
    <3>1. CASE MakeDir(p)      BY <3>1 DEF MakeDir, Stages, Boot
    <3>2. CASE OpenLock(p)
      <4>1. CASE ~dir                       BY <3>2, <4>1 DEF OpenLock, Stages, Boot
      <4>2. CASE dir /\ lockFile # NoFile   BY <3>2, <4>2 DEF OpenLock, Stages, Boot
      <4>3. CASE dir /\ lockFile = NoFile   BY <3>2, <4>3 DEF OpenLock, Stages, Boot
      <4> QED BY <4>1, <4>2, <4>3
    <3>3. CASE Flock(p)        BY <3>3 DEF Flock, Stages, Boot
    <3>4. CASE ClearSocket(p)  BY <3>4 DEF ClearSocket, Stages, Boot
    <3>5. CASE Sweep(p)        BY <3>5 DEF Sweep, Stages, Boot
    <3>6. CASE Bind(p)
      <4>1. CASE socket # NoFile \/ (SocketInDir /\ ~dir)
        BY <3>6, <4>1 DEF Bind, Stages, Boot
      <4>2. CASE ~(socket # NoFile \/ (SocketInDir /\ ~dir))
        BY <3>6, <4>2 DEF Bind, Stages, Boot
      <4> QED BY <4>1, <4>2
    <3>7. CASE Record(p)       BY <3>7 DEF Record, Stages, Boot
    <3> QED BY <2>1, <3>1, <3>2, <3>3, <3>4, <3>5, <3>6, <3>7 DEF Starts
  <2>2. ASSUME NEW p \in Proc, Ends(p)
        PROVE  InstanceTypeOK'
    BY <2>2 DEF Ends, NoticeMissingDir, CompareSocket, UnlinkSocket, UnlinkLock, Leave, Stages
  <2>3. ASSUME NEW p \in Proc, Stop(p) \/ Die(p)
        PROVE  InstanceTypeOK'
    BY <2>3 DEF Stop, Die, Stages
  <2>4. CASE RemoveDir
    <3>1. dir' \in BOOLEAN /\ raced' \in BOOLEAN /\ unlinked' \in BOOLEAN
      BY <2>4, Zenon DEF RemoveDir
    <3>2. /\ lockFile' \in File \cup {NoFile} /\ socket' \in File \cup {NoFile}
          /\ removals' \in 0 .. MaxRemovals
      BY <2>4 DEF RemoveDir
    <3>3. UNCHANGED <<pc, lock, bound, identity, files, stops>>
      BY <2>4 DEF RemoveDir
    <3> QED BY <3>1, <3>2, <3>3
  <2>5. CASE UNCHANGED instanceVars
    BY <2>5 DEF instanceVars
  <2> QED BY <2>1, <2>2, <2>3, <2>4, <2>5 DEF InstanceNext
<1> QED BY <1>1, <1>2, PTL DEF InstanceSpec

\* What opening the lock file leaves alone, and what it may change.
LEMMA OpenLockFacts ==
    ASSUME InstanceTypeOK, NEW p \in Proc, OpenLock(p)
    PROVE  /\ pc[p] = "made" /\ pc' = [pc EXCEPT ![p] = pc'[p]]
           /\ UNCHANGED <<dir, socket, bound, identity, raced, unlinked>>
           /\ \/ ~dir /\ pc'[p] = "idle" /\ UNCHANGED <<lockFile, lock, files>>
              \/ /\ lockFile # NoFile /\ pc'[p] = "opened"
                 /\ lock' = [lock EXCEPT ![p] = lockFile] /\ UNCHANGED <<lockFile, files>>
              \/ /\ lockFile = NoFile /\ pc'[p] = "opened" /\ files' = files + 1
                 /\ lockFile' = files + 1 /\ lock' = [lock EXCEPT ![p] = files + 1]
<1> USE DEF OpenLock, Go, InstanceTypeOK, history
<1>1. CASE ~dir                      BY <1>1
<1>2. CASE dir /\ lockFile # NoFile  BY <1>2
<1>3. CASE dir /\ lockFile = NoFile  BY <1>3
<1> QED BY <1>1, <1>2, <1>3

-----------------------------------------------------------------------------
(* The lock.                                                               *)

\* flock: two processes never hold one file.
OneHolder ==
    \A p, q \in Proc :
        p # q /\ pc[p] \in Holding /\ pc[q] \in Holding => lock[p] # lock[q]

\* As long as the lock file was removed under nobody, whoever opened it and has
\* not removed it has the one that is there.
Current == {"opened"} \cup (Holding \ {"leaving"})

LockIsCurrent ==
    unlinked \/ \A p \in Proc : pc[p] \in Current => lock[p] = lockFile /\ lockFile # NoFile

LockInv == InstanceTypeOK /\ OneHolder /\ LockIsCurrent

\* No system call of a start or an end breaks the lock's invariant: Flock looks
\* at who holds the file, and removing the file under somebody is remembered.
LEMMA LockInvIsInductive ==
    ASSUME LockInv, [InstanceNext]_instanceVars, InstanceTypeOK'
    PROVE  LockInv'
<1> USE DEF LockInv, InstanceTypeOK, OneHolder, LockIsCurrent, Current, Holding, Stages,
            Boot, Go, history
<1>1. ASSUME NEW p \in Proc, Starts(p)
      PROVE  OneHolder' /\ LockIsCurrent'
  <2>1. CASE MakeDir(p)      BY <2>1 DEF MakeDir
  <2>2. CASE OpenLock(p)
    <3>1. /\ pc[p] = "made" /\ pc'[p] \in {"idle", "opened"}
          /\ \A q \in Proc \ {p} : pc'[q] = pc[q] /\ lock'[q] = lock[q]
          /\ unlinked' = unlinked
      BY <2>2, OpenLockFacts
    <3>2. OneHolder'
      BY <3>1
    <3>3. CASE lockFile' = lockFile
      BY <2>2, <3>1, <3>3, OpenLockFacts
    <3>4. CASE lockFile' # lockFile
      <4>1. /\ lockFile = NoFile /\ lockFile' = files + 1 /\ lock'[p] = files + 1
        BY <2>2, <3>4, OpenLockFacts
      <4>2. unlinked \/ \A q \in Proc : pc[q] \notin Current
        BY <4>1
      <4> QED BY <3>1, <3>2, <4>1, <4>2
    <3> QED BY <3>2, <3>3, <3>4
  <2>3. CASE Flock(p)        BY <2>3 DEF Flock, Held
  <2>4. CASE ClearSocket(p)  BY <2>4 DEF ClearSocket
  <2>5. CASE Sweep(p)        BY <2>5 DEF Sweep
  <2>6. CASE Bind(p)         BY <2>6 DEF Bind
  <2>7. CASE Record(p)       BY <2>7 DEF Record
  <2> QED BY <1>1, <2>1, <2>2, <2>3, <2>4, <2>5, <2>6, <2>7 DEF Starts
<1>2. ASSUME NEW p \in Proc, Ends(p)
      PROVE  OneHolder' /\ LockIsCurrent'
  <2>1. CASE NoticeMissingDir(p) BY <2>1 DEF NoticeMissingDir
  <2>2. CASE CompareSocket(p)    BY <2>2 DEF CompareSocket
  <2>3. CASE UnlinkSocket(p)     BY <2>3 DEF UnlinkSocket
  <2>4. CASE UnlinkLock(p)
    <3>1. OneHolder'
      BY <2>4 DEF UnlinkLock
    <3>2. CASE \E q \in Proc \ {p} : HasOpen(q)
      <4>1. unlinked' = TRUE
        BY <2>4, <3>2, Zenon DEF UnlinkLock
      <4> QED BY <3>1, <4>1
    <3>3. CASE ~\E q \in Proc \ {p} : HasOpen(q)
      <4>1. unlinked' = unlinked /\ UNCHANGED lock
        BY <2>4, <3>3, Zenon DEF UnlinkLock
      <4>2. pc' = [pc EXCEPT ![p] = "leaving"]
        BY <2>4 DEF UnlinkLock
      <4>3. unlinked \/ \A q \in Proc \ {p} : pc[q] \notin Current
        BY <3>3 DEF HasOpen
      <4> QED BY <3>1, <4>1, <4>2, <4>3
    <3> QED BY <3>2, <3>3
  <2>5. CASE Leave(p)            BY <2>5 DEF Leave
  <2> QED BY <1>2, <2>1, <2>2, <2>3, <2>4, <2>5 DEF Ends
<1>3. ASSUME NEW p \in Proc, Stop(p)
      PROVE  OneHolder' /\ LockIsCurrent'
  BY <1>3 DEF Stop
<1>4. ASSUME NEW p \in Proc, Die(p)
      PROVE  OneHolder' /\ LockIsCurrent'
  BY <1>4 DEF Die
<1>5. CASE RemoveDir
  BY <1>5 DEF RemoveDir, HasOpen
<1>6. CASE UNCHANGED instanceVars
  BY <1>6 DEF instanceVars
<1> QED BY <1>1, <1>2, <1>3, <1>4, <1>5, <1>6 DEF InstanceNext

\* Two processes own the directory only after the lock file was removed while
\* another one had it open (ipc.rs, InstanceLock and the end of the loop).
THEOREM OneOwnerUnlessUnlinkedCorrect == InstanceSpec => []OneOwnerUnlessUnlinked
<1>1. InstanceInit => LockInv
  <2>1. InstanceInit => OneHolder /\ LockIsCurrent
    BY DEF InstanceInit, OneHolder, LockIsCurrent, Current, Holding, Stages, Boot
  <2> QED BY <2>1, InitTypes DEF LockInv
<1>2. LockInv /\ InstanceTypeOK' /\ [InstanceNext]_instanceVars => LockInv'
  BY LockInvIsInductive
<1>3. LockInv => OneOwnerUnlessUnlinked
  BY DEF LockInv, OneHolder, LockIsCurrent, Current, OneOwnerUnlessUnlinked, Owning,
         Holding, Stages, Boot
<1> QED BY <1>1, <1>2, <1>3, InstanceTypeCorrect, PTL DEF InstanceSpec

-----------------------------------------------------------------------------
(* The socket.                                                             *)

Listening == {"bound", "serving"}

\* Until two daemons meet, one owns the directory, its socket is there, the
\* identity it recorded is that of its own socket, and nobody is about to
\* unlink what it bound.
SocketIsKept ==
    ~raced =>
        /\ \A p, q \in Proc : p # q => ~(pc[p] \in Owning /\ pc[q] \in Owning)
        /\ \A p \in Proc : pc[p] \in Listening =>
               socket = bound[p] \/ (~dir /\ socket = NoFile)
        /\ \A p \in Proc : pc[p] \in {"serving", "stopping"} =>
               identity[p] \in {NoFile, bound[p]}
        /\ \A p, q \in Proc : ~(pc[p] = "unlinking" /\ pc[q] \in Listening)

\* Sockets are new files.
SocketsDiffer ==
    /\ \A p \in Proc : bound[p] # NoFile => bound[p] <= files
    /\ \A p, q \in Proc : p # q /\ bound[p] # NoFile => bound[p] # bound[q]

SocketInv == InstanceTypeOK /\ SocketIsKept /\ SocketsDiffer

\* Nor the socket's: two daemons meet only in Flock and MakeDir, and a socket is
\* bound beside one that unlinks only where `raced' tells.
LEMMA SocketInvIsInductive ==
    ASSUME SocketInv, [InstanceNext]_instanceVars, InstanceTypeOK'
    PROVE  SocketInv'
<1> USE DEF SocketInv, InstanceTypeOK, SocketIsKept, SocketsDiffer, Listening, Owning,
            Stages, Boot, Go, history, File
<1>1. ASSUME NEW p \in Proc, Starts(p)
      PROVE  SocketIsKept' /\ SocketsDiffer'
  <2>1. CASE MakeDir(p)      BY <2>1 DEF MakeDir
  <2>2. CASE OpenLock(p)
    <3>1. /\ pc[p] = "made" /\ pc'[p] \in {"idle", "opened"}
          /\ \A q \in Proc \ {p} : pc'[q] = pc[q]
          /\ UNCHANGED <<dir, socket, bound, identity, raced>> /\ files' >= files
      BY <2>2, OpenLockFacts
    <3> QED BY <3>1
  <2>3. CASE Flock(p)        BY <2>3 DEF Flock
  <2>4. CASE ClearSocket(p)  BY <2>4 DEF ClearSocket
  <2>5. CASE Sweep(p)        BY <2>5 DEF Sweep
  <2>6. CASE Bind(p)         BY <2>6 DEF Bind
  <2>7. CASE Record(p)       BY <2>7 DEF Record
  <2> QED BY <1>1, <2>1, <2>2, <2>3, <2>4, <2>5, <2>6, <2>7 DEF Starts
<1>2. ASSUME NEW p \in Proc, Ends(p)
      PROVE  SocketIsKept' /\ SocketsDiffer'
  <2>1. CASE NoticeMissingDir(p) BY <2>1 DEF NoticeMissingDir
  <2>2. CASE CompareSocket(p)    BY <2>2 DEF CompareSocket
  <2>3. CASE UnlinkSocket(p)     BY <2>3 DEF UnlinkSocket
  <2>4. CASE UnlinkLock(p)       BY <2>4 DEF UnlinkLock
  <2>5. CASE Leave(p)            BY <2>5 DEF Leave
  <2> QED BY <1>2, <2>1, <2>2, <2>3, <2>4, <2>5 DEF Ends
<1>3. ASSUME NEW p \in Proc, Stop(p)
      PROVE  SocketIsKept' /\ SocketsDiffer'
  BY <1>3 DEF Stop
<1>4. ASSUME NEW p \in Proc, Die(p)
      PROVE  SocketIsKept' /\ SocketsDiffer'
  BY <1>4 DEF Die, Holding
<1>5. CASE RemoveDir
  BY <1>5 DEF RemoveDir
<1>6. CASE UNCHANGED instanceVars
  BY <1>6 DEF instanceVars
<1> QED BY <1>1, <1>2, <1>3, <1>4, <1>5, <1>6 DEF InstanceNext

\* The socket of a daemon that serves is taken by nobody, whatever is killed,
\* restarted or removed (remove_if_exists at a boot,
\* remove_socket_if_same_inode at an exit).
THEOREM ReachableCorrect == InstanceSpec => []Reachable
<1>1. InstanceInit => SocketInv
  <2>1. InstanceInit => SocketIsKept /\ SocketsDiffer
    BY DEF InstanceInit, SocketIsKept, SocketsDiffer, Listening, Owning
  <2> QED BY <2>1, InitTypes DEF SocketInv
<1>2. SocketInv /\ InstanceTypeOK' /\ [InstanceNext]_instanceVars => SocketInv'
  BY SocketInvIsInductive
<1>3. SocketInv => Reachable
  BY DEF SocketInv, SocketIsKept, Listening, Reachable
<1> QED BY <1>1, <1>2, <1>3, InstanceTypeCorrect, PTL DEF InstanceSpec
=============================================================================
