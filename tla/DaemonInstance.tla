--------------------------- MODULE DaemonInstance ---------------------------
(***************************************************************************)
(* Which daemon serves a runtime directory (yi-agent-store/src/ipc.rs):    *)
(* the advisory lock on `runtime.lock', the listening socket, the check    *)
(* that the directory is still there, and the clean-up of a daemon that    *)
(* stops.  Every system call is a step: daemons are processes, and the     *)
(* directory is removed and rebuilt by others (a worktree that goes).      *)
(*                                                                         *)
(* A file is its inode.  What the daemon serves is TaskRuntime's.          *)
(***************************************************************************)
EXTENDS Naturals

CONSTANTS
    Proc,           \* the processes that may run a daemon
    NoFile,
    SocketInDir,    \* the socket fits beside the lock; else it is in $TMPDIR
    MaxFiles,       \* bound: files ever created
    MaxStops,       \* bound: how often a daemon stops or dies
    MaxRemovals     \* bound: how often the directory is removed

ASSUME FileAssumption == NoFile \notin Nat /\ SocketInDir \in BOOLEAN
ASSUME BoundsAssumption == MaxFiles \in Nat /\ MaxStops \in Nat /\ MaxRemovals \in Nat

VARIABLES
    dir,        \* the runtime directory exists
    lockFile,   \* the file at runtime.lock, or NoFile
    socket,     \* the file at the socket's path, or NoFile
    pc,         \* how far each process is
    lock,       \* [Proc -> the lock file it has open]
    bound,      \* [Proc -> the socket it bound]
    identity,   \* [Proc -> the socket it recorded as its own]
    files, stops, removals,
    raced,      \* history: two daemons owned the directory at once, it was rebuilt
                \* under one, or one bound its socket while another was about to
                \* unlink its own
    unlinked    \* history: runtime.lock was removed while another process had
                \* it open

history == <<raced, unlinked>>

instanceVars ==
    <<dir, lockFile, socket, pc, lock, bound, identity, files, stops, removals, history>>

File == 1 .. MaxFiles

Boot   == {"made", "opened", "locked", "cleared", "swept", "bound"}
Stages == {"idle", "serving", "stopping", "unlinking", "exiting", "leaving"} \cup Boot

\* Between taking the lock and dropping it.
Holding == Stages \ {"idle", "made", "opened"}

\* The daemon believes the directory is its own.
Owning == {"locked", "cleared", "swept", "bound", "serving"}

\* Mutant of Held: the lock is taken only by a daemon that is up.
HeldOnceServing(f) == \E q \in Proc : pc[q] = "serving" /\ lock[q] = f

Held(f) == \E q \in Proc : pc[q] \in Holding /\ lock[q] = f

\* The process has the file that is at runtime.lock now open.
HasOpen(q) == pc[q] \in Holding \cup {"opened"} /\ lock[q] = lockFile

InstanceInit ==
    /\ dir = TRUE /\ lockFile = NoFile /\ socket = NoFile
    /\ pc       = [p \in Proc |-> "idle"]
    /\ lock     = [p \in Proc |-> NoFile]
    /\ bound    = [p \in Proc |-> NoFile]
    /\ identity = [p \in Proc |-> NoFile]
    /\ files = 0 /\ stops = 0 /\ removals = 0 /\ raced = FALSE /\ unlinked = FALSE

Go(p, stage) == pc' = [pc EXCEPT ![p] = stage]

-----------------------------------------------------------------------------
(* start_with_factory.                                                     *)

\* create_dir_all
MakeDir(p) ==
    /\ pc[p] = "idle" /\ files < MaxFiles
    /\ dir' = TRUE
    /\ Go(p, "made")
    /\ raced' = (raced \/ (~dir /\ \E q \in Proc : pc[q] \in Owning))
    /\ UNCHANGED <<lockFile, socket, lock, bound, identity, files, stops, removals, unlinked>>

\* InstanceLock::acquire opens the lock file, or creates it ...
OpenLock(p) ==
    /\ pc[p] = "made"
    /\ CASE ~dir -> Go(p, "idle") /\ UNCHANGED <<lockFile, lock, files>>
         [] dir /\ lockFile # NoFile ->
              /\ lock' = [lock EXCEPT ![p] = lockFile]
              /\ Go(p, "opened")
              /\ UNCHANGED <<lockFile, files>>
         [] dir /\ lockFile = NoFile ->
              /\ files < MaxFiles /\ files' = files + 1
              /\ lockFile' = files' /\ lock' = [lock EXCEPT ![p] = files']
              /\ Go(p, "opened")
    /\ UNCHANGED <<dir, socket, bound, identity, stops, removals, history>>

\* ... and takes the lock without waiting.
Flock(p) ==
    /\ pc[p] = "opened"
    /\ IF Held(lock[p]) THEN Go(p, "idle") /\ UNCHANGED raced
       ELSE /\ Go(p, "locked")
            /\ raced' = (raced \/ \E q \in Proc : pc[q] \in Owning)
    /\ UNCHANGED <<dir, lockFile, socket, lock, bound, identity, files, stops, removals, unlinked>>

\* Mutant of ClearSocket: the stale socket is left where it is.
ClearSocketForgotten(p) ==
    /\ pc[p] = "locked" /\ Go(p, "cleared")
    /\ UNCHANGED <<dir, lockFile, socket, lock, bound, identity, files, stops, removals, history>>

\* remove_if_exists: no live daemon can own what lies at the socket's path
ClearSocket(p) ==
    /\ pc[p] = "locked" /\ Go(p, "cleared")
    /\ socket' = NoFile
    /\ UNCHANGED <<dir, lockFile, lock, bound, identity, files, stops, removals, history>>

\* The database is opened and swept (TaskRuntime: RecoverInflight to Open).
Sweep(p) ==
    /\ pc[p] = "cleared"
    /\ Go(p, IF dir THEN "swept" ELSE "idle")
    /\ UNCHANGED <<dir, lockFile, socket, lock, bound, identity, files, stops, removals, history>>

\* bind fails on a path that exists or that has no directory; the lock is then
\* dropped with everything else
Bind(p) ==
    /\ pc[p] = "swept"
    /\ IF socket # NoFile \/ (SocketInDir /\ ~dir)
       THEN Go(p, "idle") /\ UNCHANGED <<socket, bound, files, raced>>
       ELSE /\ files < MaxFiles /\ files' = files + 1
            /\ socket' = files' /\ bound' = [bound EXCEPT ![p] = files']
            /\ Go(p, "bound")
            /\ raced' = (raced \/ \E q \in Proc : pc[q] = "unlinking")
    /\ UNCHANGED <<dir, lockFile, lock, identity, stops, removals, unlinked>>

\* The identity of what lies at the path by now is recorded.
Record(p) ==
    /\ pc[p] = "bound" /\ Go(p, "serving")
    /\ identity' = [identity EXCEPT ![p] = socket]
    /\ UNCHANGED <<dir, lockFile, socket, lock, bound, files, stops, removals, history>>

-----------------------------------------------------------------------------
(* The accept loop's end.                                                  *)

\* A stop is asked for.
Stop(p) ==
    /\ pc[p] = "serving" /\ stops < MaxStops
    /\ stops' = stops + 1 /\ Go(p, "stopping")
    /\ UNCHANGED <<dir, lockFile, socket, lock, bound, identity, files, removals, history>>

\* The loop finds its directory gone; rebuilt before the next look it is not missed
NoticeMissingDir(p) ==
    /\ pc[p] = "serving" /\ ~dir
    /\ Go(p, "stopping")
    /\ UNCHANGED <<dir, lockFile, socket, lock, bound, identity, files, stops, removals, history>>

\* Mutant of CompareSocket: whatever lies at the path is removed.
CompareNothing(p) ==
    /\ pc[p] = "stopping" /\ Go(p, "unlinking")
    /\ UNCHANGED <<dir, lockFile, socket, lock, bound, identity, files, stops, removals, history>>

\* remove_socket_if_same_inode looks first ...
CompareSocket(p) ==
    /\ pc[p] = "stopping"
    /\ Go(p, IF identity[p] # NoFile /\ identity[p] = socket THEN "unlinking" ELSE "exiting")
    /\ UNCHANGED <<dir, lockFile, socket, lock, bound, identity, files, stops, removals, history>>

\* ... and removes what lies there then.
UnlinkSocket(p) ==
    /\ pc[p] = "unlinking" /\ Go(p, "exiting")
    /\ socket' = NoFile
    /\ UNCHANGED <<dir, lockFile, lock, bound, identity, files, stops, removals, history>>

\* The lock file goes by its path, while the lock is still held ...
UnlinkLock(p) ==
    /\ pc[p] = "exiting" /\ Go(p, "leaving")
    /\ lockFile' = NoFile
    /\ unlinked' = (unlinked \/ \E q \in Proc \ {p} : HasOpen(q))
    /\ UNCHANGED <<dir, socket, lock, bound, identity, files, stops, removals, raced>>

\* ... and the lock when the Daemon is dropped.
Leave(p) ==
    /\ pc[p] = "leaving" /\ Go(p, "idle")
    /\ UNCHANGED <<dir, lockFile, socket, lock, bound, identity, files, stops, removals, history>>

\* The process is killed: the kernel drops the lock, the files stay.
Die(p) ==
    /\ pc[p] \in Holding /\ stops < MaxStops
    /\ stops' = stops + 1 /\ Go(p, "idle")
    /\ UNCHANGED <<dir, lockFile, socket, lock, bound, identity, files, removals, history>>

RemoveDir ==
    /\ dir /\ removals < MaxRemovals
    /\ dir' = FALSE /\ removals' = removals + 1
    /\ lockFile' = NoFile
    /\ socket' = IF SocketInDir THEN NoFile ELSE socket
    /\ unlinked' = (unlinked \/ \E q \in Proc : HasOpen(q))
    /\ UNCHANGED <<pc, lock, bound, identity, files, stops, raced>>

-----------------------------------------------------------------------------
Starts(p) ==
    \/ MakeDir(p) \/ OpenLock(p) \/ Flock(p)
    \/ ClearSocket(p) \/ Sweep(p) \/ Bind(p) \/ Record(p)

Ends(p) ==
    \/ NoticeMissingDir(p) \/ CompareSocket(p) \/ UnlinkSocket(p)
    \/ UnlinkLock(p) \/ Leave(p)

InstanceNext ==
    \/ \E p \in Proc : Starts(p) \/ Ends(p) \/ Stop(p) \/ Die(p)
    \/ RemoveDir

InstanceSpec == InstanceInit /\ [][InstanceNext]_instanceVars

\* Clients start a daemon that is not there, and daemons run.
FairInstanceSpec ==
    InstanceSpec /\ \A p \in Proc : WF_instanceVars(Starts(p)) /\ WF_instanceVars(Ends(p))

-----------------------------------------------------------------------------
InstanceTypeOK ==
    /\ dir \in BOOLEAN /\ raced \in BOOLEAN /\ unlinked \in BOOLEAN
    /\ lockFile \in File \cup {NoFile} /\ socket \in File \cup {NoFile}
    /\ pc \in [Proc -> Stages]
    /\ lock \in [Proc -> File \cup {NoFile}]
    /\ bound \in [Proc -> File \cup {NoFile}]
    /\ identity \in [Proc -> File \cup {NoFile}]
    /\ files \in 0 .. MaxFiles /\ stops \in 0 .. MaxStops /\ removals \in 0 .. MaxRemovals

\* A daemon that serves can be reached: neither a boot nor the exit of an older
\* one, late as it may be, takes its socket away
\* (remove_socket_if_same_inode), unless two daemons met as `raced' says or the
\* directory went.
Reachable ==
    \A p \in Proc : pc[p] = "serving" /\ ~raced => socket = bound[p] \/ ~dir

\* Files left behind by daemons that died, or were stopped half-way, keep
\* nobody from serving: as long as files can be created and clients ask for a
\* daemon, one comes up.
StaleFilesBlockNobody ==
    (\A p \in Proc : pc[p] # "serving") ~>
        (\E p \in Proc : pc[p] = "serving") \/ files >= MaxFiles - 1

\* Two processes own the directory only after the lock file was removed while
\* another process had it open: flock and the order of the exit do the rest,
\* whichever of them dies or stops where.
OneOwnerUnlessUnlinked ==
    unlinked \/ \A p, q \in Proc : p # q => ~(pc[p] \in Owning /\ pc[q] \in Owning)

-----------------------------------------------------------------------------
(* A claim of the code's comments that its behaviours contradict.           *)

\* "two daemons would both believe they own the directory" is what InstanceLock
\* is there to prevent, by leaving the lock file in place.
OneDaemonPerDirectory ==
    \A p, q \in Proc : p # q => ~(pc[p] \in Owning /\ pc[q] \in Owning)
=============================================================================
