------------------------------ MODULE Singleton ------------------------------
(***************************************************************************)
(* The process singleton: crates/petweave/src/platform/singleton.rs and    *)
(* its use in main.rs.  Launches of petweave race for a flock on the pid   *)
(* file; a graceful exit removes the file before the lock is released.     *)
(*                                                                         *)
(* A file is named by the launch whose open(O_CREAT) made it.  The file    *)
(* system and flock are external: a lock belongs to a file, not to a path, *)
(* and the kernel releases it when its owner dies.                         *)
(***************************************************************************)
EXTENDS Naturals

CONSTANTS
  Launches,     \* petweave processes, each started once
  OverlapsExit  \* whether an instance may remove the file while some launch
                \* is between opening it and locking it

NoFile   == "none"
Unlocked == "free"

ASSUME SingletonAssumption ==
  /\ Launches \cap {NoFile, Unlocked} = {}
  /\ OverlapsExit \in BOOLEAN

VARIABLES
  pc,      \* where each launch is in acquire(), run() and drop()
  fd,      \* the file each launch opened
  path,    \* the file $XDG_RUNTIME_DIR/petweave.pid names
  holder,  \* who holds the flock of each file
  pid      \* the process id each file contains

launchVars == <<pc, fd, path, holder, pid>>

\* refused: acquire() returned an error; gone: exited, by itself or killed.
Stages == {"new", "opened", "locked", "running", "exiting", "gone", "refused"}

Holding == {"locked", "running", "exiting"}

LaunchInit ==
  /\ pc = [p \in Launches |-> "new"]
  /\ fd = [p \in Launches |-> NoFile]
  /\ path = NoFile
  /\ holder = [f \in Launches |-> Unlocked]
  /\ pid = [f \in Launches |-> NoFile]

Goto(p, stage) == pc' = [pc EXCEPT ![p] = stage]

\* The kernel drops the lock of p's file when p closes it or dies.
Unlock(p) == holder' = [f \in Launches |-> IF holder[f] = p THEN Unlocked ELSE holder[f]]

-----------------------------------------------------------------------------
\* Mutant: the file is always made anew.
OpenNew(p) ==
  /\ pc[p] = "new" /\ Goto(p, "opened")
  /\ path' = p /\ fd' = [fd EXCEPT ![p] = p]
  /\ UNCHANGED <<holder, pid>>

Open(p) ==
  /\ pc[p] = "new" /\ Goto(p, "opened")
  /\ path' = IF path = NoFile THEN p ELSE path
  /\ fd' = [fd EXCEPT ![p] = path']
  /\ UNCHANGED <<holder, pid>>

\* Mutant: a refused launch cleans up the file it could not lock.
LockOrRemove(p) ==
  /\ pc[p] = "opened"
  /\ IF holder[fd[p]] = Unlocked
     THEN /\ holder' = [holder EXCEPT ![fd[p]] = p]
          /\ Goto(p, "locked") /\ UNCHANGED path
     ELSE Goto(p, "refused") /\ path' = NoFile /\ UNCHANGED holder
  /\ UNCHANGED <<fd, pid>>

\* Mutant: a pid in the file is taken for a running instance.
LockTrustingPid(p) ==
  /\ pc[p] = "opened"
  /\ IF holder[fd[p]] = Unlocked /\ pid[fd[p]] = NoFile
     THEN holder' = [holder EXCEPT ![fd[p]] = p] /\ Goto(p, "locked")
     ELSE Goto(p, "refused") /\ UNCHANGED holder
  /\ UNCHANGED <<fd, path, pid>>

\* flock(LOCK_EX | LOCK_NB): EWOULDBLOCK ends the launch.
Lock(p) ==
  /\ pc[p] = "opened"
  /\ IF holder[fd[p]] = Unlocked
     THEN holder' = [holder EXCEPT ![fd[p]] = p] /\ Goto(p, "locked")
     ELSE Goto(p, "refused") /\ UNCHANGED holder
  /\ UNCHANGED <<fd, path, pid>>

\* Writing the pid opens the path again, without O_CREAT, and fails when the
\* file was removed meanwhile; the file it finds need not be the locked one.
WritePid(p) ==
  /\ pc[p] = "locked"
  /\ IF path = NoFile
     THEN Goto(p, "refused") /\ Unlock(p) /\ UNCHANGED pid
     ELSE Goto(p, "running") /\ pid' = [pid EXCEPT ![path] = p] /\ UNCHANGED holder
  /\ UNCHANGED <<fd, path>>

\* Drop for Singleton, after run() returned.
RemoveFile(p) ==
  /\ pc[p] = "running" /\ Goto(p, "exiting")
  /\ OverlapsExit \/ \A q \in Launches : pc[q] # "opened"
  /\ path' = NoFile
  /\ UNCHANGED <<fd, holder, pid>>

\* The lock field drops after Drop for Singleton.
ReleaseLock(p) ==
  /\ pc[p] = "exiting" /\ Goto(p, "gone")
  /\ Unlock(p)
  /\ UNCHANGED <<fd, path, pid>>

\* A signal nobody handles, a panic or a kill -9.
Die(p) ==
  /\ pc[p] \in {"opened", "locked", "running", "exiting"} /\ Goto(p, "gone")
  /\ Unlock(p)
  /\ UNCHANGED <<fd, path, pid>>

LaunchNext == \E p \in Launches :
  Open(p) \/ Lock(p) \/ WritePid(p) \/ RemoveFile(p) \/ ReleaseLock(p) \/ Die(p)

LaunchSpec == LaunchInit /\ [][LaunchNext]_launchVars

-----------------------------------------------------------------------------
LaunchTypeOK ==
  /\ pc \in [Launches -> Stages]
  /\ fd \in [Launches -> Launches \cup {NoFile}]
  /\ path \in Launches \cup {NoFile}
  /\ holder \in [Launches -> Launches \cup {Unlocked}]
  /\ pid \in [Launches -> Launches \cup {NoFile}]

\* At most one instance runs: acquire() "errors if another instance is
\* running" (singleton.rs:21), whatever launches, exits and crashes came before.
MutualExclusion ==
  \A p, q \in Launches : pc[p] = "running" /\ pc[q] = "running" => p = q

\* A crash never blocks later launches: acquire() fails only while some other
\* launch that got past its own lock is alive ("avoiding stale-PID races",
\* singleton.rs:3).
RefusedOnlyBesideAnother ==
  [][\A p \in Launches : pc[p] # "refused" /\ pc'[p] = "refused" =>
       \E q \in Launches \ {p} : pc[q] \in Holding]_launchVars

\* The pid file tooling finds names the instance that runs: acquire() writes
\* it through a second open of the path (singleton.rs:44).
PidNamesInstance ==
  \A p \in Launches : pc[p] = "running" => path # NoFile /\ pid[path] = p
=============================================================================
