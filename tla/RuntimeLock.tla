----------------------------- MODULE RuntimeLock -----------------------------
(***************************************************************************)
(* The runtime lock file and the daemons that compete for it: class        *)
(* RuntimeLock, RuntimeServer.start/close and run_daemon of                *)
(* buster/runtime.py, with the release that Kernel.stop performs           *)
(* (buster/kernel/core.py).                                                *)
(*                                                                         *)
(* One step per system call on state/runtime.lock: the O_EXCL create, the  *)
(* read, the pid probe, the remove and the write of the payload through    *)
(* the descriptor.  A file is named by the daemon that created it, so a    *)
(* payload written to a file that was meanwhile unlinked is not seen under *)
(* the path.  A daemon is one process: its pid is never used again here.   *)
(***************************************************************************)
EXTENDS Daemons

CONSTANTS
  NoFile,      \* no file under the lock's path
  NoPid        \* what _read_json yields for a missing or unreadable file

ASSUME RuntimeLockAssumption ==
  NoFile \notin Daemon /\ NoPid \notin Daemon

VARIABLES
  lockFile,  \* NoFile, or the daemon whose open(O_CREAT|O_EXCL) made the file
  written,   \* daemons that have written their pid into the file they made
  pc,        \* where each daemon is in run_daemon
  attempt,   \* the loop variable of acquire(): 1 or 2
  seen,      \* the pid acquire() read
  crashes,   \* number of crashes so far
  stolen,    \* history: daemons whose file was unlinked by another process
             \* while they held it
  overlapped \* history: a start or a stop began before an earlier one of
             \* another daemon had ended

vars == <<lockFile, written, pc, attempt, seen, crashes, stolen, overlapped>>

Acquiring == {"create", "read", "probe", "remove"}
\* acquire() has created the file and release() has not run yet.
Holding == {"write", "boot", "serve", "stop"}
Ended == {"refused", "stopped", "crashed"}
Stage == {"off", "close"} \cup Acquiring \cup Holding \cup Ended

Alive(d) == pc[d] \notin {"off"} \cup Ended

\* kernel.start() is running or has run, kernel.stop() has not finished.
HasKernel(d) == pc[d] \in {"boot", "serve", "stop"}

\* RuntimeLock.read(): the pid under the path, if there is one.
LockPid == IF lockFile \in written THEN lockFile ELSE NoPid

\* RuntimeLock.is_online()
IsOnline == LockPid # NoPid /\ Alive(LockPid)

\* Where a daemon is when no start or stop of it is in progress.
Settled(d) == pc[d] \in {"off", "serve"} \cup Ended
Begin(d) == overlapped' = (overlapped \/ \E e \in Daemon \ {d} : ~Settled(e))

Init ==
  /\ lockFile = NoFile
  /\ written = {}
  /\ pc = [d \in Daemon |-> "off"]
  /\ attempt = [d \in Daemon |-> 1]
  /\ seen = [d \in Daemon |-> NoPid]
  /\ crashes = 0
  /\ stolen = {}
  /\ overlapped = FALSE

Goto(d, stage) == pc' = [pc EXCEPT ![d] = stage]

\* os.remove(path) by d: whatever file is there.  The file of a daemon that
\* still holds it is stolen.
Unlink(d) ==
  /\ lockFile' = NoFile
  /\ stolen' = stolen \cup {e \in Daemon \ {d} : e = lockFile /\ pc[e] \in Holding}

-----------------------------------------------------------------------------
(* acquire()                                                               *)

Spawn(d) ==
  /\ pc[d] = "off" /\ Begin(d)
  /\ Goto(d, "create")
  /\ UNCHANGED <<lockFile, written, attempt, seen, crashes, stolen>>

\* Mutated form: open() without O_EXCL.
CreateOverwrites(d) ==
  /\ pc[d] = "create"
  /\ lockFile' = d /\ Goto(d, "write")
  /\ UNCHANGED <<written, attempt, seen, crashes, stolen, overlapped>>

Create(d) ==
  /\ pc[d] = "create"
  /\ IF lockFile = NoFile
     THEN lockFile' = d /\ Goto(d, "write")
     ELSE UNCHANGED lockFile /\ Goto(d, "read")
  /\ UNCHANGED <<written, attempt, seen, crashes, stolen, overlapped>>

Read(d) ==
  /\ pc[d] = "read"
  /\ seen' = [seen EXCEPT ![d] = LockPid]
  /\ Goto(d, "probe")
  /\ UNCHANGED <<lockFile, written, attempt, crashes, stolen, overlapped>>

\* Mutated form: the pid of the lock is not probed.
ProbeSkipsPid(d) ==
  /\ pc[d] = "probe"
  /\ Goto(d, "remove")
  /\ UNCHANGED <<lockFile, written, attempt, seen, crashes, stolen, overlapped>>

Probe(d) ==
  /\ pc[d] = "probe"
  /\ Goto(d, IF seen[d] # NoPid /\ Alive(seen[d]) THEN "refused" ELSE "remove")
  /\ UNCHANGED <<lockFile, written, attempt, seen, crashes, stolen, overlapped>>

\* Mutated form: the file is unlinked, the create is not tried again.
RemoveWithoutRetry(d) ==
  /\ pc[d] = "remove"
  /\ Unlink(d)
  /\ Goto(d, "refused")
  /\ UNCHANGED <<written, attempt, seen, crashes, overlapped>>

\* The file is unlinked and the create tried once more; after the second
\* failure acquire() returns False and run_daemon returns 3.
Remove(d) ==
  /\ pc[d] = "remove"
  /\ Unlink(d)
  /\ IF attempt[d] = 1
     THEN attempt' = [attempt EXCEPT ![d] = 2] /\ Goto(d, "create")
     ELSE UNCHANGED attempt /\ Goto(d, "refused")
  /\ UNCHANGED <<written, seen, crashes, overlapped>>

WritePid(d) ==
  /\ pc[d] = "write"
  /\ written' = written \cup {d}
  /\ Goto(d, "boot")
  /\ UNCHANGED <<lockFile, attempt, seen, crashes, stolen, overlapped>>

-----------------------------------------------------------------------------
(* run_daemon() after acquire()                                            *)

\* kernel.start(), the first heartbeat, seed_runtime; then serve().
Boot(d) ==
  /\ pc[d] = "boot"
  /\ Goto(d, "serve")
  /\ UNCHANGED <<lockFile, written, attempt, seen, crashes, stolen, overlapped>>

\* A shutdown request ends the serve loop; `finally` enters close().
Shutdown(d) ==
  /\ pc[d] = "serve" /\ Begin(d)
  /\ Goto(d, "stop")
  /\ UNCHANGED <<lockFile, written, attempt, seen, crashes, stolen>>

\* kernel.stop() ends with runtime_lock.release().
KernelStop(d) ==
  /\ pc[d] = "stop"
  /\ Unlink(d)
  /\ Goto(d, "close")
  /\ UNCHANGED <<written, attempt, seen, crashes, overlapped>>

\* close() releases once more and the process ends.
Close(d) ==
  /\ pc[d] = "close"
  /\ Unlink(d)
  /\ Goto(d, "stopped")
  /\ UNCHANGED <<written, attempt, seen, crashes, overlapped>>

\* A crash, SIGKILL, or the SIGTERM of recover_wedged_runtime, for which the
\* daemon has no handler: the file stays.
Crash(d) ==
  /\ Alive(d) /\ crashes < MaxCrashes
  /\ crashes' = crashes + 1
  /\ Goto(d, "crashed")
  /\ UNCHANGED <<lockFile, written, attempt, seen, stolen, overlapped>>

DaemonStep(d) == \/ Create(d) \/ Read(d) \/ Probe(d) \/ Remove(d)
                 \/ WritePid(d) \/ Boot(d) \/ KernelStop(d) \/ Close(d)

Next == \E d \in Daemon : Spawn(d) \/ DaemonStep(d) \/ Shutdown(d) \/ Crash(d)

Spec == Init /\ [][Next]_vars

\* A live process is scheduled.  Nobody has to spawn, stop or kill a daemon.
FairSpec == Spec /\ \A d \in Daemon : WF_vars(DaemonStep(d))

-----------------------------------------------------------------------------
(* Properties.                                                             *)

TypeOK ==
  /\ lockFile \in Daemon \cup {NoFile}
  /\ written \subseteq Daemon
  /\ pc \in [Daemon -> Stage]
  /\ attempt \in [Daemon -> 1 .. 2]
  /\ seen \in [Daemon -> Daemon \cup {NoPid}]
  /\ crashes \in Nat
  /\ stolen \subseteq Daemon
  /\ overlapped \in BOOLEAN

\* "there is exactly one Kernel instance per install": no two kernels live.
SingleRuntime ==
  \A d, e \in Daemon : HasKernel(d) /\ HasKernel(e) => d = e

\* The O_EXCL create is never at fault: a daemon that holds the lock is the
\* one named by the file, or another process has unlinked its file.
HeldOrStolen ==
  \A d \in Daemon : pc[d] \in Holding => lockFile = d \/ d \in stolen

\* So two kernels can only live after a live daemon's file was unlinked by
\* another process, through the stale-lock path of acquire() or the second
\* release of close().
TwoRuntimesOnlyByTheft == stolen = {} => SingleRuntime

\* As long as no two starts or stops overlap, no process unlinks the lock of a
\* live one, crashes and the stale locks they leave included.
NoTheft == ~overlapped => stolen = {}

\* And a serving daemon is visible: `status` and every client find its pid, so
\* that it can be asked to stop and a second start is refused.
ServingIsOnline ==
  ~overlapped => \A d \in Daemon : pc[d] = "serve" => LockPid = d

\* So starts and stops that do not overlap are safe, whatever crashed before them.
SerialisedIsSafe == NoTheft /\ ServingIsOnline

\* A spawned daemon with no live rival serves, whatever crash left behind.
StaleLockIsReplaced ==
  \A d \in Daemon :
    (pc[d] = "create" /\ \A e \in Daemon \ {d} : ~Alive(e))
      ~> (pc[d] \in {"serve", "crashed"} \/ overlapped)
=============================================================================
