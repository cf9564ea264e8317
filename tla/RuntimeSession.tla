--------------------------- MODULE RuntimeSession ----------------------------
(***************************************************************************)
(* The runtime as its operators see it: `buster start`, `buster stop`      *)
(* (cli/commands.py) and the launcher's ensure_runtime() (launch.py), with *)
(* recover_wedged_runtime(), wait_online() and wait_offline() (runtime.py),*)
(* over the daemons of RuntimeLock and the transport of RpcChannel.  A     *)
(* daemon is one process in both: it serves the channel from the end of    *)
(* its boot to the end of its loop, and a crash is a crash of both.        *)
(*                                                                         *)
(* Only shutdown requests are requests of the channel here; the status     *)
(* requests with which runtime_ready() probes change nothing, so a probe   *)
(* is one step, true only when a daemon that serves could have answered.   *)
(***************************************************************************)
EXTENDS RuntimeLock, RpcChannel, Sequences

CONSTANTS
  Operator,    \* terminals and launchers that issue commands
  Script       \* what each issues, in order: "start", "stop" or "launch"

ASSUME SessionAssumption ==
  /\ ShutdownReq = Req
  /\ Script \in [Operator -> Seq({"start", "stop", "launch"})]

VARIABLES
  at,       \* each operator's step within its command
  todo,     \* the commands it has left, the current one first
  req,      \* the shutdown request of its current command
  target,   \* the pid it found in the lock, or spawned
  results   \* what its commands reported

opVars == <<at, todo, req, target, results>>
sessionVars == <<vars, channelVars, opVars>>

Steps == {"idle", "spawn", "await", "send", "rpc", "drain",
          "probe", "recover", "kill", "drainKilled", "release"}

SessionInit ==
  /\ Init /\ ChannelInit
  /\ at = [o \in Operator |-> "idle"]
  /\ todo = Script
  /\ req = [o \in Operator |-> NoReq]
  /\ target = [o \in Operator |-> NoPid]
  /\ results = [o \in Operator |-> <<>>]

-----------------------------------------------------------------------------
(* Daemons *)

BootAndServe(d) == Boot(d) /\ Start(d) /\ UNCHANGED opVars

\* The lock file's steps that leave the channel alone.
LockStep(d) ==
  /\ \/ Create(d) \/ Read(d) \/ Probe(d) \/ Remove(d)
     \/ WritePid(d) \/ KernelStop(d) \/ Close(d)
  /\ UNCHANGED <<channelVars, opVars>>

\* The loop's condition: the next round, or the end of serve() and close().
PollOrStop(d) ==
  /\ Poll(d)
  /\ IF serving[d] THEN UNCHANGED vars ELSE Shutdown(d)
  /\ UNCHANGED opVars

ServeStep(d) ==
  /\ \/ BatchDone(d) \/ (\E r \in Req : Take(d, r))
     \/ Execute(d) \/ Respond(d) \/ Clear(d)
  /\ UNCHANGED <<vars, opVars>>

\* Also what the SIGTERM of recover_wedged_runtime() does.
Dies(d) ==
  /\ Crash(d)
  /\ IF Up(d) THEN ServerCrash(d) ELSE UNCHANGED channelVars

DaemonCrashes(d) == Dies(d) /\ UNCHANGED opVars

-----------------------------------------------------------------------------
(* Operators *)

Doing(o, command) == todo[o] # <<>> /\ Head(todo[o]) = command
Advance(o, step) == at' = [at EXCEPT ![o] = step] /\ UNCHANGED <<todo, results>>
Report(o, result) ==
  /\ at' = [at EXCEPT ![o] = "idle"]
  /\ todo' = [todo EXCEPT ![o] = Tail(@)]
  /\ results' = [results EXCEPT ![o] = Append(@, result)]
Rest == UNCHANGED <<vars, channelVars>>

\* A status request could be answered.
Answering == IsOnline /\ \E d \in Daemon : Up(d) /\ serving[d]

\* cmd_start(), cmd_stop() and ensure_runtime() look at the lock first.
StartCheck(o) ==
  /\ at[o] = "idle" /\ Doing(o, "start")
  /\ IF IsOnline THEN Report(o, "refused") ELSE Advance(o, "spawn")
  /\ Rest /\ UNCHANGED <<req, target>>

StopCheck(o) ==
  /\ at[o] = "idle" /\ Doing(o, "stop")
  /\ IF IsOnline
     THEN Advance(o, "send") /\ target' = [target EXCEPT ![o] = LockPid]
     ELSE Report(o, "offline") /\ UNCHANGED target
  /\ Rest /\ UNCHANGED req

LaunchCheck(o) ==
  /\ at[o] = "idle" /\ Doing(o, "launch")
  /\ Advance(o, IF IsOnline THEN "probe" ELSE "spawn")
  /\ Rest /\ UNCHANGED <<req, target>>

\* runtime_ready(): reuse the runtime that answers, recover one that does not.
LaunchProbe(o) ==
  /\ at[o] = "probe"
  /\ \/ Answering /\ Report(o, "reused")
     \/ (TimeoutsOn \/ ~Answering) /\ Advance(o, "recover")
  /\ Rest /\ UNCHANGED <<req, target>>

\* recover_wedged_runtime(): nothing to do when the lock names no live process.
Recover(o) ==
  /\ at[o] = "recover"
  /\ IF IsOnline
     THEN Advance(o, "send") /\ target' = [target EXCEPT ![o] = LockPid]
     ELSE Advance(o, "spawn") /\ UNCHANGED target
  /\ Rest /\ UNCHANGED req

\* RuntimeClient.rpc("shutdown") of cmd_stop() and of the recovery.
RpcCheck(o) ==
  /\ at[o] = "send"
  /\ \E r \in Req : CheckOnline(r, IsOnline) /\ req' = [req EXCEPT ![o] = r]
  /\ Advance(o, "rpc")
  /\ UNCHANGED <<vars, target>>

RpcStep(o) ==
  /\ at[o] = "rpc"
  /\ Send(req[o]) \/ Receive(req[o]) \/ Timeout(req[o])
  /\ UNCHANGED <<vars, opVars>>

\* cmd_stop() gives up on an error; the recovery ignores every outcome.
RpcEnds(o) ==
  /\ at[o] = "rpc" /\ call[req[o]] \in Outcome
  /\ IF Doing(o, "stop") /\ call[req[o]] # "ok" THEN Report(o, "error") ELSE Advance(o, "drain")
  /\ Rest /\ UNCHANGED <<req, target>>

\* Mutated form: the stop does not wait for the lock to go.
DrainSkipped(o) ==
  /\ at[o] = "drain"
  /\ IF Doing(o, "stop") THEN Report(o, "stopped") ELSE Advance(o, "spawn")
  /\ Rest /\ UNCHANGED <<req, target>>

\* wait_offline()
Drain(o) ==
  /\ at[o] = "drain"
  /\ \/ ~IsOnline
        /\ IF Doing(o, "stop") THEN Report(o, "stopped") ELSE Advance(o, "spawn")
     \/ TimeoutsOn
        /\ IF Doing(o, "stop") THEN Report(o, "error") ELSE Advance(o, "kill")
  /\ Rest /\ UNCHANGED <<req, target>>

\* The answer "not lock.is_online()" when the process went by itself.
UnlessOnline(o) == IF IsOnline THEN Report(o, "failed") ELSE Advance(o, "spawn")

\* os.kill(pid, 15)
Kill(o) ==
  /\ at[o] = "kill"
  /\ IF Alive(target[o])
     THEN Dies(target[o]) /\ Advance(o, "drainKilled")
     ELSE Rest /\ UnlessOnline(o)
  /\ UNCHANGED <<req, target>>

DrainKilled(o) ==
  /\ at[o] = "drainKilled"
  /\ \/ ~IsOnline /\ Advance(o, "release")
     \/ TimeoutsOn /\ Report(o, "failed")
  /\ Rest /\ UNCHANGED <<req, target>>

\* lock.release() at the end of the recovery removes whatever lock is there.
Release(o) ==
  /\ at[o] = "release"
  /\ lockFile' = NoFile
  /\ stolen' = stolen \cup {d \in Daemon : d = lockFile /\ pc[d] \in Holding}
  /\ Advance(o, "spawn")
  /\ UNCHANGED <<written, pc, attempt, seen, crashes, overlapped, channelVars, req, target>>

SpawnDaemon(o) ==
  /\ at[o] = "spawn"
  /\ \E d \in Daemon : Spawn(d) /\ target' = [target EXCEPT ![o] = d]
  /\ Advance(o, "await")
  /\ UNCHANGED <<channelVars, req>>

\* wait_online(): any runtime that answers will do.
Await(o) ==
  /\ at[o] = "await"
  /\ \/ Answering /\ Report(o, "online")
     \/ TimeoutsOn /\ Report(o, "error")
  /\ Rest /\ UNCHANGED <<req, target>>

OperatorStep(o) ==
  \/ StartCheck(o) \/ StopCheck(o) \/ LaunchCheck(o) \/ LaunchProbe(o) \/ Recover(o)
  \/ RpcCheck(o) \/ RpcStep(o) \/ RpcEnds(o) \/ Drain(o) \/ Kill(o) \/ DrainKilled(o)
  \/ Release(o) \/ SpawnDaemon(o) \/ Await(o)

SessionNext ==
  \/ \E d \in Daemon :
       BootAndServe(d) \/ LockStep(d) \/ PollOrStop(d) \/ ServeStep(d) \/ DaemonCrashes(d)
  \/ \E o \in Operator : OperatorStep(o)

SessionSpec == SessionInit /\ [][SessionNext]_sessionVars

-----------------------------------------------------------------------------
(* Properties *)

LastReport(o) == IF results[o] = <<>> THEN "none" ELSE results[o][Len(results[o])]

\* "Buster runtime stopped cleanly." -- the kernel that was online when the
\* command began has stopped, unless its lock was taken from it.
StoppedIsStopped ==
  \A o \in Operator :
    at[o] = "idle" /\ LastReport(o) = "stopped"
      => ~HasKernel(target[o]) \/ stolen # {}

\* A shutdown stops one runtime: it is executed again only if a death kept its
\* file from being removed or two runtimes polled at once.
ShutdownStopsOne ==
  \A r \in Req : effects[r] > 1 => r \in cut \/ stolen # {}

\* What an operator who stops a runtime may rely on.
StopsAreHonest == StoppedIsStopped /\ ShutdownStopsOne
=============================================================================
