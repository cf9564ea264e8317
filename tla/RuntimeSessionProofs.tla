------------------------- MODULE RuntimeSessionProofs -------------------------
(***************************************************************************)
(* Proofs about RuntimeLock, RpcChannel and their composition for every    *)
(* set of daemon processes, requests and operators, and any crashes.       *)
(***************************************************************************)
EXTENDS RuntimeSession, TLAPS

-----------------------------------------------------------------------------
(* The lock. *)

LEMMA LockTypeStep == TypeOK /\ [Next]_vars => TypeOK'
<1> SUFFICES ASSUME TypeOK, [Next]_vars PROVE TypeOK'
  OBVIOUS
<1> USE RuntimeLockAssumption, DaemonsAssumption
    DEF TypeOK, Stage, Acquiring, Holding, Ended, Goto, Unlink, Begin
<1>1. ASSUME NEW d \in Daemon, Spawn(d) PROVE TypeOK'
  BY <1>1 DEF Spawn
<1>2. ASSUME NEW d \in Daemon, Create(d) PROVE TypeOK'
  BY <1>2 DEF Create
<1>3. ASSUME NEW d \in Daemon, Read(d) PROVE TypeOK'
  BY <1>3 DEF Read, LockPid
<1>4. ASSUME NEW d \in Daemon, Probe(d) PROVE TypeOK'
  BY <1>4 DEF Probe
<1>5. ASSUME NEW d \in Daemon, Remove(d) PROVE TypeOK'
  BY <1>5 DEF Remove
<1>6. ASSUME NEW d \in Daemon, WritePid(d) PROVE TypeOK'
  BY <1>6 DEF WritePid
<1>7. ASSUME NEW d \in Daemon, Boot(d) \/ Crash(d) PROVE TypeOK'
  BY <1>7 DEF Boot, Crash
<1>8. ASSUME NEW d \in Daemon, Shutdown(d) PROVE TypeOK'
  BY <1>8 DEF Shutdown
<1>9. ASSUME NEW d \in Daemon, KernelStop(d) \/ Close(d) PROVE TypeOK'
  BY <1>9 DEF KernelStop, Close
<1>10. CASE UNCHANGED vars
  BY <1>10 DEF vars
<1> QED
  BY <1>1, <1>2, <1>3, <1>4, <1>5, <1>6, <1>7, <1>8, <1>9, <1>10 DEF Next, DaemonStep

LEMMA LockTypeStarts == Init => TypeOK
<1>1. Init => overlapped \in BOOLEAN
  BY Zenon DEF Init
<1> QED
  BY <1>1, RuntimeLockAssumption, DaemonsAssumption DEF Init, TypeOK, Stage

(* TypeOK is inductive. *)
THEOREM TypeCorrect == Spec => []TypeOK
BY LockTypeStarts, LockTypeStep, PTL DEF Spec

-----------------------------------------------------------------------------
(* The file is the holder's, or it was stolen: inductive as it stands, since
   the create never replaces a file and every unlink records its victim. *)
LEMMA HeldOrStolenStep ==
  TypeOK /\ HeldOrStolen /\ [Next]_vars => HeldOrStolen'
<1> SUFFICES ASSUME TypeOK, HeldOrStolen, [Next]_vars PROVE HeldOrStolen'
  OBVIOUS
<1> USE RuntimeLockAssumption DEF TypeOK, HeldOrStolen, Stage, Acquiring,
      Holding, Ended, Goto, Unlink
<1>1. ASSUME NEW d \in Daemon, Spawn(d) PROVE HeldOrStolen'
  BY <1>1 DEF Spawn
<1>2. ASSUME NEW d \in Daemon, Create(d) PROVE HeldOrStolen'
  BY <1>2 DEF Create
<1>3. ASSUME NEW d \in Daemon, Read(d) \/ Probe(d) PROVE HeldOrStolen'
  BY <1>3 DEF Read, Probe
<1>4. ASSUME NEW d \in Daemon, Remove(d) PROVE HeldOrStolen'
  BY <1>4 DEF Remove
<1>5. ASSUME NEW d \in Daemon, WritePid(d) PROVE HeldOrStolen'
  BY <1>5 DEF WritePid
<1>6. ASSUME NEW d \in Daemon, Boot(d) \/ Shutdown(d) \/ Crash(d)
      PROVE HeldOrStolen'
  BY <1>6 DEF Boot, Shutdown, Crash
<1>7. ASSUME NEW d \in Daemon, KernelStop(d) \/ Close(d) PROVE HeldOrStolen'
  BY <1>7 DEF KernelStop, Close
<1>8. CASE UNCHANGED vars
  BY <1>8 DEF vars
<1>9. QED
  BY <1>1, <1>2, <1>3, <1>4, <1>5, <1>6, <1>7, <1>8 DEF Next, DaemonStep

LEMMA HeldAtFirst == Init => HeldOrStolen
BY DEF Init, HeldOrStolen, Holding

(* A daemon that holds the lock owns the file, or somebody unlinked it. *)
THEOREM HoldersOwnTheFile == Spec => []HeldOrStolen
<1>1. QED
  BY HeldAtFirst, HeldOrStolenStep, TypeCorrect, PTL DEF Spec

(* Two kernels need a theft, for any number of daemons and crashes. *)
THEOREM TheftIsNecessary == Spec => []TwoRuntimesOnlyByTheft
<1>1. HeldOrStolen => TwoRuntimesOnlyByTheft
  BY DEF HeldOrStolen, TwoRuntimesOnlyByTheft, SingleRuntime, HasKernel,
         Holding
<1>2. QED
  BY <1>1, HoldersOwnTheFile, PTL

-----------------------------------------------------------------------------
(* As long as no starts or stops overlap, one daemon at most is on its way in
   or out; while it is, no other one is serving by the time it unlinks. *)

OneInTransit == \A d, e \in Daemon : d # e => Settled(d) \/ Settled(e)

HolderInFile ==
  \A d \in Daemon : pc[d] \in Holding =>
    lockFile = d /\ (pc[d] # "write" => d \in written)

SeenTheServer ==
  \A d, e \in Daemon : pc[d] = "probe" /\ pc[e] = "serve" => seen[d] = e

NobodyServes ==
  \A d, e \in Daemon : pc[d] \in {"remove", "close"} => pc[e] # "serve"

SerialInv == ~overlapped => /\ OneInTransit /\ HolderInFile /\ SeenTheServer
                            /\ NobodyServes /\ stolen = {}

LEMMA SerialStep ==
  TypeOK /\ SerialInv /\ [Next]_vars => SerialInv'
<1> SUFFICES ASSUME TypeOK, SerialInv, [Next]_vars PROVE SerialInv'
  OBVIOUS
<1> USE RuntimeLockAssumption DEF TypeOK, SerialInv,
      OneInTransit, HolderInFile, SeenTheServer, NobodyServes,
      Settled, Begin, Stage, Acquiring, Holding, Ended, Goto, Unlink
<1>1. ASSUME NEW d \in Daemon, Spawn(d) PROVE SerialInv'
  BY <1>1 DEF Spawn
<1>2. ASSUME NEW d \in Daemon, Create(d) PROVE SerialInv'
  BY <1>2 DEF Create
<1>3. ASSUME NEW d \in Daemon, Read(d) PROVE SerialInv'
  BY <1>3 DEF Read, LockPid
<1>4. ASSUME NEW d \in Daemon, Probe(d) PROVE SerialInv'
  BY <1>4 DEF Probe, Alive
<1>5. ASSUME NEW d \in Daemon, Remove(d) PROVE SerialInv'
  BY <1>5 DEF Remove
<1>6. ASSUME NEW d \in Daemon, WritePid(d) PROVE SerialInv'
  BY <1>6 DEF WritePid
<1>7. ASSUME NEW d \in Daemon, Boot(d) PROVE SerialInv'
  BY <1>7 DEF Boot
<1>8. ASSUME NEW d \in Daemon, Shutdown(d) PROVE SerialInv'
  <2> SUFFICES ASSUME ~overlapped' PROVE SerialInv'
    OBVIOUS
  <2>1. ~overlapped /\ pc[d] = "serve" /\ \A e \in Daemon \ {d} : Settled(e)
    BY <1>8 DEF Shutdown
  <2>2. pc' = [pc EXCEPT ![d] = "stop"] /\ UNCHANGED <<lockFile, written, seen, stolen>>
    BY <1>8 DEF Shutdown
  <2>3. OneInTransit'
    BY <2>1, <2>2
  <2>4. HolderInFile'
    BY <2>1, <2>2
  <2>5. SeenTheServer' /\ NobodyServes'
    BY <2>1, <2>2
  <2> QED BY <2>1, <2>2, <2>3, <2>4, <2>5
<1>9. ASSUME NEW d \in Daemon, Crash(d) PROVE SerialInv'
  BY <1>9 DEF Crash
<1>10. ASSUME NEW d \in Daemon, KernelStop(d) PROVE SerialInv'
  BY <1>10 DEF KernelStop
<1>11. ASSUME NEW d \in Daemon, Close(d) PROVE SerialInv'
  BY <1>11 DEF Close
<1>12. CASE UNCHANGED vars
  BY <1>12 DEF vars
<1>13. QED
  BY <1>1, <1>2, <1>3, <1>4, <1>5, <1>6, <1>7, <1>8, <1>9, <1>10, <1>11,
     <1>12 DEF Next, DaemonStep

LEMMA SerialAlways == Spec => []SerialInv
<1>1. Init => SerialInv
  BY RuntimeLockAssumption DEF Init, SerialInv, OneInTransit, HolderInFile,
     SeenTheServer, NobodyServes, Settled, Holding
<1>2. QED
  BY <1>1, SerialStep, TypeCorrect, PTL DEF Spec

(* Until starts or stops overlap no process unlinks the lock of a live one. *)
THEOREM SerialisedNeverSteals == Spec => []NoTheft
<1>1. SerialInv => NoTheft
  BY DEF SerialInv, NoTheft
<1>2. QED
  BY <1>1, SerialAlways, PTL

(* So there is exactly one kernel per install, whatever the other daemons left
   behind when they crashed. *)
THEOREM SerialisedSingleRuntime == Spec => [](~overlapped => SingleRuntime)
<1>1. SerialInv => (~overlapped => SingleRuntime)
  BY DEF SerialInv, HolderInFile, SingleRuntime, HasKernel, Holding
<1>2. QED
  BY <1>1, SerialAlways, PTL

(* And a daemon that serves is the one every client finds. *)
THEOREM ServerIsVisible == Spec => []ServingIsOnline
<1>1. SerialInv => ServingIsOnline
  BY DEF SerialInv, HolderInFile, ServingIsOnline, Holding, LockPid
<1>2. QED
  BY <1>1, SerialAlways, PTL

(* Both together: what a serialised start or stop may rely on. *)
THEOREM SerialisedDaemonsAreSafe == Spec => []SerialisedIsSafe
<1>1. NoTheft /\ ServingIsOnline => SerialisedIsSafe
  BY DEF SerialisedIsSafe
<1>2. QED
  BY <1>1, SerialisedNeverSteals, ServerIsVisible, PTL

-----------------------------------------------------------------------------
(* The channel. *)

Dispatching(d) == dpc[d] \in {"exec", "reply", "clear"}
Executed(r) == \E d \in Daemon : dpc[d] \in {"reply", "clear"} /\ cur[d] = r

Typed == ChannelTypeOK /\ \A d \in Daemon : Dispatching(d) => cur[d] \in inbox

OneUp == \A d, e \in Daemon : Up(d) /\ Up(e) => d = e

\* A response exists only for a request that was executed.
Replied == \A r \in Req : r \in outbox \/ Executed(r)
                            => reply[r] # "none" /\ effects[r] > 0

\* A request file is made once, and nothing happens to a request before.
SentOnce ==
  \A r \in Req : r \in inbox \/ effects[r] > 0
                   => call[r] \notin {"idle", "checked", "offline"}

\* A request file whose operation was executed is being removed, or a crash
\* has hit its removal.
ExecutedIsGoing ==
  \A r \in inbox : effects[r] > 0 => r \in cut \/ Executed(r)

\* Until it is executed again, the executions of a request file are paid for
\* by crashes.
PaidByCrashes ==
  \A r \in inbox : ~Executed(r) => effects[r] <= rpcCrashes

ChannelInv == /\ Typed /\ OneUp /\ SentOnce /\ ExecutedIsGoing
              /\ PaidByCrashes /\ Replied /\ AnsweredWasExecuted
              /\ RepeatedOnlyAfterCut /\ RepeatsAreCounted

LEMMA ChannelStarts == ChannelInit => ChannelInv
  BY RpcAssumption DEF ChannelInit, ChannelInv, Typed, ChannelTypeOK, OneUp, SentOnce, Dispatching,
     ExecutedIsGoing, PaidByCrashes, RepeatedOnlyAfterCut, RepeatsAreCounted,
     Typed, ChannelTypeOK, Replied, AnsweredWasExecuted, Executed, Pending, Outcome, Loop, Up

\* Whatever the client reads in the lock: it goes on, or it is refused.
LEMMA CheckedOrOffline ==
  ASSUME ChannelInv, NEW r \in Req, NEW c \in {"checked", "offline"},
         call[r] = "idle", call' = [call EXCEPT ![r] = c],
         UNCHANGED <<files, daemonVars, history>>
  PROVE  ChannelInv'
BY DEF ChannelInv, Typed, ChannelTypeOK, OneUp, SentOnce, ExecutedIsGoing, PaidByCrashes,
       RepeatedOnlyAfterCut, RepeatsAreCounted, Executed, Replied, AnsweredWasExecuted,
       Dispatching, Pending, Outcome, Loop, Up, files, daemonVars, history

LEMMA ChannelStep == ChannelInv /\ [ChannelNext]_channelVars => ChannelInv'
<1> SUFFICES ASSUME ChannelInv, [ChannelNext]_channelVars PROVE ChannelInv'
  OBVIOUS
<1> USE RpcAssumption, DaemonsAssumption DEF ChannelInv, Typed, ChannelTypeOK, OneUp, SentOnce, ExecutedIsGoing,
      PaidByCrashes, RepeatedOnlyAfterCut, RepeatsAreCounted, Executed,
      Replied, AnsweredWasExecuted, Dispatching, Pending, Outcome, Loop, Up, clientVars, files, daemonVars,
      history
<1>1. ASSUME NEW r \in Req, CheckOnline(r, SomeoneUp) PROVE ChannelInv'
  BY <1>1, CheckedOrOffline DEF CheckOnline
<1>2. ASSUME NEW r \in Req, Send(r) PROVE ChannelInv'
  BY <1>2 DEF Send
<1>3. ASSUME NEW r \in Req, Receive(r) PROVE ChannelInv'
  BY <1>3 DEF Receive
<1>4. ASSUME NEW r \in Req, Timeout(r) \/ ClientDies(r) PROVE ChannelInv'
  BY <1>4 DEF Timeout, ClientDies
<1>5. ASSUME NEW r \in Req, GrowOld(r) PROVE ChannelInv'
  BY <1>5 DEF GrowOld
<1>6. ASSUME NEW d \in Daemon, Start(d), ~SomeoneUp PROVE ChannelInv'
  BY <1>6 DEF Start, SomeoneUp
<1>7. ASSUME NEW d \in Daemon, Poll(d) \/ BatchDone(d) PROVE ChannelInv'
  BY <1>7 DEF Poll, BatchDone
<1>8. ASSUME NEW d \in Daemon, NEW r \in Req, Take(d, r) PROVE ChannelInv'
  BY <1>8 DEF Take
<1>9. ASSUME NEW d \in Daemon, Execute(d) PROVE ChannelInv'
  BY <1>9 DEF Execute
<1>10. ASSUME NEW d \in Daemon, Respond(d) PROVE ChannelInv'
  BY <1>10 DEF Respond
<1>11. ASSUME NEW d \in Daemon, Clear(d) PROVE ChannelInv'
  BY <1>11 DEF Clear
<1>12. ASSUME NEW d \in Daemon, ServerCrash(d) PROVE ChannelInv'
  BY <1>12 DEF ServerCrash
<1>13. CASE UNCHANGED channelVars
  BY <1>13 DEF channelVars
<1>14. QED
  BY <1>1, <1>2, <1>3, <1>4, <1>5, <1>6, <1>7, <1>8, <1>9, <1>10, <1>11,
     <1>12, <1>13 DEF ChannelNext, ClientStep, LoopStep

LEMMA ChannelAlways == ChannelSpec => []ChannelInv
<1>1. QED
  BY ChannelStarts, ChannelStep, PTL DEF ChannelSpec

(* ChannelTypeOK holds in every reachable state. *)
THEOREM ChannelTypeCorrect == ChannelSpec => []ChannelTypeOK
<1>1. ChannelInv => ChannelTypeOK
  BY DEF ChannelInv, Typed
<1>2. QED
  BY <1>1, ChannelAlways, PTL

(* A client that got an answer has had its operation executed. *)
THEOREM AnswersAreReal == ChannelSpec => []AnsweredWasExecuted
<1>1. ChannelInv => AnsweredWasExecuted
  BY DEF ChannelInv
<1>2. QED
  BY <1>1, ChannelAlways, PTL

(* An operation is repeated only after a crash between its execution and the
   removal of its request, for any number of clients and daemons. *)
THEOREM RepeatsNeedACut == ChannelSpec => []RepeatedOnlyAfterCut
<1>1. ChannelInv => RepeatedOnlyAfterCut
  BY DEF ChannelInv
<1>2. QED
  BY <1>1, ChannelAlways, PTL

(* A request is executed at most once more than there were crashes. *)
THEOREM CrashesPayForRepeats == ChannelSpec => []RepeatsAreCounted
<1>1. ChannelInv => RepeatsAreCounted
  BY DEF ChannelInv
<1>2. QED
  BY <1>1, ChannelAlways, PTL

-----------------------------------------------------------------------------
(* The channel is a remote call. *)

\* What RemoteCall sees of a call.
Seen(c) == CASE c = "idle" -> "new"
             [] c \in Pending -> "open"
             [] c \in {"ok", "failed"} -> "answered"
             [] c \in {"timedout", "gone"} -> "unknown"
             [] c = "offline" -> "refused"

state == [r \in Req |-> Seen(call[r])]
done == {r \in Req : effects[r] > 0}
repeated == {r \in Req : effects[r] > 1}

\* A call moves as RemoteCall lets it.
LEMMA CallMoves ==
  ASSUME ChannelInv, NEW r \in Req, NEW c \in {"idle"} \cup Pending \cup Outcome,
         call' = [call EXCEPT ![r] = c], effects' = effects, cut' = cut,
         \/ Seen(c) = Seen(call[r])
         \/ Seen(call[r]) = "new" /\ Seen(c) \in {"open", "refused"}
         \/ Seen(call[r]) = "open" /\ Seen(c) = "unknown"
         \/ Seen(call[r]) = "open" /\ Seen(c) = "answered" /\ r \in done
  PROVE  [Remote!Next]_(Remote!vars)
<1>1. state' = [state EXCEPT ![r] = Seen(c)] /\ state[r] = Seen(call[r])
  <2>1. call \in [Req -> {"idle"} \cup Pending \cup Outcome]
    BY DEF ChannelInv, Typed, ChannelTypeOK
  <2>2. \A q \in Req : call'[q] = IF q = r THEN c ELSE call[q]
    BY <2>1
  <2>3. state' = [q \in Req |-> IF q = r THEN Seen(c) ELSE Seen(call[q])]
    <3>1. ASSUME NEW q \in Req PROVE Seen(call[q])' = IF q = r THEN Seen(c) ELSE Seen(call[q])
      <4>1. CASE q = r
        BY <2>2, <4>1 DEF Seen, Pending
      <4>2. CASE q # r
        BY <2>1, <2>2, <4>2 DEF Seen, Pending, Outcome
      <4> QED BY <4>1, <4>2
    <3> QED BY <3>1 DEF state
  <2>4. [state EXCEPT ![r] = Seen(c)] = [q \in Req |-> IF q = r THEN Seen(c) ELSE Seen(call[q])]
    BY DEF state
  <2> QED BY <2>3, <2>4 DEF state
<1>2. done' = done /\ repeated' = repeated
  BY DEF done, repeated
<1>3. CASE Seen(c) = Seen(call[r])
  <2>1. state' = state
    BY <1>1, <1>3 DEF state
  <2> QED BY <1>2, <2>1 DEF Remote!vars, state, done, repeated, Seen
<1>4. CASE \/ Seen(call[r]) = "new" /\ Seen(c) \in {"open", "refused"}
           \/ Seen(call[r]) = "open" /\ Seen(c) = "unknown"
           \/ Seen(call[r]) = "open" /\ Seen(c) = "answered" /\ r \in done
  <2>1. \/ Remote!Open(r) \/ Remote!Refuse(r) \/ Remote!Answer(r) \/ Remote!GiveUp(r)
    BY <1>1, <1>2, <1>4 DEF Remote!Open, Remote!Refuse, Remote!Answer, Remote!GiveUp,
       Remote!Move, state, done, repeated, Seen
  <2> QED BY <2>1 DEF Remote!Next
<1> QED BY <1>3, <1>4

LEMMA RemoteStep == ChannelInv /\ ChannelInv' /\ [ChannelNext]_channelVars => [Remote!Next]_(Remote!vars)
<1> SUFFICES ASSUME ChannelInv, ChannelInv', [ChannelNext]_channelVars PROVE [Remote!Next]_(Remote!vars)
  OBVIOUS
<1>0. call \in [Req -> {"idle"} \cup Pending \cup Outcome] /\ effects \in [Req -> Nat]
  BY DEF ChannelInv, Typed, ChannelTypeOK
<1>1. ASSUME UNCHANGED <<call, effects, cut>> PROVE [Remote!Next]_(Remote!vars)
  BY <1>1 DEF Remote!vars
<1>2. ASSUME NEW r \in Req, CheckOnline(r, SomeoneUp) PROVE [Remote!Next]_(Remote!vars)
  BY <1>0, <1>2, CallMoves DEF CheckOnline, Seen, Pending, Outcome, history
<1>3. ASSUME NEW r \in Req, Send(r) PROVE [Remote!Next]_(Remote!vars)
  BY <1>0, <1>3, CallMoves DEF Send, Seen, Pending, Outcome, history
<1>4. ASSUME NEW r \in Req, Receive(r) PROVE [Remote!Next]_(Remote!vars)
  <2>1. r \in done /\ reply[r] \in {"ok", "failed"}
    BY <1>4 DEF Receive, ChannelInv, Replied, Typed, ChannelTypeOK, done
  <2> QED BY <1>0, <1>4, <2>1, CallMoves DEF Receive, Seen, Pending, Outcome, history
<1>5. ASSUME NEW r \in Req, Timeout(r) \/ ClientDies(r) PROVE [Remote!Next]_(Remote!vars)
  BY <1>0, <1>5, CallMoves DEF Timeout, ClientDies, Seen, Pending, Outcome, history
<1>6. ASSUME NEW d \in Daemon, Execute(d) PROVE [Remote!Next]_(Remote!vars)
  <2>1. PICK r \in Req : r = cur[d] /\ r \in inbox
    BY <1>6 DEF Execute, ChannelInv, Typed, ChannelTypeOK, Dispatching
  <2>2. state' = state /\ cut' = cut /\ effects' = [effects EXCEPT ![r] = @ + 1]
    BY <1>6, <2>1 DEF Execute, state, clientVars
  <2>3. CASE effects[r] = 0
    <3>1. call[r] \in {"waiting", "timedout", "gone"}
      BY <1>0, <2>1, <2>3 DEF ChannelInv, SentOnce, AnsweredWasExecuted, Pending, Outcome
    <3>2. state[r] \in {"open", "unknown"}
      BY <2>1, <3>1 DEF state, Seen, Pending
    <3>3. done' = done \cup {r} /\ r \notin done /\ repeated' = repeated
      BY <1>0, <2>1, <2>2, <2>3 DEF done, repeated
    <3>4. Remote!Perform(r)
      BY <2>2, <3>2, <3>3 DEF Remote!Perform, state, done, repeated, Seen
    <3> QED BY <2>1, <3>4 DEF Remote!Next
  <2>4. CASE effects[r] = 1
    <3>1. done' = done /\ repeated' = repeated \cup {r}
      BY <1>0, <2>1, <2>2, <2>4 DEF done, repeated
    <3>2. r \in cut
      BY <1>0, <2>1, <2>2, <2>4 DEF ChannelInv, RepeatedOnlyAfterCut
    <3>3. Remote!Repeat(r)
      BY <2>2, <3>1, <3>2 DEF Remote!Repeat, state, done, repeated, Seen
    <3> QED BY <2>1, <3>3 DEF Remote!Next
  <2>5. CASE effects[r] > 1
    <3>1. done' = done /\ repeated' = repeated
      BY <1>0, <2>1, <2>2, <2>5 DEF done, repeated
    <3> QED BY <2>2, <3>1 DEF Remote!vars, state, done, repeated, Seen
  <2> QED BY <1>0, <2>1, <2>3, <2>4, <2>5
<1>7. ASSUME NEW d \in Daemon, ServerCrash(d) PROVE [Remote!Next]_(Remote!vars)
  <2>1. CASE dpc[d] \in {"reply", "clear"}
    <3>1. cur[d] \in Req /\ effects[cur[d]] > 0
      BY <2>1 DEF ChannelInv, Typed, ChannelTypeOK, Dispatching, Replied, Executed
    <3>2. Remote!CutOff(cur[d])
      BY <1>7, <2>1, <3>1 DEF ServerCrash, Remote!CutOff, clientVars
    <3> QED BY <3>1, <3>2 DEF Remote!Next
  <2>2. CASE dpc[d] \notin {"reply", "clear"}
    BY <1>1, <1>7, <2>2 DEF ServerCrash, clientVars
  <2> QED BY <2>1, <2>2
<1>8. CASE \/ \E r \in Req : GrowOld(r)
           \/ \E d \in Daemon : \/ Start(d) \/ Poll(d) \/ BatchDone(d) \/ Respond(d) \/ Clear(d)
                                \/ \E r \in Req : Take(d, r)
           \/ UNCHANGED channelVars
  BY <1>1, <1>8 DEF GrowOld, Start, Poll, BatchDone, Take, Respond, Clear, clientVars, history, channelVars
<1> QED
  BY <1>2, <1>3, <1>4, <1>5, <1>6, <1>7, <1>8 DEF ChannelNext, ClientStep, LoopStep

(* Files, clients that give up and daemons that crash implement a remote call:
   no answer before the effect, none after a refusal, and none twice unless the
   daemon was cut off between the effect and the removal of the request file. *)
THEOREM ChannelIsARemoteCall == ChannelSpec => RemoteCallSpec
<1>1. ChannelInit => Remote!Init
  BY DEF ChannelInit, Remote!Init, Pending
<1> QED
  BY <1>1, ChannelAlways, RemoteStep, PTL DEF ChannelSpec, RemoteCallSpec, Remote!Spec

-----------------------------------------------------------------------------
(* The session: operators over the two.                                    *)

\* A daemon writes its pid before it boots, once.
WrittenStage ==
  \A d \in Daemon :
    /\ HasKernel(d) => d \in written
    /\ d \in written => pc[d] \in {"boot", "serve", "stop", "close", "stopped", "crashed"}

\* A daemon polls while it serves.
LoopIsServing ==
  /\ dpc \in [Daemon -> {"off", "down"} \cup Loop]
  /\ \A d \in Daemon : Up(d) => pc[d] = "serve"

Verdicts == {"refused", "offline", "reused", "error", "stopped", "failed", "online"}

OperatorsTyped ==
  /\ at \in [Operator -> Steps]
  /\ req \in [Operator -> Req \cup {NoReq}]
  /\ target \in [Operator -> Daemon \cup {NoPid}]
  /\ results \in [Operator -> Seq(Verdicts)]

\* From the look at the lock to the end of a stop or a recovery.
Chasing == {"send", "rpc", "drain", "kill", "drainKilled", "release"}

\* The kernel of daemon t has stopped for good.
Over(t) == t \in written /\ ~HasKernel(t)

OperatorsHonest ==
  \A o \in Operator :
    /\ at[o] \in Chasing => target[o] \in written
    /\ at[o] = "rpc" => req[o] \in Req
    /\ at[o] = "idle" /\ LastReport(o) = "stopped" => Over(target[o]) \/ stolen # {}

\* Without a theft the channel is RpcChannel's, with one daemon up at a time.
SessionInv ==
  /\ TypeOK /\ HeldOrStolen /\ WrittenStage
  /\ OperatorsTyped /\ OperatorsHonest
  /\ LoopIsServing
  /\ stolen = {} => ChannelInv

LEMMA WrittenStep == TypeOK /\ WrittenStage /\ [Next]_vars => WrittenStage'
<1> SUFFICES ASSUME TypeOK, WrittenStage, [Next]_vars PROVE WrittenStage'
  OBVIOUS
<1> USE DEF TypeOK, WrittenStage, HasKernel, Goto, Unlink
<1>1. ASSUME NEW d \in Daemon, Spawn(d) \/ Create(d) \/ Read(d) PROVE WrittenStage'
  BY <1>1 DEF Spawn, Create, Read
<1>2. ASSUME NEW d \in Daemon, Probe(d) \/ Remove(d) PROVE WrittenStage'
  BY <1>2 DEF Probe, Remove
<1>3. ASSUME NEW d \in Daemon, WritePid(d) \/ Boot(d) \/ Shutdown(d) PROVE WrittenStage'
  BY <1>3 DEF WritePid, Boot, Shutdown
<1>4. ASSUME NEW d \in Daemon, KernelStop(d) \/ Close(d) PROVE WrittenStage'
  BY <1>4 DEF KernelStop, Close
<1>5. ASSUME NEW d \in Daemon, Crash(d) PROVE WrittenStage'
  BY <1>5 DEF Crash
<1>6. CASE UNCHANGED vars
  BY <1>6 DEF vars
<1> QED BY <1>1, <1>2, <1>3, <1>4, <1>5, <1>6 DEF Next, DaemonStep

\* A kernel that has stopped does not come back, and a theft is not forgotten.
LEMMA OverStaysOver ==
  TypeOK /\ WrittenStage /\ [Next]_vars
    => /\ \A t \in Daemon : Over(t) => Over(t)'
       /\ written \subseteq written' /\ stolen \subseteq stolen'
<1> SUFFICES ASSUME TypeOK, WrittenStage, [Next]_vars
             PROVE  /\ \A t \in Daemon : Over(t) => Over(t)'
                    /\ written \subseteq written' /\ stolen \subseteq stolen'
  OBVIOUS
<1> USE DEF TypeOK, WrittenStage, HasKernel, Over, Goto, Unlink
<1>1. ASSUME NEW d \in Daemon, Spawn(d) \/ Create(d) \/ Read(d)
      PROVE  /\ \A t \in Daemon : Over(t) => Over(t)'
             /\ written \subseteq written' /\ stolen \subseteq stolen'
  BY <1>1 DEF Spawn, Create, Read
<1>2. ASSUME NEW d \in Daemon, Probe(d) \/ Remove(d)
      PROVE  /\ \A t \in Daemon : Over(t) => Over(t)'
             /\ written \subseteq written' /\ stolen \subseteq stolen'
  BY <1>2 DEF Probe, Remove
<1>3. ASSUME NEW d \in Daemon, WritePid(d) \/ Boot(d) \/ Shutdown(d)
      PROVE  /\ \A t \in Daemon : Over(t) => Over(t)'
             /\ written \subseteq written' /\ stolen \subseteq stolen'
  BY <1>3 DEF WritePid, Boot, Shutdown
<1>4. ASSUME NEW d \in Daemon, KernelStop(d) \/ Close(d) \/ Crash(d)
      PROVE  /\ \A t \in Daemon : Over(t) => Over(t)'
             /\ written \subseteq written' /\ stolen \subseteq stolen'
  BY <1>4 DEF KernelStop, Close, Crash
<1>5. CASE UNCHANGED vars
  BY <1>5 DEF vars
<1> QED BY <1>1, <1>2, <1>3, <1>4, <1>5 DEF Next, DaemonStep

\* The recovery's lock.release() at its end.
Released ==
  /\ lockFile' = NoFile
  /\ stolen' = stolen \cup {d \in Daemon : d = lockFile /\ pc[d] \in Holding}
  /\ UNCHANGED <<written, pc, attempt, seen, crashes, overlapped>>

\* What a step does to the lock file is a step of RuntimeLock, or that release.
LEMMA SessionMovesTheLock ==
  SessionInv /\ [SessionNext]_sessionVars => [Next]_vars \/ Released
<1> SUFFICES ASSUME SessionInv, [SessionNext]_sessionVars PROVE [Next]_vars \/ Released
  OBVIOUS
<1>1. ASSUME NEW d \in Daemon, BootAndServe(d) \/ LockStep(d) \/ DaemonCrashes(d) PROVE [Next]_vars
  BY <1>1 DEF BootAndServe, LockStep, DaemonCrashes, Dies, Next, DaemonStep
<1>2. ASSUME NEW d \in Daemon, PollOrStop(d) PROVE [Next]_vars
  BY <1>2 DEF PollOrStop, Next
<1>3. ASSUME NEW d \in Daemon, ServeStep(d) PROVE [Next]_vars
  BY <1>3 DEF ServeStep
<1>4. ASSUME NEW o \in Operator, Kill(o) PROVE [Next]_vars
  <2>1. target[o] \in Daemon
    BY <1>4 DEF SessionInv, OperatorsHonest, Chasing, TypeOK, Kill
  <2> QED BY <1>4, <2>1 DEF Kill, Dies, Rest, Next
<1>5. ASSUME NEW o \in Operator, Release(o) PROVE Released
  BY <1>5 DEF Release, Released
<1>6. ASSUME NEW o \in Operator, SpawnDaemon(o) PROVE [Next]_vars
  BY <1>6 DEF SpawnDaemon, Next
<1>7. ASSUME NEW o \in Operator,
             \/ StartCheck(o) \/ StopCheck(o) \/ LaunchCheck(o) \/ LaunchProbe(o) \/ Recover(o)
             \/ RpcCheck(o) \/ RpcStep(o) \/ RpcEnds(o) \/ Drain(o) \/ DrainKilled(o) \/ Await(o)
      PROVE  [Next]_vars
  BY <1>7 DEF StartCheck, StopCheck, LaunchCheck, LaunchProbe, Recover, RpcCheck, RpcStep,
     RpcEnds, Drain, DrainKilled, Await, Rest
<1>8. CASE UNCHANGED sessionVars
  BY <1>8 DEF sessionVars
<1> QED
  BY <1>1, <1>2, <1>3, <1>4, <1>5, <1>6, <1>7, <1>8 DEF SessionNext, OperatorStep

\* What such a step keeps of the lock.
LEMMA SessionKeepsTheLock ==
  SessionInv /\ [SessionNext]_sessionVars
    => /\ TypeOK' /\ HeldOrStolen' /\ WrittenStage'
       /\ \A t \in Daemon : Over(t) => Over(t)'
       /\ written \subseteq written' /\ stolen \subseteq stolen'
<1> SUFFICES ASSUME SessionInv, [SessionNext]_sessionVars
             PROVE  /\ TypeOK' /\ HeldOrStolen' /\ WrittenStage'
                    /\ \A t \in Daemon : Over(t) => Over(t)'
                    /\ written \subseteq written' /\ stolen \subseteq stolen'
  OBVIOUS
<1>1. TypeOK /\ HeldOrStolen /\ WrittenStage
  BY DEF SessionInv
<1>2. CASE [Next]_vars
  BY <1>1, <1>2, LockTypeStep, HeldOrStolenStep, WrittenStep, OverStaysOver
<1>3. CASE Released
  <2>1. TypeOK'
    BY <1>1, <1>3, Zenon DEF Released, TypeOK
  <2>2. HeldOrStolen' /\ WrittenStage'
    BY <1>1, <1>3 DEF Released, TypeOK, HeldOrStolen, WrittenStage, HasKernel
  <2> QED BY <1>1, <1>3, <2>1, <2>2 DEF Released, Over, HasKernel
<1> QED BY <1>2, <1>3, SessionMovesTheLock

-----------------------------------------------------------------------------
(* What a step does to the operators. *)

\* Operator o goes on with its command.
Proceeds(o) ==
  \E s \in Steps \ {"idle"}, t \in Daemon \cup {NoPid}, r \in Req \cup {NoReq} :
    /\ at' = [at EXCEPT ![o] = s] /\ target' = [target EXCEPT ![o] = t]
    /\ req' = [req EXCEPT ![o] = r] /\ results' = results
    /\ s \in Chasing => t \in written
    /\ s = "rpc" => r \in Req

\* Operator o ends it and reports.
Reports(o) ==
  \E result \in Verdicts :
    /\ at' = [at EXCEPT ![o] = "idle"]
    /\ results' = [results EXCEPT ![o] = Append(@, result)]
    /\ UNCHANGED <<target, req>>
    /\ result = "stopped" => Over(target[o]) \/ stolen # {}

Waits == UNCHANGED <<at, req, target, results>>

\* The lock names nobody alive, so the kernel that was to stop has stopped, or
\* its file was taken from it.
LEMMA OfflineIsOver ==
  ASSUME SessionInv, NEW o \in Operator, at[o] \in Chasing, ~IsOnline
  PROVE  Over(target[o]) \/ stolen # {}
<1>1. PICK t \in Daemon : t = target[o] /\ t \in written
  BY DEF SessionInv, OperatorsHonest, TypeOK
<1>2. SUFFICES ASSUME HasKernel(t), stolen = {} PROVE FALSE
  BY <1>1 DEF Over
<1>3. lockFile = t
  BY <1>2 DEF SessionInv, HeldOrStolen, HasKernel, Holding
<1>4. LockPid = t /\ LockPid # NoPid
  BY <1>1, <1>3, RuntimeLockAssumption DEF LockPid
<1> QED BY <1>2, <1>4 DEF IsOnline, Alive, HasKernel, Ended

\* The lock names a process that has written its pid.
LEMMA OnlineIsWritten ==
  ASSUME SessionInv, IsOnline PROVE LockPid \in written /\ LockPid \in Daemon
BY DEF SessionInv, TypeOK, IsOnline, LockPid

LEMMA ProceedsWith ==
  ASSUME SessionInv, NEW o \in Operator, NEW s \in Steps \ {"idle"}, Advance(o, s),
         UNCHANGED <<target, req>>, s # "rpc", s \in Chasing => target[o] \in written
  PROVE  Proceeds(o)
<1>1. /\ target \in [Operator -> Daemon \cup {NoPid}] /\ req \in [Operator -> Req \cup {NoReq}]
      /\ results' = results /\ at' = [at EXCEPT ![o] = s]
  BY DEF SessionInv, OperatorsTyped, Advance
<1>2. /\ target[o] \in Daemon \cup {NoPid} /\ target' = [target EXCEPT ![o] = target[o]]
      /\ req[o] \in Req \cup {NoReq} /\ req' = [req EXCEPT ![o] = req[o]]
  BY <1>1
<1> QED BY <1>1, <1>2, Zenon DEF Proceeds

LEMMA ReportsWith ==
  ASSUME NEW o \in Operator, NEW result \in Verdicts, Report(o, result),
         UNCHANGED <<target, req>>, result = "stopped" => Over(target[o]) \/ stolen # {}
  PROVE  Reports(o)
BY Zenon DEF Report, Reports

LEMMA OperatorMoves ==
  ASSUME SessionInv, NEW o \in Operator, OperatorStep(o)
  PROVE  Proceeds(o) \/ Reports(o) \/ Waits
<1> USE DEF Steps, Chasing
<1>1. ASSUME StartCheck(o) \/ LaunchCheck(o) PROVE Proceeds(o) \/ Reports(o)
  <2>1. CASE Report(o, "refused")
    BY <1>1, <2>1, ReportsWith DEF StartCheck, LaunchCheck, Verdicts
  <2>2. CASE \E s \in {"spawn", "probe"} : Advance(o, s)
    BY <1>1, <2>2, ProceedsWith DEF StartCheck, LaunchCheck
  <2> QED BY <1>1, <2>1, <2>2 DEF StartCheck, LaunchCheck
<1>2. ASSUME StopCheck(o) \/ Recover(o) PROVE Proceeds(o) \/ Reports(o)
  <2>1. CASE IsOnline
    <3>1. PICK t \in Daemon : t = LockPid /\ t \in written
      BY <2>1, OnlineIsWritten
    <3>2. at' = [at EXCEPT ![o] = "send"] /\ target' = [target EXCEPT ![o] = t] /\ UNCHANGED <<req, results>>
      BY <1>2, <2>1, <3>1 DEF StopCheck, Recover, Advance
    <3>3. req[o] \in Req \cup {NoReq} /\ req' = [req EXCEPT ![o] = req[o]]
      BY <3>2 DEF SessionInv, OperatorsTyped
    <3>4. "send" \in Steps \ {"idle"} /\ "send" # "rpc"
      OBVIOUS
    <3> QED BY <3>1, <3>2, <3>3, <3>4, Zenon DEF Proceeds
  <2>2. CASE ~IsOnline /\ StopCheck(o)
    BY <2>2, ReportsWith DEF StopCheck, Verdicts
  <2>3. CASE ~IsOnline /\ Recover(o)
    BY <2>3, ProceedsWith DEF Recover
  <2> QED BY <1>2, <2>1, <2>2, <2>3
<1>3. ASSUME LaunchProbe(o) PROVE Proceeds(o) \/ Reports(o)
  <2>1. CASE Report(o, "reused")
    BY <1>3, <2>1, ReportsWith DEF LaunchProbe, Verdicts
  <2>2. CASE Advance(o, "recover")
    BY <1>3, <2>2, ProceedsWith DEF LaunchProbe
  <2> QED BY <1>3, <2>1, <2>2 DEF LaunchProbe
<1>4. ASSUME RpcCheck(o) PROVE Proceeds(o)
  <2>1. PICK r \in Req : req' = [req EXCEPT ![o] = r]
    BY <1>4 DEF RpcCheck
  <2>2. /\ at' = [at EXCEPT ![o] = "rpc"] /\ results' = results /\ target' = target
        /\ at[o] = "send"
    BY <1>4 DEF RpcCheck, Advance
  <2>3. /\ target[o] \in Daemon \cup {NoPid} /\ target' = [target EXCEPT ![o] = target[o]]
        /\ target[o] \in written
    BY <2>2 DEF SessionInv, OperatorsTyped, OperatorsHonest
  <2> QED BY <2>1, <2>2, <2>3 DEF Proceeds
<1>5. ASSUME RpcStep(o) PROVE Waits
  BY <1>5 DEF RpcStep, Waits, opVars
<1>6. ASSUME RpcEnds(o) PROVE Proceeds(o) \/ Reports(o)
  <2>1. CASE Report(o, "error")
    BY <1>6, <2>1, ReportsWith DEF RpcEnds, Verdicts
  <2>2. CASE Advance(o, "drain")
    <3>1. target[o] \in written
      BY <1>6 DEF RpcEnds, SessionInv, OperatorsHonest
    <3> QED BY <1>6, <2>2, <3>1, ProceedsWith DEF RpcEnds
  <2> QED BY <1>6, <2>1, <2>2 DEF RpcEnds
<1>7. ASSUME Drain(o) PROVE Proceeds(o) \/ Reports(o)
  <2>1. CASE ~IsOnline /\ Report(o, "stopped")
    <3>1. Over(target[o]) \/ stolen # {}
      BY <1>7, <2>1, OfflineIsOver DEF Drain
    <3> QED BY <1>7, <2>1, <3>1, ReportsWith DEF Drain, Verdicts
  <2>2. CASE Report(o, "error")
    BY <1>7, <2>2, ReportsWith DEF Drain, Verdicts
  <2>3. CASE \E s \in {"spawn", "kill"} : Advance(o, s)
    <3>1. target[o] \in written
      BY <1>7 DEF Drain, SessionInv, OperatorsHonest
    <3> QED BY <1>7, <2>3, <3>1, ProceedsWith DEF Drain
  <2> QED BY <1>7, <2>1, <2>2, <2>3 DEF Drain
<1>8. ASSUME Kill(o) PROVE Proceeds(o) \/ Reports(o)
  <2>1. CASE Report(o, "failed")
    BY <1>8, <2>1, ReportsWith DEF Kill, Verdicts
  <2>2. CASE \E s \in {"spawn", "drainKilled"} : Advance(o, s)
    <3>1. target[o] \in written
      BY <1>8 DEF Kill, SessionInv, OperatorsHonest
    <3> QED BY <1>8, <2>2, <3>1, ProceedsWith DEF Kill
  <2> QED BY <1>8, <2>1, <2>2 DEF Kill, UnlessOnline
<1>9. ASSUME DrainKilled(o) PROVE Proceeds(o) \/ Reports(o)
  <2>1. CASE Report(o, "failed")
    BY <1>9, <2>1, ReportsWith DEF DrainKilled, Verdicts
  <2>2. CASE Advance(o, "release")
    <3>1. target[o] \in written
      BY <1>9 DEF DrainKilled, SessionInv, OperatorsHonest
    <3> QED BY <1>9, <2>2, <3>1, ProceedsWith DEF DrainKilled
  <2> QED BY <1>9, <2>1, <2>2 DEF DrainKilled
<1>10. ASSUME Release(o) PROVE Proceeds(o)
  BY <1>10, ProceedsWith DEF Release
<1>11. ASSUME SpawnDaemon(o) PROVE Proceeds(o)
  <2>1. PICK d \in Daemon : target' = [target EXCEPT ![o] = d]
    BY <1>11 DEF SpawnDaemon
  <2>2. /\ at' = [at EXCEPT ![o] = "await"] /\ results' = results /\ req' = req
        /\ req[o] \in Req \cup {NoReq} /\ req' = [req EXCEPT ![o] = req[o]]
    BY <1>11 DEF SpawnDaemon, Advance, SessionInv, OperatorsTyped
  <2>3. "await" \in Steps \ {"idle"} /\ "await" \notin Chasing /\ "await" # "rpc"
    OBVIOUS
  <2> QED BY <2>1, <2>2, <2>3, Zenon DEF Proceeds
<1>12. ASSUME Await(o) PROVE Reports(o)
  BY <1>12, ReportsWith DEF Await, Verdicts
<1> QED
  BY <1>1, <1>2, <1>3, <1>4, <1>5, <1>6, <1>7, <1>8, <1>9, <1>10, <1>11, <1>12 DEF OperatorStep

\* An operator's fields are its own: the others wait while it acts.
LEMMA OperatorsWait ==
  SessionInv /\ [SessionNext]_sessionVars
    => Waits \/ \E o \in Operator : Proceeds(o) \/ Reports(o)
<1> SUFFICES ASSUME SessionInv, [SessionNext]_sessionVars
             PROVE  Waits \/ \E o \in Operator : Proceeds(o) \/ Reports(o)
  OBVIOUS
<1>1. ASSUME NEW d \in Daemon,
             BootAndServe(d) \/ LockStep(d) \/ PollOrStop(d) \/ ServeStep(d) \/ DaemonCrashes(d)
      PROVE  Waits
  BY <1>1 DEF BootAndServe, LockStep, PollOrStop, ServeStep, DaemonCrashes, opVars, Waits
<1>2. ASSUME NEW o \in Operator, OperatorStep(o) PROVE Waits \/ Proceeds(o) \/ Reports(o)
  BY <1>2, OperatorMoves
<1>3. CASE UNCHANGED sessionVars
  BY <1>3 DEF sessionVars, opVars, Waits
<1> QED BY <1>1, <1>2, <1>3 DEF SessionNext

LEMMA OperatorsKeep ==
  SessionInv /\ [SessionNext]_sessionVars => OperatorsTyped' /\ OperatorsHonest'
<1> SUFFICES ASSUME SessionInv, [SessionNext]_sessionVars
             PROVE  OperatorsTyped' /\ OperatorsHonest'
  OBVIOUS
<1>1. /\ \A t \in Daemon : Over(t) => Over(t)'
      /\ written \subseteq written' /\ stolen \subseteq stolen'
  BY SessionKeepsTheLock
<1>2. OperatorsTyped /\ OperatorsHonest /\ written \subseteq Daemon /\ stolen \subseteq Daemon
  BY DEF SessionInv, TypeOK
\* Whoever does not act keeps what it had.
<1>3. ASSUME NEW q \in Operator, at'[q] = at[q], target'[q] = target[q],
             req'[q] = req[q], results'[q] = results[q]
      PROVE  /\ at'[q] \in Chasing => target'[q] \in written'
             /\ at'[q] = "rpc" => req'[q] \in Req
             /\ at'[q] = "idle" /\ LastReport(q)' = "stopped" => Over(target[q])' \/ stolen' # {}
  <2>1. LastReport(q)' = LastReport(q)
    BY <1>3 DEF LastReport
  <2>2. CASE ~(at[q] = "idle" /\ LastReport(q) = "stopped")
    BY <1>1, <1>2, <1>3, <2>1, <2>2 DEF OperatorsHonest
  <2>3. CASE at[q] = "idle" /\ LastReport(q) = "stopped"
    <3>1. (target[q] \in Daemon /\ Over(target[q])) \/ stolen # {}
      BY <1>2, <2>3 DEF OperatorsHonest, Over
    <3>2. (target[q] \in Daemon /\ target'[q] = target[q] /\ Over(target[q])') \/ stolen' # {}
      BY <1>1, <1>3, <3>1 DEF Over, HasKernel
    <3> QED BY <1>3, <2>3, <3>2 DEF Chasing, Over, HasKernel
  <2> QED BY <2>2, <2>3
<1>4. CASE Waits
  BY <1>2, <1>3, <1>4 DEF Waits, OperatorsTyped, OperatorsHonest
<1>5. ASSUME NEW o \in Operator, Proceeds(o) PROVE OperatorsTyped' /\ OperatorsHonest'
  <2>1. PICK s \in Steps \ {"idle"}, t \in Daemon \cup {NoPid}, r \in Req \cup {NoReq} :
          /\ at' = [at EXCEPT ![o] = s] /\ target' = [target EXCEPT ![o] = t]
          /\ req' = [req EXCEPT ![o] = r] /\ results' = results
          /\ s \in Chasing => t \in written
          /\ s = "rpc" => r \in Req
    BY <1>5, Zenon DEF Proceeds
  <2>2. OperatorsTyped'
    BY <1>2, <2>1 DEF OperatorsTyped
  <2>3. at'[o] = s /\ target'[o] = t /\ req'[o] = r
    BY <1>2, <2>1 DEF OperatorsTyped
  <2>4. ASSUME NEW q \in Operator, q # o
        PROVE  at'[q] = at[q] /\ target'[q] = target[q] /\ req'[q] = req[q] /\ results'[q] = results[q]
    BY <1>2, <2>1, <2>4 DEF OperatorsTyped
  <2>5. OperatorsHonest'
    BY <1>1, <1>3, <2>1, <2>3, <2>4 DEF OperatorsHonest
  <2> QED BY <2>2, <2>5
<1>6. ASSUME NEW o \in Operator, Reports(o) PROVE OperatorsTyped' /\ OperatorsHonest'
  <2>1. PICK result \in Verdicts :
          /\ at' = [at EXCEPT ![o] = "idle"]
          /\ results' = [results EXCEPT ![o] = Append(@, result)]
          /\ UNCHANGED <<target, req>>
          /\ result = "stopped" => Over(target[o]) \/ stolen # {}
    BY <1>6, Zenon DEF Reports
  <2>2. results[o] \in Seq(Verdicts)
    BY <1>2 DEF OperatorsTyped
  <2>3. /\ Append(results[o], result) \in Seq(Verdicts)
        /\ Append(results[o], result) # <<>>
        /\ Append(results[o], result)[Len(Append(results[o], result))] = result
    BY <2>2
  <2>4. at'[o] = "idle" /\ results'[o] = Append(results[o], result)
    BY <1>2, <2>1 DEF OperatorsTyped
  <2>5. LastReport(o)' = result
    BY <2>3, <2>4 DEF LastReport
  <2>6. OperatorsTyped'
    BY <1>2, <2>1, <2>3 DEF OperatorsTyped, Steps
  <2>7. ASSUME NEW q \in Operator, q # o
        PROVE  at'[q] = at[q] /\ target'[q] = target[q] /\ req'[q] = req[q] /\ results'[q] = results[q]
    BY <1>2, <2>1, <2>7 DEF OperatorsTyped
  <2>8. result = "stopped" => Over(target[o])' \/ stolen' # {}
    <3> SUFFICES ASSUME result = "stopped" PROVE Over(target[o])' \/ stolen' # {}
      OBVIOUS
    <3>1. (target[o] \in Daemon /\ Over(target[o])) \/ stolen # {}
      BY <1>2, <2>1 DEF Over
    <3> QED BY <1>1, <2>1, <3>1 DEF Over, HasKernel
  <2>9. OperatorsHonest'
    BY <1>3, <2>4, <2>5, <2>7, <2>8 DEF OperatorsHonest, Chasing
  <2> QED BY <2>6, <2>9
<1> QED BY <1>4, <1>5, <1>6, OperatorsWait

-----------------------------------------------------------------------------
(* What a step does to the channel. *)

LEMMA LoopsServe == SessionInv /\ [SessionNext]_sessionVars => LoopIsServing'
<1> SUFFICES ASSUME SessionInv, [SessionNext]_sessionVars PROVE LoopIsServing'
  OBVIOUS
<1> USE DEF LoopIsServing, Up, Loop
<1>0. LoopIsServing /\ TypeOK
  BY DEF SessionInv
<1>1. ASSUME UNCHANGED <<pc, dpc>> PROVE LoopIsServing'
  BY <1>0, <1>1
<1>2. ASSUME NEW d \in Daemon, pc[d] # "serve", NEW s, Goto(d, s), dpc' = dpc PROVE LoopIsServing'
  BY <1>0, <1>2 DEF Goto, TypeOK
<1>3. ASSUME NEW d \in Daemon, BootAndServe(d) PROVE LoopIsServing'
  BY <1>0, <1>3 DEF BootAndServe, Boot, Start, Goto, TypeOK
<1>4. ASSUME NEW d \in Daemon, LockStep(d) PROVE LoopIsServing'
  <2>1. dpc' = dpc /\ pc[d] # "serve" /\ \E s : Goto(d, s)
    BY <1>4 DEF LockStep, Create, Read, Probe, Remove, WritePid, KernelStop, Close, channelVars, daemonVars
  <2> QED BY <1>2, <2>1
<1>5. ASSUME NEW d \in Daemon, PollOrStop(d) PROVE LoopIsServing'
  BY <1>0, <1>5 DEF PollOrStop, Poll, Shutdown, Goto, vars, TypeOK
<1>6. ASSUME NEW d \in Daemon, ServeStep(d) PROVE LoopIsServing'
  BY <1>0, <1>6 DEF ServeStep, BatchDone, Take, Execute, Respond, Clear, daemonVars, vars
<1>7. ASSUME NEW d \in Daemon, Dies(d) PROVE LoopIsServing'
  BY <1>0, <1>7 DEF Dies, Crash, ServerCrash, Goto, channelVars, daemonVars, TypeOK
<1>8. ASSUME NEW o \in Operator, Kill(o) PROVE LoopIsServing'
  <2>1. target[o] \in Daemon
    BY <1>8 DEF SessionInv, OperatorsHonest, Chasing, TypeOK, Kill
  <2> QED BY <1>1, <1>7, <1>8, <2>1 DEF Kill, Rest, vars, channelVars, daemonVars
<1>9. ASSUME NEW o \in Operator, SpawnDaemon(o) PROVE LoopIsServing'
  BY <1>2, <1>9 DEF SpawnDaemon, Spawn, channelVars, daemonVars
<1>10. ASSUME NEW o \in Operator,
              \/ StartCheck(o) \/ StopCheck(o) \/ LaunchCheck(o) \/ LaunchProbe(o) \/ Recover(o)
              \/ RpcCheck(o) \/ RpcStep(o) \/ RpcEnds(o) \/ Drain(o) \/ DrainKilled(o)
              \/ Release(o) \/ Await(o)
       PROVE  UNCHANGED <<pc, dpc>>
  BY <1>10 DEF StartCheck, StopCheck, LaunchCheck, LaunchProbe, Recover, RpcCheck, RpcStep,
     RpcEnds, Drain, DrainKilled, Release, Await, Rest, CheckOnline, Send, Receive, Timeout,
     vars, channelVars, daemonVars
<1>11. CASE UNCHANGED sessionVars
  BY <1>1, <1>11 DEF sessionVars, vars, channelVars, daemonVars
<1> QED
  BY <1>1, <1>3, <1>4, <1>5, <1>6, <1>7, <1>8, <1>9, <1>10, <1>11
     DEF SessionNext, OperatorStep, DaemonCrashes

\* One kernel at a time, so nobody polls when a daemon begins to.
LEMMA BootsAlone ==
  ASSUME SessionInv, stolen = {}, NEW d \in Daemon, Boot(d) PROVE ~SomeoneUp
<1> SUFFICES ASSUME NEW e \in Daemon, Up(e) PROVE FALSE
  BY DEF SomeoneUp
<1>1. pc[e] = "serve" /\ pc[d] = "boot"
  BY DEF SessionInv, LoopIsServing, Boot
<1> QED
  BY <1>1 DEF SessionInv, HeldOrStolen, Holding

LEMMA ChannelKeeps ==
  SessionInv /\ [SessionNext]_sessionVars => (stolen' = {} => ChannelInv')
<1> SUFFICES ASSUME SessionInv, [SessionNext]_sessionVars, stolen' = {} PROVE ChannelInv'
  OBVIOUS
<1>0. stolen = {} /\ ChannelInv
  BY SessionKeepsTheLock DEF SessionInv
<1>1. ASSUME [ChannelNext]_channelVars PROVE ChannelInv'
  BY <1>0, <1>1, ChannelStep
<1>2. ASSUME NEW d \in Daemon, BootAndServe(d) PROVE [ChannelNext]_channelVars
  BY <1>0, <1>2, BootsAlone DEF BootAndServe, ChannelNext
<1>3. ASSUME NEW d \in Daemon, LockStep(d) \/ PollOrStop(d) \/ ServeStep(d) \/ Dies(d)
      PROVE  [ChannelNext]_channelVars
  BY <1>3 DEF LockStep, PollOrStop, ServeStep, Dies, ChannelNext, LoopStep
<1>4. ASSUME NEW o \in Operator, RpcCheck(o) PROVE ChannelInv'
  <2>1. PICK r \in Req : CheckOnline(r, IsOnline)
    BY <1>4 DEF RpcCheck
  <2>2. PICK c \in {"checked", "offline"} : call' = [call EXCEPT ![r] = c]
    BY <2>1 DEF CheckOnline
  <2> QED BY <1>0, <2>1, <2>2, CheckedOrOffline DEF CheckOnline
<1>5. ASSUME NEW o \in Operator, RpcStep(o) PROVE [ChannelNext]_channelVars
  <2>1. req[o] \in Req
    BY <1>5 DEF RpcStep, SessionInv, OperatorsHonest
  <2> QED BY <1>5, <2>1 DEF RpcStep, ChannelNext, ClientStep
<1>6. ASSUME NEW o \in Operator, Kill(o) PROVE [ChannelNext]_channelVars
  <2>1. target[o] \in Daemon
    BY <1>6 DEF SessionInv, OperatorsHonest, Chasing, TypeOK, Kill
  <2> QED BY <1>3, <1>6, <2>1 DEF Kill, Rest
<1>7. ASSUME NEW o \in Operator,
             \/ StartCheck(o) \/ StopCheck(o) \/ LaunchCheck(o) \/ LaunchProbe(o) \/ Recover(o)
             \/ RpcEnds(o) \/ Drain(o) \/ DrainKilled(o) \/ Release(o) \/ SpawnDaemon(o) \/ Await(o)
      PROVE  [ChannelNext]_channelVars
  BY <1>7 DEF StartCheck, StopCheck, LaunchCheck, LaunchProbe, Recover, RpcEnds, Drain,
     DrainKilled, Release, SpawnDaemon, Await, Rest
<1>8. CASE UNCHANGED sessionVars
  BY <1>1, <1>8 DEF sessionVars
<1> QED
  BY <1>1, <1>2, <1>3, <1>4, <1>5, <1>6, <1>7, <1>8 DEF SessionNext, OperatorStep, DaemonCrashes

LEMMA SessionStarts == SessionInit => SessionInv
<1> SUFFICES ASSUME SessionInit PROVE SessionInv
  OBVIOUS
<1>1. TypeOK /\ HeldOrStolen /\ ChannelInv
  BY LockTypeStarts, HeldAtFirst, ChannelStarts DEF SessionInit
<1>2. WrittenStage /\ LoopIsServing
  BY DEF SessionInit, Init, ChannelInit, WrittenStage, HasKernel, LoopIsServing, Up, Loop
<1>3. OperatorsTyped /\ OperatorsHonest
  BY DEF SessionInit, OperatorsTyped, OperatorsHonest, Steps, Chasing, LastReport
<1> QED BY <1>1, <1>2, <1>3 DEF SessionInv

(* A stop that was reported has happened, and a shutdown reaches one runtime,
   for any operators and scripts: unless the lock of a live runtime was removed
   by another process, or a crash cut the shutdown's request off. *)
THEOREM StopsCanBeBelieved == SessionSpec => []StopsAreHonest
<1>1. SessionInv /\ [SessionNext]_sessionVars => SessionInv'
  BY SessionKeepsTheLock, OperatorsKeep, LoopsServe, ChannelKeeps DEF SessionInv
<1>2. SessionInv => StopsAreHonest
  BY DEF SessionInv, OperatorsHonest, Over, ChannelInv, RepeatedOnlyAfterCut,
     StopsAreHonest, StoppedIsStopped, ShutdownStopsOne
<1> QED BY <1>1, <1>2, SessionStarts, PTL DEF SessionSpec
=============================================================================
