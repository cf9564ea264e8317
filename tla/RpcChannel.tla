----------------------------- MODULE RpcChannel -----------------------------
(***************************************************************************)
(* The file transport between clients and the daemon, buster/runtime.py:   *)
(* RuntimeClient.rpc writes state/rpc/in/<id>.json and polls for           *)
(* out/<id>.json; RuntimeServer.serve lists the directory, executes each   *)
(* request, writes the response and removes the request.                   *)
(*                                                                         *)
(* Every file is written with a rename, so it is absent or complete; one   *)
(* step per directory operation.  A request is identified by its uuid, a   *)
(* daemon incarnation by its process.  What an operation does is one       *)
(* "effect"; only `shutdown` matters to the channel itself.                *)
(***************************************************************************)
EXTENDS Daemons

CONSTANTS
  Req,         \* calls of RuntimeClient.rpc, one request file each
  ShutdownReq, \* those whose op is "shutdown"
  NoReq,       \* a daemon is between two requests
  TimeoutsOn   \* FALSE: every client outwaits its daemon (a bound for the
               \* runs that look at what happens without timeouts)

ASSUME RpcAssumption ==
  /\ IsFiniteSet(Req) /\ ShutdownReq \subseteq Req /\ NoReq \notin Req
  /\ TimeoutsOn \in BOOLEAN

VARIABLES
  call,       \* where each client call is, or how it ended
  inbox,      \* requests with a file in rpc/in
  outbox,     \* requests with a response file in rpc/out
  reply,      \* the `ok` field of the last response written for a request
  old,        \* requests whose file is older than REQUEST_TTL (60 s)
  dpc,        \* where each daemon is in serve()
  serving,    \* self._running of each daemon
  batch,      \* names that _process_pending has listed and not yet visited
  cur,        \* the request being dispatched
  effects,    \* history: how often each request was executed
  cut,        \* history: requests a crash hit between execution and removal
  rpcCrashes  \* number of crashes so far

clientVars == <<call>>
files == <<inbox, outbox, reply, old>>
daemonVars == <<dpc, serving, batch, cur>>
history == <<effects, cut, rpcCrashes>>
channelVars == <<clientVars, files, daemonVars, history>>

Pending == {"checked", "waiting"}
Outcome == {"ok", "failed", "timedout", "offline", "gone"}
Loop == {"poll", "batch", "exec", "reply", "clear"}

Up(d) == dpc[d] \in Loop
SomeoneUp == \E d \in Daemon : Up(d)

ChannelInit ==
  /\ call = [r \in Req |-> "idle"]
  /\ inbox = {} /\ outbox = {} /\ old = {}
  /\ reply = [r \in Req |-> "none"]
  /\ dpc = [d \in Daemon |-> "off"]
  /\ serving = [d \in Daemon |-> TRUE]
  /\ batch = [d \in Daemon |-> {}]
  /\ cur = [d \in Daemon |-> NoReq]
  /\ effects = [r \in Req |-> 0]
  /\ cut = {}
  /\ rpcCrashes = 0

-----------------------------------------------------------------------------
(* RuntimeClient.rpc                                                       *)

\* The lock is read first; `online` is what is_online() would say.
CheckOnline(r, online) ==
  /\ call[r] = "idle"
  /\ call' = [call EXCEPT ![r] = IF online THEN "checked" ELSE "offline"]
  /\ UNCHANGED <<files, daemonVars, history>>

Send(r) ==
  /\ call[r] = "checked"
  /\ call' = [call EXCEPT ![r] = "waiting"]
  /\ inbox' = inbox \cup {r}
  /\ UNCHANGED <<outbox, reply, old, daemonVars, history>>

\* A poll finds the response, removes it and returns or raises.
Receive(r) ==
  /\ call[r] = "waiting" /\ r \in outbox
  /\ call' = [call EXCEPT ![r] = reply[r]]
  /\ outbox' = outbox \ {r}
  /\ UNCHANGED <<inbox, reply, old, daemonVars, history>>

\* The deadline passes: the response path is removed, the request is not.
Timeout(r) ==
  /\ TimeoutsOn
  /\ call[r] = "waiting"
  /\ call' = [call EXCEPT ![r] = "timedout"]
  /\ outbox' = outbox \ {r}
  /\ UNCHANGED <<inbox, reply, old, daemonVars, history>>

\* The client process is killed while it polls.
ClientDies(r) ==
  /\ TimeoutsOn
  /\ call[r] = "waiting"
  /\ call' = [call EXCEPT ![r] = "gone"]
  /\ UNCHANGED <<files, daemonVars, history>>

\* No client waits longer than 10 s; a file that is 60 s old has none.
GrowOld(r) ==
  /\ r \in inbox \ old
  /\ call[r] \notin Pending
  /\ old' = old \cup {r}
  /\ UNCHANGED <<clientVars, inbox, outbox, reply, daemonVars, history>>

-----------------------------------------------------------------------------
(* RuntimeServer.serve                                                     *)

Start(d) ==
  /\ dpc[d] = "off"
  /\ dpc' = [dpc EXCEPT ![d] = "poll"]
  /\ UNCHANGED <<clientVars, files, serving, batch, cur, history>>

\* while self._running: list rpc/in, or leave the loop.
Poll(d) ==
  /\ dpc[d] = "poll"
  /\ IF serving[d]
     THEN /\ dpc' = [dpc EXCEPT ![d] = "batch"]
          /\ batch' = [batch EXCEPT ![d] = inbox]
     ELSE dpc' = [dpc EXCEPT ![d] = "down"] /\ UNCHANGED batch
  /\ UNCHANGED <<clientVars, files, serving, cur, history>>

BatchDone(d) ==
  /\ dpc[d] = "batch" /\ batch[d] = {}
  /\ dpc' = [dpc EXCEPT ![d] = "poll"]
  /\ UNCHANGED <<clientVars, files, serving, batch, cur, history>>

\* Mutated form: an old request is passed over and stays where it is.
TakeSkipsOld(d, r) ==
  /\ dpc[d] = "batch" /\ r \in batch[d]
  /\ batch' = [batch EXCEPT ![d] = @ \ {r}]
  /\ IF r \in inbox \ old
     THEN /\ cur' = [cur EXCEPT ![d] = r]
          /\ dpc' = [dpc EXCEPT ![d] = "exec"]
     ELSE UNCHANGED <<cur, dpc>>
  /\ UNCHANGED <<clientVars, files, serving, history>>

\* A file that is gone (removed by another daemon) reads as None: skipped.
\* An old one that can be read is dispatched like any other.
Take(d, r) ==
  /\ dpc[d] = "batch" /\ r \in batch[d]
  /\ batch' = [batch EXCEPT ![d] = @ \ {r}]
  /\ IF r \in inbox
     THEN /\ cur' = [cur EXCEPT ![d] = r]
          /\ dpc' = [dpc EXCEPT ![d] = "exec"]
     ELSE UNCHANGED <<cur, dpc>>
  /\ UNCHANGED <<clientVars, files, serving, history>>

\* self.rpc(request): the effect, and an ok or a failed response; the branch of
\* "shutdown" has nothing that could fail.
Execute(d) ==
  /\ dpc[d] = "exec"
  /\ \E result \in {"ok", "failed"} :
       /\ cur[d] \in ShutdownReq => result = "ok"
       /\ reply' = [reply EXCEPT ![cur[d]] = result]
  /\ effects' = [effects EXCEPT ![cur[d]] = @ + 1]
  /\ serving' = [serving EXCEPT ![d] = @ /\ cur[d] \notin ShutdownReq]
  /\ dpc' = [dpc EXCEPT ![d] = "reply"]
  /\ UNCHANGED <<clientVars, inbox, outbox, old, batch, cur, cut, rpcCrashes>>

Respond(d) ==
  /\ dpc[d] = "reply"
  /\ outbox' = outbox \cup {cur[d]}
  /\ dpc' = [dpc EXCEPT ![d] = "clear"]
  /\ UNCHANGED <<clientVars, inbox, reply, old, serving, batch, cur, history>>

\* Mutated form: the request file stays.
ClearForgets(d) ==
  /\ dpc[d] = "clear"
  /\ cur' = [cur EXCEPT ![d] = NoReq]
  /\ dpc' = [dpc EXCEPT ![d] = "batch"]
  /\ UNCHANGED <<clientVars, files, serving, batch, history>>

Clear(d) ==
  /\ dpc[d] = "clear"
  /\ inbox' = inbox \ {cur[d]}
  /\ old' = old \ {cur[d]}
  /\ cur' = [cur EXCEPT ![d] = NoReq]
  /\ dpc' = [dpc EXCEPT ![d] = "batch"]
  /\ UNCHANGED <<clientVars, outbox, reply, serving, batch, history>>

\* The files stay as they are; the next daemon finds them.
ServerCrash(d) ==
  /\ Up(d) /\ rpcCrashes < MaxCrashes
  /\ rpcCrashes' = rpcCrashes + 1
  /\ dpc' = [dpc EXCEPT ![d] = "down"]
  /\ cut' = IF dpc[d] \in {"reply", "clear"} THEN cut \cup {cur[d]} ELSE cut
  /\ UNCHANGED <<clientVars, files, serving, batch, cur, effects>>

ClientStep(r) == Send(r) \/ Receive(r) \/ Timeout(r) \/ ClientDies(r) \/ GrowOld(r)
LoopStep(d) == \/ Poll(d) \/ BatchDone(d) \/ (\E r \in Req : Take(d, r))
               \/ Execute(d) \/ Respond(d) \/ Clear(d)

\* One runtime at a time, as RuntimeLock guarantees for serialised starts.
ChannelNext ==
  \/ \E r \in Req : CheckOnline(r, SomeoneUp) \/ ClientStep(r)
  \/ \E d \in Daemon : (Start(d) /\ ~SomeoneUp) \/ LoopStep(d) \/ ServerCrash(d)

ChannelSpec == ChannelInit /\ [][ChannelNext]_channelVars

\* The daemon's loop never blocks by itself and operations return; a waiting
\* client polls until its deadline.
FairChannel == /\ ChannelSpec
               /\ \A d \in Daemon : WF_channelVars(LoopStep(d))
               /\ \A r \in Req : WF_channelVars(Send(r)) /\ WF_channelVars(Receive(r))

-----------------------------------------------------------------------------
(* Properties.                                                             *)

ChannelTypeOK ==
  /\ call \in [Req -> {"idle"} \cup Pending \cup Outcome]
  /\ inbox \subseteq Req /\ outbox \subseteq Req /\ old \subseteq inbox
  /\ reply \in [Req -> {"none", "ok", "failed"}]
  /\ dpc \in [Daemon -> {"off", "down"} \cup Loop]
  /\ serving \in [Daemon -> BOOLEAN]
  /\ batch \in [Daemon -> SUBSET Req]
  /\ cur \in [Daemon -> Req \cup {NoReq}]
  /\ effects \in [Req -> Nat]
  /\ cut \subseteq Req
  /\ rpcCrashes \in Nat

\* A request is executed again only if a crash hit the daemon between its
\* execution and the removal of its file: timeouts, lost clients, leftover
\* response files and orderly restarts never repeat an operation.
RepeatedOnlyAfterCut ==
  \A r \in Req : effects[r] > 1 => r \in cut

\* And each crash can repeat at most one operation, once.
RepeatsAreCounted ==
  \A r \in Req : effects[r] <= 1 + rpcCrashes

\* A client that was told ok or failed has had its operation executed: the
\* response is its own and not an earlier daemon's leftover.
AnsweredWasExecuted ==
  \A r \in Req : call[r] \in {"ok", "failed"} => effects[r] > 0

\* A live daemon gets to every request file, unless it goes down first.
RequestIsTaken ==
  \A r \in Req : (r \in inbox /\ SomeoneUp) ~> (r \notin inbox \/ ~SomeoneUp)

\* The daemon that executed a shutdown ends, however many requests keep
\* arriving: it finishes the batch it has listed and lists no other.
ShutdownStops == \A d \in Daemon : ~serving[d] ~> ~Up(d)

\* The two together: neither the requests nor the end of the loop starve.
Progress == RequestIsTaken /\ ShutdownStops

-----------------------------------------------------------------------------
(* The channel is a remote call, at most once but for crashes.                *)

Remote == INSTANCE RemoteCall WITH
  state <- [r \in Req |-> CASE call[r] = "idle" -> "new"
                            [] call[r] \in Pending -> "open"
                            [] call[r] \in {"ok", "failed"} -> "answered"
                            [] call[r] \in {"timedout", "gone"} -> "unknown"
                            [] call[r] = "offline" -> "refused"],
  done <- {r \in Req : effects[r] > 0},
  repeated <- {r \in Req : effects[r] > 1}

\* Every behaviour of files, clients and daemons is one of the remote call: no
\* answer before the effect, no effect after a refusal, none repeated unless a
\* crash came between it and the removal of the request file.
RemoteCallSpec == Remote!Spec
=============================================================================
