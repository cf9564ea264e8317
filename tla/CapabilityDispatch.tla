------------------------- MODULE CapabilityDispatch --------------------------
(***************************************************************************)
(* CapabilityRegistry.call() and run_async() (capabilities/registry.py)    *)
(* with the permission gate (kernel/permissions.py), the elevation manager *)
(* (security/elevation.py), its scripted approver (kernel/core.py), the    *)
(* audit trail (kernel/audit.py) and the order of Kernel.stop().           *)
(*                                                                         *)
(* Two threads dispatch: the serve loop, which also changes the policy and *)
(* stops the kernel, and the scheduler's worker, which runs run_async()    *)
(* jobs.  A call is a number; each of its steps that another thread could  *)
(* tell from its neighbours is an action.  Every capability owns one       *)
(* action here.                                                            *)
(***************************************************************************)
EXTENDS Permissions, Naturals, Sequences, FiniteSets

CONSTANTS
  MaxCalls,       \* bound: dispatches
  PolicyRules,    \* rules the serve loop may add
  Provided,       \* actions some registered capability provides
  Sensitive,      \* ElevationManager._sensitive
  ElevationAllow, \* security.elevation_allow of the configuration
  MaxFaults,      \* bound: audit writes that fail with OSError
  MaxUnwinds,     \* bound: invocations left by SystemExit or KeyboardInterrupt
  JobsMayOutlast  \* TRUE: a job may run longer than the join of the stop

ASSUME DispatchAssumption ==
  /\ MaxCalls \in Nat /\ MaxFaults \in Nat /\ MaxUnwinds \in Nat
  /\ Action # {} /\ PolicyRules \subseteq Rule
  /\ Provided \subseteq Action
  /\ Sensitive \subseteq Action /\ ElevationAllow \subseteq Action
  /\ JobsMayOutlast \in BOOLEAN

VARIABLES
  rules,       \* Permissions._rules
  registered,  \* actions of the capabilities not yet closed
  life,        \* the kernel: "up", "joining", "closing", "gone"
  call,        \* per call: its step, thread, action, scope and result
  events,      \* per call: what it emitted
  trail,       \* per call: what it left in audit.jsonl
  dead,        \* the worker thread was ended by an unwinding job
  faults,
  barred,      \* history: calls whose action was denied when they began
  gaveUp       \* history: the stop did not wait for a running job

vars == <<rules, registered, life, call, events, trail, dead, faults, barred, gaveUp>>

Calls == 1..MaxCalls
Serve == "serve"
Worker == "worker"
Scopes == Scope \cup {NoScope}
Busy == {"gate", "elevate", "run", "emit", "record"}
Step == {"unused", "queued", "done", "unwound"} \cup Busy
Result == {"none", "unknown", "refused", "ok", "error"}
Unused == [at |-> "unused", by |-> Serve, act |-> CHOOSE a \in Action : TRUE,
           scope |-> NoScope, result |-> "none"]

\* Thread t is not in the middle of a call.
Free(t) == \A i \in Calls : call[i].at \in Busy => call[i].by # t
Running == life # "gone"
NextCall(i) == call[i].at = "unused" /\ \A j \in 1..(i - 1) : call[j].at # "unused"
Unwinds == Cardinality({i \in Calls : call[i].at = "unwound"})

\* Kernel._default_approval(): what the configuration grants beforehand
Approved(a) == a \in ElevationAllow
Elevated(a) == a \in Sensitive /\ Approved(a)
OutcomeOf(r) == IF r = "ok" THEN "succeeded" ELSE "failed"

Init ==
  /\ rules = {} /\ registered = Provided /\ life = "up"
  /\ call = [i \in Calls |-> Unused]
  /\ events = [i \in Calls |-> <<>>] /\ trail = [i \in Calls |-> <<>>]
  /\ dead = FALSE /\ faults = 0
  /\ barred = {} /\ gaveUp = FALSE

-----------------------------------------------------------------------------
(* Dispatch *)

\* find_capability(): without an owner the call fails at once, silently;
\* otherwise capability.calling is emitted and the gate is next.
Begin(i, t, a, s) ==
  /\ IF a \in registered
     THEN /\ call' = [call EXCEPT ![i] = [at |-> "gate", by |-> t, act |-> a,
                                          scope |-> s, result |-> "none"]]
          /\ events' = [events EXCEPT ![i] = Append(@, "calling")]
     ELSE /\ call' = [call EXCEPT ![i] = [at |-> "done", by |-> t, act |-> a,
                                          scope |-> s, result |-> "unknown"]]
          /\ UNCHANGED events
  /\ barred' = IF Denied(rules, a, s) /\ ~Elevated(a) THEN barred \cup {i} ELSE barred
  /\ UNCHANGED <<rules, registered, life, trail, dead, faults, gaveUp>>

\* The "call" request.
Call(i, a, s) == life = "up" /\ Free(Serve) /\ NextCall(i) /\ Begin(i, Serve, a, s)

\* The "run_async" request: scheduled, neither located nor checked yet.
RunAsync(i, a, s) ==
  /\ life = "up" /\ Free(Serve) /\ NextCall(i)
  /\ call' = [call EXCEPT ![i] = [at |-> "queued", by |-> Worker, act |-> a,
                                  scope |-> s, result |-> "none"]]
  /\ UNCHANGED <<rules, registered, life, events, trail, dead, faults, barred, gaveUp>>

\* The worker runs the job: call() from its beginning.
JobBegins(i) ==
  /\ life = "up" /\ ~dead /\ Free(Worker)
  /\ call[i].at = "queued"
  /\ Begin(i, Worker, call[i].act, call[i].scope)

\* Mutated forms: a rule order in which the newest allow wins; a refusal that returns
\* without _finish_failure().
GateAllowFirst(i) ==
  /\ call[i].at = "gate" /\ Running
  /\ LET c == call[i] IN
     call' = [call EXCEPT ![i] =
       IF \E r \in rules : Applies(r, c.act, c.scope) /\ r.allow
       THEN [c EXCEPT !.at = "run"]
       ELSE [c EXCEPT !.at = "emit", !.result = "refused"]]
  /\ UNCHANGED <<rules, registered, life, events, trail, dead, faults, barred, gaveUp>>

GateRefusesSilently(i) ==
  /\ call[i].at = "gate" /\ Running
  /\ LET c == call[i] IN
     call' = [call EXCEPT ![i] =
       IF Allowed(rules, c.act, c.scope) THEN [c EXCEPT !.at = "run"]
       ELSE [c EXCEPT !.at = "done", !.result = "refused"]]
  /\ UNCHANGED <<rules, registered, life, events, trail, dead, faults, barred, gaveUp>>

\* permissions.check(); only a refused sensitive action goes to elevation.
Gate(i) ==
  /\ call[i].at = "gate" /\ Running
  /\ LET c == call[i] IN
     call' = [call EXCEPT ![i] =
       IF Allowed(rules, c.act, c.scope) THEN [c EXCEPT !.at = "run"]
       ELSE IF c.act \in Sensitive THEN [c EXCEPT !.at = "elevate"]
       ELSE [c EXCEPT !.at = "emit", !.result = "refused"]]
  /\ UNCHANGED <<rules, registered, life, events, trail, dead, faults, barred, gaveUp>>

\* Audit.record(): an OSError is logged and the entry is lost.
Audited(i, entry) ==
  \/ /\ trail' = [trail EXCEPT ![i] = Append(@, entry)]
     /\ UNCHANGED faults
  \/ /\ faults < MaxFaults /\ faults' = faults + 1
     /\ UNCHANGED trail

\* Mutated form: without an entry in the allow list the approver waits for one.
ElevateWaits(i) ==
  /\ call[i].at = "elevate" /\ Running
  /\ Approved(call[i].act)
  /\ call' = [call EXCEPT ![i].at = "run"]
  /\ Audited(i, "approved")
  /\ UNCHANGED <<rules, registered, life, events, dead, barred, gaveUp>>

\* approve() with the kernel's scripted approver, which audits its answer.
Elevate(i) ==
  /\ call[i].at = "elevate" /\ Running
  /\ IF Approved(call[i].act)
     THEN /\ call' = [call EXCEPT ![i].at = "run"]
          /\ Audited(i, "approved")
     ELSE /\ call' = [call EXCEPT ![i].at = "emit", ![i].result = "refused"]
          /\ Audited(i, "denied")
  /\ UNCHANGED <<rules, registered, life, events, dead, barred, gaveUp>>

\* capability.invoke() returns, or raises an Exception, which is an error.
Return(i) ==
  /\ call[i].at = "run" /\ Running
  /\ \E r \in {"ok", "error"} :
       call' = [call EXCEPT ![i].at = "emit", ![i].result = r]
  /\ UNCHANGED <<rules, registered, life, events, trail, dead, faults, barred, gaveUp>>

\* ... or is left by a BaseException, which nothing on the way catches: the
\* worker thread ends, or the serve loop does and run_daemon() closes.
Unwind(i) ==
  /\ call[i].at = "run" /\ Running /\ Unwinds < MaxUnwinds
  /\ call' = [call EXCEPT ![i].at = "unwound"]
  /\ IF call[i].by = Worker
     THEN dead' = TRUE /\ UNCHANGED life
     ELSE life' = "joining" /\ UNCHANGED dead
  /\ UNCHANGED <<rules, registered, events, trail, faults, barred, gaveUp>>

\* _finish_success() or _finish_failure(): the event, then the trail.
Emit(i) ==
  /\ call[i].at = "emit" /\ Running
  /\ call' = [call EXCEPT ![i].at = "record"]
  /\ events' = [events EXCEPT ![i] = Append(@, OutcomeOf(call[i].result))]
  /\ UNCHANGED <<rules, registered, life, trail, dead, faults, barred, gaveUp>>

Record(i) ==
  /\ call[i].at = "record" /\ Running
  /\ call' = [call EXCEPT ![i].at = "done"]
  /\ Audited(i, OutcomeOf(call[i].result))
  /\ UNCHANGED <<rules, registered, life, events, dead, barred, gaveUp>>

-----------------------------------------------------------------------------
(* Policy and shutdown, on the serve thread. *)

\* The "grant" and "deny" requests; PolicyStore has what follows on disk.
SetPolicy(r) ==
  /\ life = "up" /\ Free(Serve) /\ r \notin rules
  /\ rules' = rules \cup {r}
  /\ UNCHANGED <<registered, life, call, events, trail, dead, faults, barred, gaveUp>>

\* Kernel.stop(): scheduler.stop() lets no further job begin ...
Stop ==
  /\ life = "up" /\ Free(Serve)
  /\ life' = "joining"
  /\ UNCHANGED <<rules, registered, call, events, trail, dead, faults, barred, gaveUp>>

\* Mutated form: the capabilities are closed without waiting for the worker.
JoinSkipped ==
  /\ life = "joining"
  /\ life' = "closing"
  /\ UNCHANGED <<rules, registered, call, events, trail, dead, faults, barred, gaveUp>>

\* ... and waits for the running one, but not for ever.
Join ==
  /\ life = "joining"
  /\ \/ Free(Worker) /\ UNCHANGED gaveUp
     \/ ~Free(Worker) /\ JobsMayOutlast /\ gaveUp' = TRUE
  /\ life' = "closing"
  /\ UNCHANGED <<rules, registered, call, events, trail, dead, faults, barred>>

\* cap.shutdown() closes one capability after the other.
Close(a) ==
  /\ life = "closing" /\ a \in registered
  /\ registered' = registered \ {a}
  /\ UNCHANGED <<rules, life, call, events, trail, dead, faults, barred, gaveUp>>

\* The process ends, and its daemon threads with it.
Exit ==
  /\ life = "closing" /\ registered = {}
  /\ life' = "gone"
  /\ UNCHANGED <<rules, registered, call, events, trail, dead, faults, barred, gaveUp>>

-----------------------------------------------------------------------------
Dispatch(i) == Gate(i) \/ Elevate(i) \/ Return(i) \/ Unwind(i) \/ Emit(i) \/ Record(i)

Next ==
  \/ \E i \in Calls, a \in Action, s \in Scopes : Call(i, a, s) \/ RunAsync(i, a, s)
  \/ \E i \in Calls : JobBegins(i) \/ Dispatch(i)
  \/ \E r \in PolicyRules : SetPolicy(r)
  \/ Stop \/ Join \/ Exit
  \/ \E a \in Action : Close(a)

Spec == Init /\ [][Next]_vars

\* Both threads are scheduled and capabilities return.
FairSpec == Spec /\ \A i \in Calls : WF_vars(Dispatch(i))

-----------------------------------------------------------------------------
(* Properties *)

\* "Deny-by-default ... grants are explicit", and a deny is final: a call that
\* begins after a deny of its action never reaches the capability, whatever
\* grants came before or come while it runs, and though its job was scheduled
\* before the deny, unless the elevation list names the action.
DenyHonoured ==
  \A i \in barred : call[i].at # "run" /\ call[i].result \notin {"ok", "error"}

\* Steps 3 to 7 of the dispatch lifecycle: the calling event is first, one
\* outcome event follows, the audit entry comes last, after the event, and agrees
\* with it and with the result; only a failing disk loses an entry.
Outcomes(i) == {k \in DOMAIN trail[i] : trail[i][k] \in {"succeeded", "failed"}}
LifecycleInOrder ==
  \A i \in Calls : LET c == call[i] IN
    /\ c.at \in {"unused", "queued"} \/ c.result = "unknown"
         => events[i] = <<>> /\ trail[i] = <<>>
    /\ c.at \in {"gate", "elevate", "run", "unwound", "emit"}
         => events[i] = <<"calling">> /\ Outcomes(i) = {}
    /\ c.at \in {"record", "done"} /\ c.result # "unknown"
         => events[i] = <<"calling", OutcomeOf(c.result)>>
    /\ c.at = "record" => Outcomes(i) = {}
    /\ c.at = "done" /\ c.result # "unknown"
         => \/ Outcomes(i) = {Len(trail[i])} /\ trail[i][Len(trail[i])] = OutcomeOf(c.result)
            \/ faults > 0 /\ Outcomes(i) = {}

\* No capability is used while or after it is closed, unless the stop gave up
\* waiting for the job that uses it.
NoUseAfterClose ==
  \A i \in Calls : call[i].at = "run" /\ call[i].act \notin registered => gaveUp

\* Every call that passed find_capability() gets an outcome, unless the
\* process ends first.
BegunIsConcluded ==
  \A i \in Calls : call[i].at = "gate" ~> (call[i].at \in {"done", "unwound"} \/ life = "gone")
=============================================================================
