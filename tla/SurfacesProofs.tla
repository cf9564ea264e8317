---------------------------- MODULE SurfacesProofs ----------------------------
(***************************************************************************)
(* Proofs about Surfaces for any calls, invocations, launches and installs, *)
(* any catalog, any granted capabilities and any number of deaths: what    *)
(* `buster exec` prints can be believed, an answer reaches its own call,   *)
(* and a launch reports what is there.                                     *)
(***************************************************************************)
EXTENDS Surfaces, TLAPS

-----------------------------------------------------------------------------
(* The inductive invariant. *)

\* The invocations.
Stage == {"idle", "parsed", "online", "waiting", "done"}
Doc == [code : Int, ok : BOOLEAN, live : BOOLEAN]

ExecTypes ==
  /\ proc \in [Exec -> [at : Stage, verb : Verb, arg : Arg]]
  /\ out \in [Exec -> Doc]
  /\ runtime \in {"down", "running", "stopping"}
  /\ inbox \subseteq Exec /\ served \subseteq Exec
  /\ response \in [Exec -> {"none", "ok", "refused"}]
  /\ copies \in [Periodic -> Nat] /\ performed \in [Exec -> Nat] /\ deaths \in Nat

\* An invocation leaves no trace before it asks and no document before it is
\* done; a response means that it was served; a request that still waits was
\* carried out only by runtimes that died of it.
Honest(e) ==
  /\ proc[e].at # "done" => out[e] = NoOut
  /\ proc[e].at \in {"idle", "parsed", "online"} =>
       e \notin inbox \cup served /\ performed[e] = 0 /\ response[e] = "none"
  /\ response[e] # "none" => e \in served
  /\ response[e] = "ok" /\ proc[e].verb \in Control => performed[e] >= 1
  /\ out[e].live /\ proc[e].verb \notin Local => e \in served
  /\ out[e].code = 0 /\ proc[e].verb \in Control => performed[e] >= 1
  /\ out[e].code = 2 => e \notin inbox \cup served
  /\ performed[e] <= (IF e \in inbox THEN 0 ELSE 1) + deaths
  /\ performed[e] > 0 => proc[e].arg \in Catalog

ExecInv == ExecTypes /\ \A e \in Exec : Honest(e)

\* The calls of the app.
Result ==
  [kind : {"ok", "none", "BridgeUnavailable", "thrown", "TIMEOUT", "undecodable",
           "CapabilityMissing", "NotImplemented", "InvalidArguments", "Unauthenticated",
           "ConsentRequired", "ResultTooLarge", "Malformed", "HostRefused"},
   of : Call \cup {0}, document : Doc]

ClientTypes ==
  /\ call \in [Call -> [at : {"idle", "binding", "waiting", "late", "done"},
                        op : GuestVerb \cup {"none"}, arg : View \cup {NoArg}, result : Result]]
  /\ slot \in [Call -> Result]
  /\ host \in [Call -> {"unaware", "accepted", "guest", "answered", "gone"}]
  /\ answers \subseteq [to : Call, result : Result]

\* A call that was sent names an operation that is granted and implemented.
Sent(c) == call[c].op \in Implemented /\ CapabilityOf(call[c].op) \in Granted

\* What a result says that claims to be the answer to call c.
Own(c, r) ==
  r.kind = "ok" =>
    /\ r.of = c /\ r.document = out[c] /\ Sent(c)
    /\ proc[c].at = "done" /\ proc[c].verb = call[c].op

ClientInv ==
  /\ ClientTypes
  /\ \A c \in Call :
       /\ call[c].at \in {"binding", "waiting", "late"} \/ host[c] # "unaware" => Sent(c)
       /\ host[c] = "guest" => proc[c].at # "idle" /\ proc[c].verb = call[c].op
       /\ host[c] # "unaware" => call[c].at # "idle"
       /\ call[c].at = "idle" => call[c].result = None /\ slot[c] = None
       /\ Own(c, slot[c]) /\ Own(c, call[c].result)
  /\ \A a \in answers : Own(a.to, a.result) /\ host[a.to] = "answered"

\* The launches.
LaunchTypes ==
  /\ at \in [Launcher -> {"idle", "writing", "runtime", "ping", "spawn", "pid", "watch",
                          "open", "present", "done"}]
  /\ result \in [Launcher -> {"none", "ok", "error", "crashed"}]
  /\ opened \in [Launcher -> {"nobody", "host", "desktop", "bridge"}]
  /\ config \in [Install -> {"absent", "empty", "whole"}]
  /\ gui \in [Launcher -> {"none", "starting", "serving", "dead", "crashed"}]
  /\ port \in Launcher \cup {NoGui}
  /\ pidFile \in [Install -> Launcher \cup {NoGui}]

\* A launch asks the bridge last, and has seen its interface by then.
OfLaunch(l) ==
  /\ at[l] # "done" => result[l] = "none"
  /\ at[l] \in {"idle", "writing", "runtime", "ping", "spawn"} => gui[l] = "none"
  /\ at[l] \notin {"present", "done"} => proc[l].at = "idle"
  /\ proc[l].at # "idle" => proc[l].verb = "present" /\ result[l] \in {"none", "ok"}
  /\ at[l] = "present" => proc[l].at # "idle"
  /\ opened[l] = "bridge" => l \in served
  /\ (at[l] \in {"open", "present"} \/ result[l] = "ok")
       /\ (\A g \in Launcher : gui[g] # "crashed") => SameInstall(l)

LaunchInv == LaunchTypes /\ \A l \in Launcher : OfLaunch(l)

IInv == ExecInv /\ ClientInv /\ LaunchInv

-----------------------------------------------------------------------------
(* Invocations and the runtime. *)

LEMMA ExecInit_Inv == ExecInit => ExecInv
<1> SUFFICES ASSUME ExecInit PROVE ExecInv
  OBVIOUS
<1>1. NoOut \in Doc /\ NoOut.code = -1 /\ NoOut.live = FALSE
  BY DEF NoOut, Doc
<1>2. ExecTypes
  <2>1. "unknown" \in Verb /\ NoArg \in Arg
    BY DEF Verb, Arg
  <2> QED BY <1>1, <2>1 DEF ExecInit, ExecTypes, Stage
<1>3. ASSUME NEW e \in Exec PROVE Honest(e)
  <2>1. /\ proc[e].at = "idle" /\ out[e] = NoOut /\ e \notin inbox \cup served
        /\ performed[e] = 0 /\ response[e] = "none" /\ deaths = 0
    BY DEF ExecInit
  <2> QED BY <1>1, <2>1 DEF Honest
<1> QED BY <1>2, <1>3 DEF ExecInv

\* An invocation that is not touched stays as honest as it was, whatever dies.
LEMMA UntouchedStaysHonest ==
  ASSUME ExecInv, deaths' \in Nat, deaths' >= deaths, NEW e \in Exec,
         proc'[e] = proc[e], out'[e] = out[e], response'[e] = response[e],
         performed'[e] = performed[e], e \in inbox' <=> e \in inbox, e \in served' <=> e \in served
  PROVE  Honest(e)'
  BY DEF ExecInv, ExecTypes, Honest

LEMMA InvokeKeeps ==
  ASSUME ExecInv, NEW e \in Exec, NEW verb \in Verb, NEW arg \in Arg, Invoke(e, verb, arg)
  PROVE  ExecInv'
<1>0. /\ proc[e].at = "idle" /\ UNCHANGED <<inbox, response, runtime, copies, served, performed, deaths>>
      /\ Honest(e) /\ ExecTypes
  BY DEF Invoke, runtimeVars, ExecInv
<1>1. PICK step \in {"parsed", "done"} :
        /\ proc' = [proc EXCEPT ![e] = [at |-> step, verb |-> verb, arg |-> arg]]
        /\ \/ out' = out
           \/ step = "done" /\ out' = [out EXCEPT ![e] = Answer(2, FALSE, FALSE)]
  BY DEF Invoke
<1>2. PICK p : p = [at |-> step, verb |-> verb, arg |-> arg]
  OBVIOUS
<1>3. p \in [at : Stage, verb : Verb, arg : Arg] /\ p.at = step /\ p.verb = verb /\ p.arg = arg
  BY <1>2 DEF Stage
<1>4. PICK a : a = Answer(2, FALSE, FALSE)
  OBVIOUS
<1>5. a \in Doc /\ a.code = 2 /\ ~a.live
  BY <1>4 DEF Answer, Doc
<1>6. /\ proc' = [proc EXCEPT ![e] = p]
      /\ out' = out \/ (step = "done" /\ out' = [out EXCEPT ![e] = a])
  BY <1>1, <1>2, <1>4
<1>7. ExecTypes'
  BY <1>0, <1>3, <1>5, <1>6 DEF ExecTypes
<1>8. ASSUME NEW f \in Exec, f # e PROVE Honest(f)'
  <2>1. proc'[f] = proc[f] /\ out'[f] = out[f]
    BY <1>0, <1>6, <1>8 DEF ExecTypes
  <2> QED BY <1>0, <2>1, UntouchedStaysHonest DEF ExecTypes
<1>9. Honest(e)'
  <2>1. proc'[e] = p /\ (out'[e] = NoOut \/ (step = "done" /\ out'[e] = a))
    BY <1>0, <1>6 DEF ExecTypes, Honest
  <2>2. NoOut.code = -1 /\ NoOut.live = FALSE
    BY DEF NoOut
  <2> QED BY <1>0, <1>3, <1>5, <2>1, <2>2 DEF Honest
<1> QED BY <1>7, <1>8, <1>9 DEF ExecInv

\* The end of an invocation: what its document and its exit code must not say.
LEMMA FinishKeeps ==
  ASSUME ExecInv, NEW e \in Exec, proc[e].at \in Stage \ {"idle", "done"},
         NEW a \in Doc, Finish(e, a),
         a.code # 2,
         a.live /\ proc[e].verb \notin Local => e \in served,
         a.code = 0 /\ proc[e].verb \in Control => performed[e] >= 1,
         UNCHANGED <<inbox, runtimeVars>>,
         response' \in {response, [response EXCEPT ![e] = "none"]}
  PROVE  ExecInv'
<1>0. /\ UNCHANGED <<inbox, runtime, copies, served, performed, deaths>>
      /\ Honest(e) /\ ExecTypes
  BY DEF runtimeVars, ExecInv
<1>1. PICK p : p = [proc[e] EXCEPT !.at = "done"]
  OBVIOUS
<1>2. p \in [at : Stage, verb : Verb, arg : Arg] /\ p.at = "done" /\ p.verb = proc[e].verb /\ p.arg = proc[e].arg
  BY <1>0, <1>1 DEF ExecTypes, Stage
<1>3. proc' = [proc EXCEPT ![e] = p] /\ out' = [out EXCEPT ![e] = a]
  BY <1>1 DEF Finish
<1>4. ExecTypes'
  BY <1>0, <1>2, <1>3 DEF ExecTypes
<1>5. ASSUME NEW f \in Exec, f # e PROVE Honest(f)'
  <2>1. proc'[f] = proc[f] /\ out'[f] = out[f] /\ response'[f] = response[f]
    BY <1>0, <1>3, <1>5 DEF ExecTypes
  <2> QED BY <1>0, <2>1, UntouchedStaysHonest DEF ExecTypes
<1>6. Honest(e)'
  <2>1. proc'[e] = p /\ out'[e] = a /\ response'[e] \in {response[e], "none"}
    BY <1>0, <1>3 DEF ExecTypes
  <2> QED BY <1>0, <1>2, <2>1 DEF Honest
<1> QED BY <1>4, <1>5, <1>6 DEF ExecInv

\* A call that failed, and a runtime that is not there, are reported as such.
LEMMA FailuresAreHonest ==
  ASSUME NEW verb \in Verb
  PROVE  /\ FailureAnswer(verb) \in Doc /\ FailureAnswer(verb).code \in {0, 1} /\ ~FailureAnswer(verb).live
         /\ OfflineAnswer(verb) \in Doc /\ OfflineAnswer(verb).code \in {0, 1} /\ ~OfflineAnswer(verb).live
         /\ verb \in Control => FailureAnswer(verb).code = 1 /\ OfflineAnswer(verb).code = 1
<1>1. /\ Answer(1, FALSE, FALSE) \in Doc
      /\ Answer(1, FALSE, FALSE).code = 1 /\ Answer(1, FALSE, FALSE).live = FALSE
  BY DEF Answer, Doc
<1>2. /\ Answer(0, verb # "read", FALSE) \in Doc
      /\ Answer(0, verb # "read", FALSE).code = 0 /\ Answer(0, verb # "read", FALSE).live = FALSE
  BY DEF Answer, Doc
<1>3. verb \in Control => verb \in OnService /\ verb \notin Guarded
  BY DEF Control, OnService, Guarded
<1>4. FailureAnswer(verb) = IF verb \in Guarded THEN Answer(0, verb # "read", FALSE) ELSE Answer(1, FALSE, FALSE)
  BY DEF FailureAnswer
<1>5. OfflineAnswer(verb) = IF verb \in OnService THEN Answer(1, FALSE, FALSE) ELSE Answer(0, verb # "read", FALSE)
  BY DEF OfflineAnswer
<1> QED BY <1>1, <1>2, <1>3, <1>4, <1>5

\* A step to another stage that leaves no document.
LEMMA AdvanceKeeps ==
  ASSUME ExecInv, NEW e \in Exec, proc[e].at \in {"parsed", "online"},
         NEW step \in {"online", "waiting"}, proc' = [proc EXCEPT ![e].at = step],
         \/ step = "online" /\ UNCHANGED inbox
         \/ step = "waiting" /\ inbox' = inbox \cup {e},
         UNCHANGED <<out, response, runtimeVars>>
  PROVE  ExecInv'
<1>0. /\ UNCHANGED <<runtime, copies, served, performed, deaths>>
      /\ Honest(e) /\ ExecTypes
  BY DEF runtimeVars, ExecInv
<1>1. PICK p : p = [proc[e] EXCEPT !.at = step]
  OBVIOUS
<1>2. p \in [at : Stage, verb : Verb, arg : Arg] /\ p.at = step /\ p.verb = proc[e].verb /\ p.arg = proc[e].arg
  BY <1>0, <1>1 DEF ExecTypes, Stage
<1>3. proc' = [proc EXCEPT ![e] = p]
  BY <1>1
<1>4. ExecTypes'
  BY <1>0, <1>2, <1>3 DEF ExecTypes
<1>5. ASSUME NEW f \in Exec, f # e PROVE Honest(f)'
  <2>1. proc'[f] = proc[f] /\ (f \in inbox' <=> f \in inbox)
    BY <1>0, <1>3, <1>5 DEF ExecTypes
  <2> QED BY <1>0, <2>1, UntouchedStaysHonest DEF ExecTypes
<1>6. Honest(e)'
  <2>1. proc'[e] = p
    BY <1>0, <1>3 DEF ExecTypes
  <2>2. NoOut.code = -1 /\ NoOut.live = FALSE
    BY DEF NoOut
  <2> QED BY <1>0, <1>2, <2>1, <2>2 DEF Honest, ExecTypes
<1> QED BY <1>4, <1>5, <1>6 DEF ExecInv

LEMMA ConnectKeeps == ASSUME ExecInv, NEW e \in Exec, Connect(e) PROVE ExecInv'
<1>0. /\ proc[e].at = "parsed" /\ proc[e].verb \in Verb
      /\ UNCHANGED <<inbox, response, runtimeVars>>
  BY DEF Connect, ExecInv, ExecTypes
<1>1. CASE proc[e].verb \in Local
  <2>1. Finish(e, Answer(0, TRUE, runtime # "down"))
    BY <1>1 DEF Connect
  <2>2. Answer(0, TRUE, runtime # "down") \in Doc /\ Answer(0, TRUE, runtime # "down").code = 0
    BY DEF Answer, Doc
  <2>3. PICK a \in Doc : a.code = 0 /\ Finish(e, a)
    BY <2>1, <2>2, Zenon
  <2>4. proc[e].verb \notin Control
    BY <1>1 DEF Local, Control
  <2> QED BY <1>0, <1>1, <2>3, <2>4, FinishKeeps DEF Stage
<1>2. CASE proc[e].verb \notin Local /\ runtime = "down"
  <2>1. Finish(e, OfflineAnswer(proc[e].verb))
    BY <1>2 DEF Connect
  <2> QED BY <1>0, <2>1, FinishKeeps, FailuresAreHonest DEF Stage
<1>3. CASE proc[e].verb \notin Local /\ runtime # "down"
  <2>1. proc' = [proc EXCEPT ![e].at = "online"] /\ UNCHANGED out
    BY <1>3 DEF Connect
  <2> QED BY <1>0, <2>1, AdvanceKeeps
<1> QED BY <1>1, <1>2, <1>3

LEMMA AskKeeps == ASSUME ExecInv, NEW e \in Exec, Ask(e) PROVE ExecInv'
<1>0. /\ proc[e].at = "online" /\ proc[e].verb \in Verb
      /\ UNCHANGED <<response, runtimeVars>>
  BY DEF Ask, ExecInv, ExecTypes
<1>1. CASE Finish(e, FailureAnswer(proc[e].verb)) /\ UNCHANGED inbox
  BY <1>0, <1>1, FinishKeeps, FailuresAreHonest DEF Stage
<1>2. CASE proc' = [proc EXCEPT ![e].at = "waiting"] /\ inbox' = inbox \cup {e} /\ UNCHANGED out
  BY <1>0, <1>2, AdvanceKeeps
<1> QED BY <1>1, <1>2 DEF Ask

\* A response of a runtime is the only thing a live document is made from.
LEMMA ReceiveKeeps == ASSUME ExecInv, NEW e \in Exec, Receive(e) PROVE ExecInv'
<1>0. /\ proc[e].at = "waiting" /\ proc[e].verb \in Verb /\ e \in served
      /\ UNCHANGED <<inbox, runtimeVars>> /\ response[e] \in {"ok", "refused"}
      /\ response' \in {response, [response EXCEPT ![e] = "none"]}
      /\ Finish(e, Received(e)) /\ Honest(e)
  BY DEF Receive, ExecInv, ExecTypes, Honest
<1>1. CASE Received(e) = FailureAnswer(proc[e].verb)
  BY <1>0, <1>1, FinishKeeps, FailuresAreHonest DEF Stage
<1>2. CASE Received(e) = Answer(1, FALSE, FALSE)
  <2>1. LET a == Answer(1, FALSE, FALSE) IN a \in Doc /\ a.code = 1 /\ ~a.live
    BY DEF Answer, Doc
  <2>2. PICK a \in Doc : a.code = 1 /\ ~a.live /\ Finish(e, a)
    BY <1>0, <1>2, <2>1, Zenon
  <2> QED BY <1>0, <2>2, FinishKeeps DEF Stage
<1>3. CASE response[e] = "ok" /\ Received(e) = Answer(0, TRUE, TRUE)
  <2>1. LET a == Answer(0, TRUE, TRUE) IN a \in Doc /\ a.code = 0
    BY DEF Answer, Doc
  <2>2. PICK a \in Doc : a.code = 0 /\ Finish(e, a)
    BY <1>0, <1>3, <2>1, Zenon
  <2>3. proc[e].verb \in Control => performed[e] >= 1
    BY <1>0, <1>3 DEF Honest
  <2> QED BY <1>0, <2>2, <2>3, FinishKeeps DEF Stage
<1> QED BY <1>0, <1>1, <1>2, <1>3 DEF Received

LEMMA TimeOutKeeps == ASSUME ExecInv, NEW e \in Exec, TimeOut(e) PROVE ExecInv'
<1>0. /\ proc[e].at = "waiting" /\ proc[e].verb \in Verb
      /\ UNCHANGED <<inbox, runtimeVars>> /\ Finish(e, FailureAnswer(proc[e].verb))
      /\ response' \in {response, [response EXCEPT ![e] = "none"]}
  BY DEF TimeOut, ExecInv, ExecTypes
<1> QED BY <1>0, FinishKeeps, FailuresAreHonest DEF Stage

LEMMA GuestKeeps == ASSUME ExecInv, NEW e \in Exec, Guest(e) PROVE ExecInv'
  BY ConnectKeeps, AskKeeps, ReceiveKeeps, TimeOutKeeps DEF Guest

\* A request is executed; the runtime may die of it.
LEMMA PerformKeeps ==
  ASSUME ExecInv, NEW e \in inbox, Perform(e), UNCHANGED guestVars, runtime' \in {"down", "running"},
         \/ /\ inbox' = inbox \ {e} /\ deaths' = deaths
            /\ \E verdict \in Verdict(e) : response' = [response EXCEPT ![e] = verdict]
         \/ inbox' = inbox /\ deaths' = deaths + 1 /\ response' = response
  PROVE  ExecInv'
<1>0. e \in Exec /\ ExecTypes /\ Honest(e) /\ UNCHANGED <<proc, out>>
  BY DEF ExecInv, ExecTypes, guestVars
<1>1. /\ served' = served \cup {e} /\ copies' \in [Periodic -> Nat]
      /\ performed' = IF proc[e].verb \in Control /\ proc[e].arg \in Catalog
                      THEN [performed EXCEPT ![e] = @ + 1] ELSE performed
  BY <1>0 DEF Perform, Accepts, ExecTypes
<1>2. ASSUME NEW verdict \in Verdict(e), response' = [response EXCEPT ![e] = verdict]
      PROVE  /\ verdict \in {"ok", "refused"}
             /\ verdict = "ok" /\ proc[e].verb \in Control => proc[e].arg \in Catalog
  <2>1. CASE proc[e].verb \in Control
    BY <1>2, <2>1 DEF Verdict, Accepts, Control
  <2>2. CASE proc[e].verb \notin Control
    BY <1>2, <2>2 DEF Verdict
  <2> QED BY <2>1, <2>2
<1>3. ExecTypes'
  <2>1. response' \in [Exec -> {"none", "ok", "refused"}] /\ inbox' \subseteq Exec /\ deaths' \in Nat
    BY <1>0, <1>2 DEF ExecTypes
  <2>2. performed' \in [Exec -> Nat] /\ served' \subseteq Exec
    BY <1>0, <1>1 DEF ExecTypes
  <2> QED BY <1>0, <1>1, <2>1, <2>2 DEF ExecTypes
<1>4. ASSUME NEW f \in Exec, f # e PROVE Honest(f)'
  <2>1. /\ response'[f] = response[f] /\ performed'[f] = performed[f]
        /\ (f \in inbox' <=> f \in inbox) /\ (f \in served' <=> f \in served)
        /\ deaths' \in Nat /\ deaths' >= deaths
    BY <1>0, <1>1, <1>4 DEF ExecTypes
  <2> QED BY <1>0, <2>1, UntouchedStaysHonest
<1>5. Honest(e)'
  <2>1. proc[e].at \notin {"idle", "parsed", "online"} /\ out[e].code # 2 /\ performed[e] <= deaths
    BY <1>0 DEF Honest, ExecTypes
  <2>2. /\ e \in served' /\ performed'[e] \in {performed[e], performed[e] + 1}
        /\ proc[e].verb \in Control /\ proc[e].arg \in Catalog => performed'[e] = performed[e] + 1
        /\ performed'[e] # performed[e] => proc[e].arg \in Catalog
    BY <1>0, <1>1 DEF ExecTypes
  <2>3. /\ response'[e] = "ok" /\ proc[e].verb \in Control => performed'[e] >= 1
        /\ performed'[e] <= (IF e \in inbox' THEN 0 ELSE 1) + deaths'
    BY <1>0, <1>2, <2>1, <2>2 DEF Honest, ExecTypes
  <2> QED BY <1>0, <2>1, <2>2, <2>3 DEF Honest, ExecTypes
<1> QED BY <1>3, <1>4, <1>5 DEF ExecInv

\* A runtime or an interface dies, stops or starts without touching a request.
LEMMA LifeKeeps ==
  ASSUME ExecInv, UNCHANGED <<guestVars, inbox, response, served, performed>>,
         runtime' \in {"down", "running", "stopping"}, deaths' \in {deaths, deaths + 1},
         copies' \in {copies, [j \in Periodic |-> 1]}
  PROVE  ExecInv'
<1>1. ExecTypes'
  BY DEF ExecInv, ExecTypes, guestVars
<1>2. ASSUME NEW e \in Exec PROVE Honest(e)'
  BY UntouchedStaysHonest DEF ExecInv, ExecTypes, guestVars
<1> QED BY <1>1, <1>2 DEF ExecInv

LEMMA RuntimeKeeps == ASSUME ExecInv, Runtime PROVE ExecInv'
<1>1. ASSUME NEW e \in Exec, Serve(e) PROVE ExecInv'
  <2>1. runtime = "running" /\ UNCHANGED <<guestVars, runtime, deaths>>
    BY <1>1 DEF Serve
  <2> QED BY <1>1, <2>1, PerformKeeps DEF Serve
<1>2. ASSUME NEW e \in Exec, DieServing(e) PROVE ExecInv'
  BY <1>2, PerformKeeps DEF DieServing
<1>3. CASE Die \/ Stop
  BY <1>3, LifeKeeps DEF Die, Stop
<1>4. CASE Exit \/ Start
  BY <1>4, LifeKeeps DEF Exit, Start
<1> QED BY <1>1, <1>2, <1>3, <1>4 DEF Runtime

(* What the surfaces may rely on while invocations go on. *)

\* An invocation keeps its verb, and its document once it is done.
Settled ==
  /\ \A e \in Exec :
       /\ proc[e].at # "idle" => proc'[e].at # "idle" /\ proc'[e].verb = proc[e].verb
       /\ proc[e].at = "done" => proc'[e].at = "done" /\ out'[e] = out[e]
  /\ served \subseteq served'

\* None of these begins.
Unbegun(E) == \A e \in E : proc[e].at = "idle" => proc'[e].at = "idle"

LEMMA InvokeSettles ==
  ASSUME ExecTypes, NEW e \in Exec, NEW verb \in Verb, NEW arg \in Arg, Invoke(e, verb, arg)
  PROVE  /\ Settled /\ Unbegun(Exec \ {e})
         /\ proc[e].at = "idle" /\ proc'[e].at # "idle" /\ proc'[e].verb = verb
<1>0. proc[e].at = "idle" /\ served' = served
  BY DEF Invoke, runtimeVars
<1>1. PICK step \in {"parsed", "done"} :
        /\ proc' = [proc EXCEPT ![e] = [at |-> step, verb |-> verb, arg |-> arg]]
        /\ \/ out' = out
           \/ out' = [out EXCEPT ![e] = Answer(2, FALSE, FALSE)]
  BY DEF Invoke
<1>2. \A f \in Exec \ {e} : proc'[f] = proc[f] /\ out'[f] = out[f]
  BY <1>1 DEF ExecTypes
<1>3. proc'[e] = [at |-> step, verb |-> verb, arg |-> arg]
  BY <1>1 DEF ExecTypes
<1> QED BY <1>0, <1>2, <1>3 DEF Settled, Unbegun

LEMMA GuestSettles ==
  ASSUME ExecTypes, NEW e \in Exec, Guest(e)
  PROVE  Settled /\ Unbegun(Exec)
<1>1. PICK step \in {"online", "waiting", "done"} :
        proc[e].at \in {"parsed", "online", "waiting"} /\ proc' = [proc EXCEPT ![e].at = step]
  BY DEF Guest, Connect, Ask, Receive, TimeOut, Finish
<1>2. \A f \in Exec \ {e} : out'[f] = out[f]
  BY DEF Guest, Connect, Ask, Receive, TimeOut, Finish, ExecTypes
<1>3. served' = served
  BY DEF Guest, Connect, Ask, Receive, TimeOut, runtimeVars
<1>4. PICK p : p = [proc[e] EXCEPT !.at = step]
  OBVIOUS
<1>5. p.at = step /\ p.verb = proc[e].verb
  BY <1>4 DEF ExecTypes
<1>6. proc'[e] = p /\ \A f \in Exec \ {e} : proc'[f] = proc[f]
  BY <1>1, <1>4 DEF ExecTypes
<1> QED BY <1>1, <1>2, <1>3, <1>5, <1>6 DEF Settled, Unbegun

LEMMA RuntimeSettles == ASSUME ExecTypes, Runtime PROVE Settled /\ Unbegun(Exec)
<1>1. UNCHANGED guestVars
  BY DEF Runtime, Serve, DieServing, Die, Stop, Exit, Start
<1>2. served \subseteq served'
  BY DEF Runtime, Serve, DieServing, Die, Stop, Exit, Start, Perform
<1> QED BY <1>1, <1>2 DEF Settled, Unbegun, guestVars

LEMMA QuietSettles == ASSUME UNCHANGED <<guestVars, served>> PROVE Settled /\ Unbegun(Exec)
  BY DEF Settled, Unbegun, guestVars

-----------------------------------------------------------------------------
(* Calls of the app. *)

LEMMA ResultsAre ==
  /\ None \in Result /\ None.kind = "none"
  /\ \A why \in {"none", "BridgeUnavailable", "thrown", "TIMEOUT", "undecodable", "CapabilityMissing",
                 "NotImplemented", "InvalidArguments", "Unauthenticated", "ConsentRequired",
                 "ResultTooLarge", "Malformed", "HostRefused"} :
       Failed(why) \in Result /\ Failed(why).kind = why
  /\ \A c \in Call, d \in Doc :
       Ok(c, d) \in Result /\ Ok(c, d).kind = "ok" /\ Ok(c, d).of = c /\ Ok(c, d).document = d
<1>1. NoOut \in Doc
  BY DEF NoOut, Doc
<1> QED BY <1>1 DEF None, Failed, Ok, Result

LEMMA ClientInit_Inv == ClientInit => ClientInv
<1> SUFFICES ASSUME ClientInit PROVE ClientInv
  OBVIOUS
<1>1. ClientTypes
  BY ResultsAre DEF ClientInit, ClientTypes
<1>2. \A c \in Call : call[c].at = "idle" /\ call[c].result = None /\ slot[c] = None /\ host[c] = "unaware"
  BY DEF ClientInit
<1>3. answers = {}
  BY DEF ClientInit
<1> QED BY <1>1, <1>2, <1>3, ResultsAre DEF ClientInv, Own

\* What belongs to a call goes on belonging to it.
LEMMA OwnStays ==
  ASSUME Settled, NEW c \in Call, NEW r, Own(c, r), r.kind = "ok" => call'[c].op = call[c].op
  PROVE  Own(c, r)'
  BY ClientAssumption DEF Own, Settled, Sent

LEMMA ClientRests ==
  ASSUME ClientInv, Settled, UNCHANGED bridgeVars
  PROVE  ClientInv'
<1>0. UNCHANGED <<call, pending, slot, host, answers>>
  BY DEF bridgeVars, clientVars
<1>1. ClientTypes'
  BY <1>0 DEF ClientInv, ClientTypes
<1>2. \A c \in Call : Sent(c)' <=> Sent(c)
  BY <1>0 DEF Sent
<1>3. \A c \in Call : Own(c, slot[c])' /\ Own(c, call[c].result)'
  BY <1>0, OwnStays DEF ClientInv
<1>4. \A a \in answers : Own(a.to, a.result)'
  BY <1>0, OwnStays DEF ClientInv, ClientTypes
<1>5. \A c \in Call : host[c] = "guest" => proc'[c].at # "idle" /\ proc'[c].verb = call[c].op
  BY ClientAssumption DEF ClientInv, Settled
<1> QED BY <1>0, <1>1, <1>2, <1>3, <1>4, <1>5 DEF ClientInv

CallRecord == [at : {"idle", "binding", "waiting", "late", "done"},
               op : GuestVerb \cup {"none"}, arg : View \cup {NoArg}, result : Result]

\* A call moves on.
LEMMA CallMoves ==
  ASSUME ClientInv, NEW c \in Call, NEW p \in CallRecord, call' = [call EXCEPT ![c] = p],
         \/ /\ p.op = call[c].op /\ call[c].at \in {"binding", "waiting", "late"}
            /\ p.at # "idle" /\ Own(c, p.result)
         \/ /\ call[c].at = "idle" /\ p.at \in {"binding", "done"} /\ p.result.kind # "ok"
            /\ p.at = "binding" => p.op \in Implemented /\ CapabilityOf(p.op) \in Granted,
         UNCHANGED <<execVars, slot, host, answers>>
  PROVE  ClientInv'
<1>0. /\ call'[c] = p /\ \A d \in Call : d # c => call'[d] = call[d]
      /\ UNCHANGED <<proc, out, served>> /\ ClientTypes /\ None.kind = "none"
  BY ResultsAre DEF ClientInv, ClientTypes, execVars, guestVars, runtimeVars
<1>1. ClientTypes'
  BY <1>0 DEF ClientTypes, CallRecord
<1>2. Settled
  BY <1>0 DEF Settled
<1>3. call[c].at = "idle" => host[c] = "unaware" /\ slot[c] = None
  BY DEF ClientInv
<1>4. /\ \A d \in Call : d # c => (Sent(d)' <=> Sent(d))
      /\ call[c].at # "idle" => (Sent(c)' <=> Sent(c))
      /\ call[c].at = "idle" /\ p.at = "binding" => Sent(c)'
  BY <1>0 DEF Sent
<1>5. \A d \in Call : Own(d, slot[d])'
  BY <1>0, <1>2, <1>3, OwnStays DEF ClientInv, Own
<1>6. \A d \in Call : d # c => Own(d, call[d].result)'
  BY <1>0, <1>2, OwnStays DEF ClientInv
<1>7. Own(c, p.result)'
  BY <1>0, <1>2, OwnStays DEF Own
<1>8. \A a \in answers : Own(a.to, a.result)'
  <2> SUFFICES ASSUME NEW a \in answers PROVE Own(a.to, a.result)'
    OBVIOUS
  <2>1. a.to \in Call /\ call[a.to].at # "idle"
    BY DEF ClientInv, ClientTypes
  <2> QED BY <1>0, <1>2, <2>1, OwnStays DEF ClientInv
<1>9. \A d \in Call :
        /\ call'[d].at \in {"binding", "waiting", "late"} \/ host[d] # "unaware" => Sent(d)'
        /\ host[d] = "guest" => proc[d].at # "idle" /\ proc[d].verb = call'[d].op
        /\ host[d] # "unaware" => call'[d].at # "idle"
        /\ call'[d].at = "idle" => call'[d].result = None /\ slot[d] = None
  BY <1>0, <1>3, <1>4 DEF ClientInv
<1> QED BY <1>0, <1>1, <1>5, <1>6, <1>7, <1>8, <1>9 DEF ClientInv

LEMMA BeginKeeps ==
  ASSUME ClientInv, NEW c \in Call, NEW op \in Requested, NEW arg \in View \cup {NoArg}, Begin(c, op, arg)
  PROVE  ClientInv'
<1>1. PICK why : why = Refusal(op, arg)
  OBVIOUS
<1>2. /\ why \in {"CapabilityMissing", "NotImplemented", "InvalidArguments", "none"}
      /\ why = "none" => op \in Implemented /\ CapabilityOf(op) \in Granted
  BY <1>1 DEF Refusal
<1>3. PICK p : p = [at |-> IF why = "none" THEN "binding" ELSE "done",
                    op |-> op, arg |-> arg, result |-> Failed(why)]
  OBVIOUS
<1>4. /\ p \in CallRecord /\ p.op = op /\ p.at \in {"binding", "done"} /\ p.result.kind # "ok"
      /\ p.at = "binding" => why = "none"
  BY <1>2, <1>3, ResultsAre, ClientAssumption DEF CallRecord
<1>5. call[c].at = "idle" /\ call' = [call EXCEPT ![c] = p] /\ UNCHANGED <<execVars, slot, host, answers>>
  BY <1>1, <1>3 DEF Begin
<1> QED BY <1>2, <1>4, <1>5, CallMoves

\* The calling thread.
LEMMA AppKeeps == ASSUME ClientInv, NEW c \in Call, App(c) PROVE ClientInv'
<1>0. call[c] \in CallRecord /\ Own(c, call[c].result) /\ Own(c, slot[c]) /\ slot[c] \in Result
  BY DEF ClientInv, ClientTypes, CallRecord
<1>1. ASSUME NEW step \in {"waiting", "late"}, call[c].at \in {"binding", "waiting"},
             call' = [call EXCEPT ![c].at = step], UNCHANGED <<execVars, slot, host, answers>>
      PROVE  ClientInv'
  <2>1. PICK p : p = [call[c] EXCEPT !.at = step]
    OBVIOUS
  <2>2. p \in CallRecord /\ p.at = step /\ p.op = call[c].op /\ p.result = call[c].result
    BY <1>0, <2>1 DEF CallRecord
  <2> QED BY <1>0, <1>1, <2>1, <2>2, CallMoves
<1>2. ASSUME NEW r \in Result, Own(c, r), call[c].at \in {"binding", "waiting", "late"},
             End(c, r), UNCHANGED <<execVars, slot, host, answers>>
      PROVE  ClientInv'
  <2>1. PICK p : p = [call[c] EXCEPT !.at = "done", !.result = r]
    OBVIOUS
  <2>2. p \in CallRecord /\ p.at = "done" /\ p.op = call[c].op /\ p.result = r
    BY <1>0, <2>1 DEF CallRecord
  <2>3. call' = [call EXCEPT ![c] = p]
    BY <1>2, <2>1 DEF End, ClientInv, ClientTypes
  <2> QED BY <1>2, <2>2, <2>3, CallMoves
<1>3. \A why \in {"BridgeUnavailable", "thrown", "TIMEOUT"} : Failed(why) \in Result /\ Own(c, Failed(why))
  BY ResultsAre DEF Own
<1>4. CASE Bound(c) \/ Deadline(c)
  BY <1>1, <1>4 DEF Bound, Deadline
<1>5. CASE BinderDies(c) \/ BinderThrows(c) \/ GiveUp(c)
  BY <1>2, <1>3, <1>5 DEF BinderDies, BinderThrows, GiveUp
<1>6. CASE Wake(c)
  BY <1>0, <1>2, <1>6 DEF Wake
<1> QED BY <1>4, <1>5, <1>6 DEF App

\* The binder thread: a callback reaches the call it answers or nobody.
LEMMA DeliverKeeps == ASSUME ClientInv, NEW a \in answers, Deliver(a) PROVE ClientInv'
<1>0. /\ a.to \in Call /\ a.result \in Result /\ Own(a.to, a.result) /\ call[a.to].at # "idle"
      /\ UNCHANGED <<call, host, proc, out, served>> /\ answers' \subseteq answers /\ ClientTypes
  BY DEF Deliver, ClientInv, ClientTypes, execVars, guestVars, runtimeVars
<1>1. slot' = [c \in Call |-> slot'[c]] /\ \A c \in Call : slot'[c] = slot[c] \/ (c = a.to /\ slot'[c] = a.result)
  BY DEF Deliver, HandlerOf
<1>2. ClientTypes'
  BY <1>0, <1>1 DEF ClientTypes
<1>3. Settled /\ \A c \in Call : Sent(c)' <=> Sent(c)
  BY <1>0 DEF Settled, Sent
<1>4. ASSUME NEW c \in Call PROVE Own(c, slot[c])' /\ Own(c, call[c].result)'
  <2>1. PICK r : r = slot'[c]
    OBVIOUS
  <2>2. Own(c, r)
    BY <1>0, <1>1, <2>1 DEF ClientInv
  <2>3. Own(c, r)'
    BY <1>0, <1>3, <2>2, OwnStays
  <2> QED BY <1>0, <1>3, <2>1, <2>3, OwnStays DEF ClientInv
<1>5. \A b \in answers : Own(b.to, b.result)'
  BY <1>0, <1>3, OwnStays DEF ClientInv, ClientTypes
<1>6. \A c \in Call : call[c].at = "idle" => slot'[c] = None
  BY <1>0, <1>1 DEF ClientInv
<1> QED BY <1>0, <1>2, <1>3, <1>4, <1>5, <1>6 DEF ClientInv

\* The host goes on with a call.
LEMMA HostMoves ==
  ASSUME ClientInv, Settled, NEW c \in Call, NEW step \in {"accepted", "guest", "answered", "gone"},
         host' = [host EXCEPT ![c] = step], UNCHANGED clientVars,
         host[c] # "unaware" \/ call[c].at = "binding", host[c] # "answered",
         step = "guest" => proc'[c].at # "idle" /\ proc'[c].verb = call[c].op,
         \/ UNCHANGED answers
         \/ /\ step = "answered"
            /\ \E r \in Result : Own(c, r)' /\ answers' = answers \cup {[to |-> c, result |-> r]}
  PROVE  ClientInv'
<1>0. /\ UNCHANGED <<call, pending, slot>> /\ ClientTypes
      /\ host'[c] = step /\ \A d \in Call : d # c => host'[d] = host[d]
  BY DEF ClientInv, ClientTypes, clientVars
<1>1. ClientTypes'
  BY <1>0 DEF ClientTypes
<1>2. \A d \in Call : Sent(d)' <=> Sent(d)
  BY <1>0 DEF Sent
<1>3. \A d \in Call : Own(d, slot[d])' /\ Own(d, call[d].result)'
  BY <1>0, OwnStays DEF ClientInv
<1>4. ASSUME NEW a \in answers' PROVE Own(a.to, a.result)' /\ host'[a.to] = "answered"
  <2>1. CASE a \in answers
    <3>1. a.to \in Call /\ a.to # c /\ Own(a.to, a.result) /\ host[a.to] = "answered"
      BY <1>0, <2>1 DEF ClientInv, ClientTypes
    <3> QED BY <1>0, <3>1, OwnStays
  <2>2. CASE a \notin answers
    <3> PICK r \in Result : Own(c, r)' /\ a = [to |-> c, result |-> r] /\ step = "answered"
      BY <1>4, <2>2
    <3>1. a.to = c /\ a.result = r
      OBVIOUS
    <3> QED BY <1>0, <3>1
  <2> QED BY <2>1, <2>2
<1>5. \A d \in Call : host[d] = "guest" => proc'[d].at # "idle" /\ proc'[d].verb = call[d].op
  BY ClientAssumption DEF ClientInv, Settled
<1>6. \A d \in Call :
        /\ call[d].at \in {"binding", "waiting", "late"} \/ host'[d] # "unaware" => Sent(d)'
        /\ host'[d] = "guest" => proc'[d].at # "idle" /\ proc'[d].verb = call[d].op
        /\ host'[d] # "unaware" => call[d].at # "idle"
  BY <1>0, <1>2, <1>5 DEF ClientInv
<1> QED BY <1>0, <1>1, <1>3, <1>4, <1>6 DEF ClientInv

\* The host may refuse, forget, or send what its invocation left.
LEMMA HostKeeps ==
  ASSUME ExecInv, ClientInv, NEW c \in Call, Host(c)
  PROVE  ExecInv' /\ ClientInv' /\ Settled /\ Unbegun(Exec \ Call)
<1>0. c \in Exec /\ host[c] \in {"unaware", "accepted", "guest", "answered", "gone"}
  BY ClientAssumption DEF ClientInv, ClientTypes
<1>1. CASE ~HostRuns(c) /\ UNCHANGED execVars
  <2>0. ExecInv' /\ Settled /\ Unbegun(Exec \ Call) /\ UNCHANGED <<proc, out, served>>
    <3>1. ExecInv' /\ UNCHANGED <<proc, out, served>>
      BY <1>1 DEF execVars, guestVars, runtimeVars, ExecInv, ExecTypes, Honest
    <3> QED BY <3>1 DEF Settled, Unbegun
  <2>1. CASE HostTakes(c)
    BY <2>0, <2>1, HostMoves DEF HostTakes
  <2>2. CASE HostForgets(c)
    BY <2>0, <2>2, HostMoves DEF HostForgets
  <2>3. ASSUME NEW r \in Result, Own(c, r), host[c] \in {"accepted", "guest"}, Send(c, r), UNCHANGED clientVars
        PROVE  ClientInv'
    <3>1. Own(c, r)'
      <4>1. r.kind = "ok" => call'[c].op = call[c].op
        BY <2>3 DEF clientVars
      <4> QED BY <2>0, <2>3, <4>1, OwnStays
    <3>2. /\ host' = [host EXCEPT ![c] = "answered"]
          /\ \E s \in Result : Own(c, s)' /\ answers' = answers \cup {[to |-> c, result |-> s]}
      BY <2>3, <3>1 DEF Send
    <3>3. host[c] # "unaware" /\ host[c] # "answered"
      BY <2>3
    <3> QED BY <2>0, <2>3, <3>2, <3>3, HostMoves
  <2>4. ASSUME NEW status \in Status, HostRefuses(c, status) PROVE ClientInv'
    <3>1. PICK why : why = Mapped(status)
      OBVIOUS
    <3>2. why \in {"Unauthenticated", "ConsentRequired", "CapabilityMissing", "ResultTooLarge",
                   "Malformed", "HostRefused"}
      BY <3>1 DEF Mapped
    <3>3. Failed(why) \in Result /\ Own(c, Failed(why))
      BY <3>2, ResultsAre DEF Own
    <3>4. Send(c, Failed(why)) /\ host[c] = "accepted" /\ UNCHANGED clientVars
      BY <2>4, <3>1 DEF HostRefuses
    <3> QED BY <2>3, <3>3, <3>4
  <2>5. CASE HostAnswers(c)
    <3>0. host[c] = "guest" /\ proc[c].at = "done" /\ UNCHANGED clientVars
      BY <2>5 DEF HostAnswers
    <3>1. PICK text : Send(c, FromDocument(c, call[c].op, text))
      BY <2>5 DEF HostAnswers
    <3>2. FromDocument(c, call[c].op, text) \in {Failed("undecodable"), Ok(c, out[c])}
      BY DEF FromDocument
    <3>3. Failed("undecodable") \in Result /\ Own(c, Failed("undecodable"))
      BY ResultsAre DEF Own
    <3>4. Ok(c, out[c]) \in Result /\ Own(c, Ok(c, out[c]))
      BY <1>0, <3>0, ResultsAre DEF Own, ExecInv, ExecTypes, ClientInv
    <3>5. PICK r : r = FromDocument(c, call[c].op, text)
      OBVIOUS
    <3>6. r \in Result /\ Own(c, r) /\ Send(c, r) /\ host[c] \in {"accepted", "guest"}
      BY <3>0, <3>1, <3>2, <3>3, <3>4, <3>5
    <3> QED BY <2>0, <2>3, <3>0, <3>6
  <2> QED BY <1>1, <2>0, <2>1, <2>2, <2>4, <2>5 DEF Host
<1>2. CASE HostRuns(c)
  <2>1. /\ host[c] = "accepted" /\ host' = [host EXCEPT ![c] = "guest"]
        /\ Invoke(c, call[c].op, call[c].arg) /\ UNCHANGED <<clientVars, answers>>
    BY <1>2 DEF HostRuns
  <2>2. call[c].op \in Verb /\ call[c].arg \in Arg
    BY <2>1 DEF ClientInv, ClientTypes, Sent, Implemented, Verb, Guarded, Arg
  <2>3. /\ ExecInv' /\ Settled /\ Unbegun(Exec \ {c})
        /\ proc'[c].at # "idle" /\ proc'[c].verb = call[c].op
    BY <1>0, <2>1, <2>2, InvokeKeeps, InvokeSettles DEF ExecInv
  <2>4. ClientInv'
    BY <2>1, <2>3, HostMoves
  <2>5. Unbegun(Exec \ Call)
    BY <2>3 DEF Unbegun
  <2> QED BY <2>3, <2>4, <2>5
<1>3. HostRuns(c) \/ (~HostRuns(c) /\ UNCHANGED execVars)
  BY DEF Host, HostTakes, HostAnswers, HostForgets, HostRefuses
<1> QED BY <1>1, <1>2, <1>3

-----------------------------------------------------------------------------
(* Launches. *)

LEMMA LaunchInit_Inv == ExecInit /\ LaunchInit => LaunchInv
<1> SUFFICES ASSUME ExecInit, LaunchInit PROVE LaunchInv
  OBVIOUS
<1>1. LaunchTypes
  BY DEF LaunchInit, LaunchTypes
<1>2. \A l \in Launcher :
        /\ at[l] = "idle" /\ result[l] = "none" /\ opened[l] = "nobody" /\ gui[l] = "none"
        /\ proc[l].at = "idle"
  BY LaunchAssumption DEF LaunchInit, ExecInit
<1> QED BY <1>1, <1>2 DEF LaunchInv, OfLaunch

\* A launch that does nothing while invocations go on and interfaces start.
LEMMA LaunchWaits ==
  ASSUME LaunchInv, Settled, NEW l \in Launcher,
         proc[l].at = "idle" => proc'[l].at = "idle",
         at'[l] = at[l], result'[l] = result[l], opened'[l] = opened[l],
         gui[l] = "none" => gui'[l] = "none",
         \A g \in Launcher : gui[g] = "crashed" => gui'[g] = "crashed",
         port' = port \/ port = NoGui
  PROVE  OfLaunch(l)'
<1>1. SameInstall(l) => SameInstall(l)'
  BY DEF SameInstall
<1>2. l \in Exec /\ OfLaunch(l)
  BY LaunchAssumption DEF LaunchInv
<1>3. (\A g \in Launcher : gui'[g] # "crashed") => \A g \in Launcher : gui[g] # "crashed"
  OBVIOUS
<1> QED BY <1>1, <1>2, <1>3 DEF OfLaunch, Settled

LEMMA LaunchRests ==
  ASSUME LaunchInv, Settled, Unbegun(Launcher), UNCHANGED launchVars
  PROVE  LaunchInv'
<1>1. UNCHANGED <<at, result, opened, config, gui, port, pidFile>>
  BY DEF launchVars
<1>2. LaunchTypes'
  BY <1>1 DEF LaunchInv, LaunchTypes
<1>3. ASSUME NEW l \in Launcher PROVE OfLaunch(l)'
  BY <1>1, LaunchWaits DEF Unbegun
<1> QED BY <1>2, <1>3 DEF LaunchInv

\* One launch takes a step on its way, or ends.
LEMMA LaunchMoves ==
  ASSUME LaunchInv, Settled, Unbegun(Launcher), NEW l \in Launcher, LaunchTypes',
         at[l] # "done", at[l] # "present",
         \A k \in Launcher \ {l} : at'[k] = at[k] /\ result'[k] = result[k] /\ gui'[k] = gui[k],
         UNCHANGED <<opened, port>>,
         at'[l] # "present", at'[l] # "done" => result'[l] = "none",
         gui'[l] = gui[l] \/ (gui[l] = "none" /\ gui'[l] = "starting"),
         at'[l] \in {"idle", "writing", "runtime", "ping", "spawn"} =>
           gui'[l] = "none",
         at'[l] = "open" \/ result'[l] = "ok" => SameInstall(l) \/ at[l] = "open"
  PROVE  LaunchInv'
<1>1. ASSUME NEW k \in Launcher, k # l PROVE OfLaunch(k)'
  <2>1. \A g \in Launcher : gui[g] = "crashed" => gui'[g] = "crashed"
    OBVIOUS
  <2> QED BY <1>1, <2>1, LaunchWaits DEF Unbegun
<1>2. OfLaunch(l)'
  <2>1. OfLaunch(l) /\ l \in Exec
    BY LaunchAssumption DEF LaunchInv
  <2>2. proc[l].at = "idle" /\ proc'[l].at = "idle"
    BY <2>1 DEF OfLaunch, Unbegun
  <2>3. SameInstall(l)' <=> SameInstall(l)
    BY DEF SameInstall
  <2>4. (\A g \in Launcher : gui'[g] # "crashed") => \A g \in Launcher : gui[g] # "crashed"
    OBVIOUS
  <2>5. opened'[l] = "bridge" => l \in served'
    BY <2>1 DEF OfLaunch, Settled
  <2> QED BY <2>1, <2>2, <2>3, <2>4, <2>5 DEF OfLaunch
<1> QED BY <1>1, <1>2 DEF LaunchInv

LEMMA ExecRests ==
  ASSUME ExecInv, UNCHANGED execVars
  PROVE  ExecInv' /\ Settled /\ Unbegun(Exec) /\ Unbegun(Launcher)
<1>1. UNCHANGED <<proc, out, inbox, response, runtime, copies, served, performed, deaths>>
  BY DEF execVars, guestVars, runtimeVars
<1>2. ExecInv'
  BY <1>1 DEF ExecInv, ExecTypes, Honest
<1> QED BY <1>1, <1>2, LaunchAssumption DEF Settled, Unbegun

\* The way to the interface.
LEMMA EarlyStepsKeep ==
  ASSUME ExecInv, LaunchInv, NEW l \in Launcher,
         LoadConfig(l) \/ WriteConfig(l) \/ EnsureRuntime(l) \/ Ping(l) \/ SpawnGui(l) \/ WritePid(l) \/ Watch(l)
  PROVE  ExecInv' /\ LaunchInv' /\ Settled /\ Unbegun(Exec \ Launcher)
<1>0. /\ LaunchTypes /\ OfLaunch(l) /\ InstallOf[l] \in Install /\ UNCHANGED <<opened, port>>
      /\ at[l] # "done" => result[l] = "none"
  BY DEF LaunchInv, OfLaunch, Install, LoadConfig, WriteConfig, EnsureRuntime, Ping, SpawnGui, WritePid, Watch
<1>1. ExecInv' /\ Settled /\ Unbegun(Launcher) /\ Unbegun(Exec \ Launcher)
  <2>1. CASE UNCHANGED execVars
    BY <2>1, ExecRests DEF Unbegun
  <2>2. CASE Start
    BY <2>2, RuntimeKeeps, RuntimeSettles, LaunchAssumption DEF Runtime, ExecInv, Unbegun
  <2> QED BY <2>1, <2>2 DEF LoadConfig, WriteConfig, EnsureRuntime, Ping, SpawnGui, WritePid, Watch
<1>2. ASSUME NEW next \in {"writing", "runtime", "ping", "spawn", "pid", "watch", "open"}, Goto(l, next)
      PROVE  /\ at' = [at EXCEPT ![l] = next] /\ result' = result
             /\ at'[l] = next /\ \A k \in Launcher \ {l} : at'[k] = at[k]
  BY <1>0, <1>2 DEF Goto, LaunchTypes
<1>3. ASSUME NEW how \in {"error", "crashed"}, EndAs(l, how)
      PROVE  /\ at' = [at EXCEPT ![l] = "done"] /\ result' = [result EXCEPT ![l] = how]
             /\ at'[l] = "done" /\ result'[l] = how
             /\ \A k \in Launcher \ {l} : at'[k] = at[k] /\ result'[k] = result[k]
  BY <1>0, <1>3 DEF EndAs, LaunchTypes
\* A step that leaves the interfaces alone.
<1>4. ASSUME at[l] \in {"idle", "writing", "runtime", "ping", "pid", "watch"}, UNCHANGED gui,
             config' \in [Install -> {"absent", "empty", "whole"}],
             pidFile' \in [Install -> Launcher \cup {NoGui}],
             \/ \E how \in {"error", "crashed"} : EndAs(l, how)
             \/ \E next \in {"writing", "runtime", "ping", "spawn"} :
                  Goto(l, next) /\ at[l] \in {"idle", "writing", "runtime", "ping"}
             \/ at[l] = "pid" /\ Goto(l, "watch")
             \/ Goto(l, "open") /\ SameInstall(l)
      PROVE  LaunchInv'
  <2>1. CASE \E how \in {"error", "crashed"} : EndAs(l, how)
    <3>1. LaunchTypes'
      BY <1>0, <1>3, <1>4, <2>1 DEF LaunchTypes
    <3> QED BY <1>0, <1>1, <1>3, <1>4, <2>1, <3>1, LaunchMoves
  <2>2. ASSUME NEW next \in {"writing", "runtime", "ping", "spawn", "watch", "open"}, Goto(l, next),
               next \in {"writing", "runtime", "ping", "spawn"} =>
                 at[l] \in {"idle", "writing", "runtime", "ping"},
               next = "open" => SameInstall(l)
        PROVE  LaunchInv'
    <3>1. LaunchTypes'
      BY <1>0, <1>2, <1>4, <2>2 DEF LaunchTypes
    <3>2. next \in {"writing", "runtime", "ping", "spawn"} => gui[l] = "none"
      BY <1>0, <2>2 DEF OfLaunch
    <3>3. at'[l] = next /\ result' = result /\ result'[l] = "none"
      BY <1>0, <1>2, <1>4, <2>2
    <3> QED BY <1>0, <1>1, <1>2, <1>4, <2>2, <3>1, <3>2, <3>3, LaunchMoves
  <2> QED BY <1>4, <2>1, <2>2
<1>5. CASE LoadConfig(l)
  <2>1. at[l] = "idle" /\ UNCHANGED <<gui, pidFile>> /\ config' \in {config, [config EXCEPT ![InstallOf[l]] = "empty"]}
    BY <1>5 DEF LoadConfig
  <2>2. config[InstallOf[l]] \in {"absent", "empty", "whole"}
    BY <1>0 DEF LaunchTypes
  <2>3. Goto(l, "writing") \/ EndAs(l, "crashed") \/ Goto(l, "runtime")
    BY <1>5, <2>2 DEF LoadConfig, Load
  <2> QED BY <1>0, <1>1, <1>4, <2>1, <2>3 DEF LaunchTypes
<1>6. CASE WriteConfig(l)
  BY <1>0, <1>1, <1>4, <1>6 DEF WriteConfig, LaunchTypes
<1>7. CASE EnsureRuntime(l)
  <2>1. at[l] = "runtime" /\ UNCHANGED <<gui, config, pidFile>> /\ (Goto(l, "ping") \/ EndAs(l, "error"))
    BY <1>7 DEF EnsureRuntime
  <2> QED BY <1>0, <1>1, <1>4, <2>1 DEF LaunchTypes
<1>8. CASE Ping(l)
  <2>1. /\ at[l] = "ping" /\ UNCHANGED <<gui, config, pidFile>>
        /\ Goto(l, "spawn") \/ (SameInstall(l) /\ Goto(l, "open")) \/ EndAs(l, "error")
    BY <1>8 DEF Ping
  <2> QED BY <1>0, <1>1, <1>4, <2>1 DEF LaunchTypes
<1>9. CASE SpawnGui(l)
  <2>1. /\ at[l] = "spawn" /\ Goto(l, "pid") /\ gui' = [gui EXCEPT ![l] = "starting"]
        /\ UNCHANGED <<config, pidFile>>
    BY <1>9 DEF SpawnGui
  <2>2. /\ at'[l] = "pid" /\ result' = result /\ result'[l] = "none"
        /\ gui[l] = "none" /\ gui'[l] = "starting" /\ \A k \in Launcher \ {l} : gui'[k] = gui[k]
    BY <1>0, <1>2, <2>1 DEF OfLaunch, LaunchTypes
  <2>3. LaunchTypes'
    BY <1>0, <1>2, <2>1 DEF LaunchTypes
  <2> QED BY <1>0, <1>1, <1>2, <2>1, <2>2, <2>3, LaunchMoves
<1>10. CASE WritePid(l)
  BY <1>0, <1>1, <1>4, <1>10 DEF WritePid, LaunchTypes
<1>11. CASE Watch(l)
  BY <1>0, <1>1, <1>4, <1>11 DEF Watch, LaunchTypes
<1> QED BY <1>5, <1>6, <1>7, <1>8, <1>9, <1>10, <1>11

\* A launch ends well once it has seen its interface.
LEMMA EndsWell ==
  ASSUME ExecInv, LaunchInv, NEW l \in Launcher, at[l] \in {"open", "present"}, EndAs(l, "ok"),
         NEW who \in {"nobody", "host", "desktop", "bridge"},
         opened' = [opened EXCEPT ![l] = who], who = "bridge" => l \in served,
         UNCHANGED <<config, gui, port, pidFile, execVars>>
  PROVE  LaunchInv'
<1>0. /\ LaunchTypes /\ OfLaunch(l) /\ UNCHANGED <<proc, served>>
      /\ Settled /\ Unbegun(Launcher)
  BY ExecRests DEF LaunchInv, execVars, guestVars, runtimeVars
<1>1. /\ at'[l] = "done" /\ result'[l] = "ok" /\ opened'[l] = who
      /\ \A k \in Launcher \ {l} : at'[k] = at[k] /\ result'[k] = result[k] /\ opened'[k] = opened[k]
  BY <1>0 DEF EndAs, LaunchTypes
<1>2. LaunchTypes'
  BY <1>0 DEF EndAs, LaunchTypes
<1>3. ASSUME NEW k \in Launcher, k # l PROVE OfLaunch(k)'
  BY <1>0, <1>1, <1>3, LaunchWaits DEF Unbegun
<1>4. OfLaunch(l)'
  <2>1. SameInstall(l)' <=> SameInstall(l)
    BY DEF SameInstall
  <2> QED BY <1>0, <1>1, <2>1 DEF OfLaunch
<1> QED BY <1>2, <1>3, <1>4 DEF LaunchInv

LEMMA OpenKeeps ==
  ASSUME ExecInv, LaunchInv, NEW l \in Launcher, Open(l)
  PROVE  ExecInv' /\ LaunchInv' /\ Settled /\ Unbegun(Exec \ Launcher)
<1>0. /\ at[l] = "open" /\ l \in Exec /\ LaunchTypes /\ OfLaunch(l) /\ UNCHANGED <<config, gui, port, pidFile>>
  BY LaunchAssumption DEF Open, LaunchInv
<1>1. CASE EndAs(l, "ok") /\ UNCHANGED execVars /\ (UNCHANGED opened \/ opened' = [opened EXCEPT ![l] = "host"])
  <2>1. ExecInv' /\ Settled /\ Unbegun(Exec \ Launcher)
    BY <1>1, ExecRests DEF Unbegun
  <2>2. PICK who \in {"nobody", "host", "desktop", "bridge"} :
          opened' = [opened EXCEPT ![l] = who] /\ (who = "bridge" => l \in served)
    <3>1. opened = [opened EXCEPT ![l] = opened[l]] /\ opened[l] \in {"nobody", "host", "desktop", "bridge"}
      BY <1>0 DEF LaunchTypes
    <3>2. opened[l] = "bridge" => l \in served
      BY <1>0 DEF OfLaunch
    <3> QED BY <1>1, <3>1, <3>2
  <2>3. LaunchInv'
    BY <1>0, <1>1, <2>2, EndsWell
  <2> QED BY <2>1, <2>3
<1>2. CASE Goto(l, "present") /\ Invoke(l, "present", NoArg) /\ UNCHANGED opened
  <2>1. "present" \in Verb /\ NoArg \in Arg
    BY DEF Verb, Guarded, Arg
  <2>2. /\ ExecInv' /\ Settled /\ Unbegun(Exec \ {l})
        /\ proc'[l].at # "idle" /\ proc'[l].verb = "present"
    BY <1>0, <1>2, <2>1, InvokeKeeps, InvokeSettles DEF ExecInv
  <2>3. Unbegun(Exec \ Launcher)
    BY <2>2 DEF Unbegun
  <2>4. /\ at'[l] = "present" /\ result' = result
        /\ \A k \in Launcher \ {l} : at'[k] = at[k] /\ (proc[k].at = "idle" => proc'[k].at = "idle")
    BY <1>0, <1>2, <2>2, LaunchAssumption DEF Goto, LaunchTypes, Unbegun
  <2>5. LaunchTypes'
    BY <1>0, <1>2 DEF Goto, LaunchTypes
  <2>6. ASSUME NEW k \in Launcher, k # l PROVE OfLaunch(k)'
    BY <1>0, <1>2, <2>2, <2>4, <2>6, LaunchWaits
  <2>7. OfLaunch(l)'
    <3>1. SameInstall(l)' <=> SameInstall(l)
      BY <1>0 DEF SameInstall
    <3>2. l \in served => l \in served'
      BY <2>2 DEF Settled
    <3> QED BY <1>0, <1>2, <2>2, <2>4, <3>1, <3>2 DEF OfLaunch
  <2> QED BY <2>2, <2>3, <2>5, <2>6, <2>7 DEF LaunchInv
<1> QED BY <1>1, <1>2 DEF Open

\* `present` was answered by a runtime, or something else shows the interface.
LEMMA PresentKeeps ==
  ASSUME ExecInv, LaunchInv, NEW l \in Launcher, Present(l)
  PROVE  ExecInv' /\ LaunchInv' /\ Settled /\ Unbegun(Exec \ Launcher)
<1>0. /\ at[l] = "present" /\ l \in Exec /\ OfLaunch(l) /\ Honest(l) /\ EndAs(l, "ok")
      /\ UNCHANGED <<config, gui, port, pidFile, execVars>>
  BY LaunchAssumption DEF Present, LaunchInv, ExecInv
<1>1. ExecInv' /\ Settled /\ Unbegun(Exec \ Launcher)
  BY <1>0, ExecRests DEF Unbegun
<1>2. proc[l].at = "done" /\ Ready(l) => l \in served
  BY <1>0 DEF Ready, Honest, OfLaunch, Local
<1>3. PICK who \in {"nobody", "host", "desktop", "bridge"} :
        opened' = [opened EXCEPT ![l] = who] /\ (who = "bridge" => l \in served)
  BY <1>2 DEF Present
<1>4. LaunchInv'
  BY <1>0, <1>3, EndsWell
<1> QED BY <1>1, <1>4

\* An interface that loses the race for the port dies; one that crashes is
\* the only way a port that answered stops answering.
LEMMA GuiKeeps ==
  ASSUME ExecInv, LaunchInv, NEW g \in Launcher, Bind(g) \/ GuiDies(g)
  PROVE  ExecInv' /\ LaunchInv' /\ Settled /\ Unbegun(Exec)
<1>0. LaunchTypes /\ UNCHANGED <<at, result, opened, config, pidFile>>
  BY DEF LaunchInv, Bind, GuiDies
<1>1. ExecInv' /\ Settled /\ Unbegun(Exec)
  <2>1. CASE Bind(g)
    BY <2>1, ExecRests DEF Bind
  <2>2. CASE GuiDies(g)
    <3>1. /\ UNCHANGED <<guestVars, inbox, response, served, performed, runtime, copies>>
          /\ deaths' = deaths + 1
      BY <2>2 DEF GuiDies
    <3> QED BY <3>1, LifeKeeps, QuietSettles DEF ExecInv, ExecTypes
  <2> QED BY <2>1, <2>2
<1>2. CASE Bind(g)
  <2>1. PICK state \in {"serving", "dead"} : gui' = [gui EXCEPT ![g] = state]
    BY <1>2 DEF Bind
  <2>2. gui[g] = "starting" /\ (port' = port \/ port = NoGui) /\ port' \in Launcher \cup {NoGui}
    BY <1>0, <1>2 DEF Bind, LaunchTypes
  <2>3. LaunchTypes'
    BY <1>0, <2>1, <2>2 DEF LaunchTypes
  <2>4. /\ \A k \in Launcher : gui[k] = "none" => gui'[k] = "none"
        /\ \A k \in Launcher : gui[k] = "crashed" => gui'[k] = "crashed"
    BY <1>0, <2>1, <2>2 DEF LaunchTypes
  <2>5. ASSUME NEW l \in Launcher PROVE OfLaunch(l)'
    BY <1>0, <1>1, <2>2, <2>4, LaunchWaits, LaunchAssumption DEF Unbegun
  <2> QED BY <1>1, <2>3, <2>5 DEF LaunchInv
<1>3. CASE GuiDies(g)
  <2>1. gui[g] = "serving" /\ gui' = [gui EXCEPT ![g] = "crashed"] /\ port' = NoGui
    BY <1>3 DEF GuiDies
  <2>2. LaunchTypes' /\ gui'[g] = "crashed" /\ \A k \in Launcher : gui[k] = "none" => gui'[k] = "none"
    BY <1>0, <2>1 DEF LaunchTypes
  <2>3. ASSUME NEW l \in Launcher PROVE OfLaunch(l)'
    <3>1. OfLaunch(l) /\ l \in Exec
      BY LaunchAssumption DEF LaunchInv
    <3> QED BY <1>0, <1>1, <2>2, <3>1 DEF OfLaunch, Settled, Unbegun
  <2> QED BY <1>1, <2>2, <2>3 DEF LaunchInv
<1> QED BY <1>2, <1>3

-----------------------------------------------------------------------------
(* The surfaces together. *)

LEMMA InitEstablishes == Init => IInv
  BY ExecInit_Inv, ClientInit_Inv, LaunchInit_Inv DEF Init, IInv

LEMMA NextKeeps == IInv /\ [Next]_vars => IInv'
<1> SUFFICES ASSUME ExecInv, ClientInv, LaunchInv, [Next]_vars PROVE IInv'
  BY DEF IInv
<1>0. ExecTypes /\ Call \subseteq Exec /\ Launcher \subseteq Exec \ Call
  BY ClientAssumption, LaunchAssumption, SurfacesAssumption DEF ExecInv
<1>1. CASE AppCalls
  <2>1. PICK c \in Call, op \in Requested, arg \in View \cup {NoArg} : Begin(c, op, arg)
    BY <1>1 DEF AppCalls
  <2>2. UNCHANGED execVars /\ UNCHANGED launchVars
    BY <1>1, <2>1 DEF AppCalls, Begin
  <2> QED BY <2>1, <2>2, BeginKeeps, ExecRests, LaunchRests DEF IInv
<1>2. CASE PrincipalAsks
  <2>1. PICK e \in Principal, asked \in Asked : Invoke(e, asked[1], asked[2])
    BY <1>2 DEF PrincipalAsks
  <2>2. e \in Exec \ (Call \cup Launcher) /\ asked[1] \in Verb /\ asked[2] \in Arg
    BY SurfacesAssumption DEF Principal
  <2>3. ExecInv' /\ Settled /\ Unbegun(Exec \ {e})
    BY <1>0, <2>1, <2>2, InvokeKeeps, InvokeSettles
  <2>4. Unbegun(Launcher)
    BY <1>0, <2>2, <2>3 DEF Unbegun
  <2>5. UNCHANGED <<bridgeVars, launchVars>>
    BY <1>2 DEF PrincipalAsks
  <2> QED BY <2>3, <2>4, <2>5, ClientRests, LaunchRests DEF IInv
<1>3. CASE Callback
  <2>1. PICK a \in answers : Deliver(a)
    BY <1>3 DEF Callback
  <2>2. UNCHANGED execVars /\ UNCHANGED launchVars
    BY <1>3, <2>1 DEF Callback, Deliver
  <2> QED BY <2>1, <2>2, DeliverKeeps, ExecRests, LaunchRests DEF IInv
<1>4. CASE RuntimeStep
  <2>1. Settled /\ Unbegun(Launcher)
    BY <1>0, <1>4, RuntimeSettles DEF RuntimeStep, Unbegun
  <2> QED BY <1>4, <2>1, RuntimeKeeps, ClientRests, LaunchRests DEF RuntimeStep, IInv
<1>5. ASSUME NEW c \in Call, AppStep(c) PROVE IInv'
  <2>1. App(c) /\ UNCHANGED execVars /\ UNCHANGED launchVars
    BY <1>5 DEF AppStep, App, Bound, BinderDies, BinderThrows, Wake, Deadline, GiveUp
  <2> QED BY <2>1, AppKeeps, ExecRests, LaunchRests DEF IInv
<1>6. ASSUME NEW c \in Call, HostStep(c) PROVE IInv'
  <2>1. ExecInv' /\ ClientInv' /\ Settled /\ Unbegun(Launcher)
    BY <1>0, <1>6, HostKeeps DEF HostStep, Unbegun
  <2> QED BY <1>6, <2>1, LaunchRests DEF HostStep, IInv
<1>7. ASSUME NEW e \in Exec, GuestStep(e) PROVE IInv'
  <2>1. ExecInv' /\ Settled /\ Unbegun(Launcher)
    BY <1>0, <1>7, GuestKeeps, GuestSettles DEF GuestStep, Unbegun
  <2> QED BY <1>7, <2>1, ClientRests, LaunchRests DEF GuestStep, IInv
<1>8. ASSUME NEW l \in Launcher, Launching(l) PROVE IInv'
  <2>1. ExecInv' /\ LaunchInv' /\ Settled
    BY <1>8, EarlyStepsKeep, OpenKeeps, PresentKeeps DEF Launching, LaunchStep
  <2> QED BY <1>8, <2>1, ClientRests DEF Launching, IInv
<1>9. ASSUME NEW l \in Launcher, GuiStep(l) PROVE IInv'
  BY <1>9, GuiKeeps, ClientRests DEF GuiStep, IInv
<1>10. CASE UNCHANGED vars
  BY <1>10, ExecRests, ClientRests, LaunchRests DEF vars, IInv
<1> QED BY <1>1, <1>2, <1>3, <1>4, <1>5, <1>6, <1>7, <1>8, <1>9, <1>10 DEF Next

LEMMA Invariance == Spec => []IInv
  BY InitEstablishes, NextKeeps, PTL DEF Spec

(* What `buster exec` prints and returns can be believed: a document that says
   that a runtime is there was made from its answer to this invocation, and the
   exit code of a control says whether it was carried out. *)
THEOREM DocumentsCanBeBelieved == Spec => []DocumentsAreHonest
<1>1. IInv => DocumentsAreHonest
  <2> SUFFICES ASSUME IInv PROVE DeployedMeansServed /\ ControlIsHonest
    BY DEF DocumentsAreHonest
  <2>1. DeployedMeansServed
    <3>1. \A e \in Exec : out[e].live /\ proc[e].verb \notin Local => e \in served
      BY DEF IInv, ExecInv, Honest
    <3>2. ASSUME NEW c \in Call, call[c].result.kind = "ok", call[c].result.document.live
          PROVE  c \in served
      <4>1. out[c].live /\ proc[c].verb \in Implemented /\ c \in Exec
        BY <3>2, ClientAssumption DEF IInv, ClientInv, Own, Sent
      <4> QED BY <3>1, <4>1 DEF Implemented, Local
    <3> QED BY <3>1, <3>2 DEF DeployedMeansServed
  <2>2. ASSUME NEW e \in Exec, proc[e].at = "done"
        PROVE  /\ out[e].code = 0 /\ proc[e].verb \in Control => performed[e] >= 1
               /\ performed[e] <= 1 + deaths
               /\ out[e].code = 2 => e \notin served \cup inbox
               /\ performed[e] > 0 => proc[e].arg \in Catalog
    BY <2>2 DEF IInv, ExecInv, ExecTypes, Honest
  <2> QED BY <2>1, <2>2 DEF ControlIsHonest
<1> QED BY <1>1, Invariance, PTL

(* A call of the app that ends well has the document of its own invocation, and
   its capability was granted. *)
THEOREM AnswersReachTheirCalls == Spec => []AnswerIsOwn
<1>1. IInv => AnswerIsOwn
  BY DEF IInv, ClientInv, Own, Sent, AnswerIsOwn
<1> QED BY <1>1, Invariance, PTL

(* A launch that reports an interface of its install has one, and one that says
   that the bridge presented it was answered by a runtime. *)
THEOREM LaunchesReportTheTruth == Spec => []LaunchIsHonest
<1>1. IInv => LaunchIsHonest
  BY DEF IInv, LaunchInv, OfLaunch, SameInstall, LaunchIsHonest, LaunchMeansInterface, PresentedMeansServed
<1> QED BY <1>1, Invariance, PTL
=============================================================================
