----------------------------- MODULE ExecBridge -----------------------------
(***************************************************************************)
(* `buster exec <verb> [<name>]`, buster/exec.py: the guest's half of the  *)
(* bridge.  Every invocation is a process of its own that parses its       *)
(* arguments, asks whether a runtime is online, makes at most one remote   *)
(* call and leaves one document and an exit code.  The runtime answers     *)
(* from its service catalog (buster/runtime.py).                           *)
(*                                                                         *)
(* The file channel is RpcChannel's, seen from here: a request waits in    *)
(* the inbox, is executed with its response in one step, and stays there   *)
(* when its caller gives up or when the runtime dies before removing it.   *)
(* Nothing in the program spawns an agent, so the catalog has the kernel's *)
(* own services and the scheduler's jobs.                                  *)
(***************************************************************************)
EXTENDS Integers, FiniteSets

CONSTANTS
  Exec,       \* invocations
  Kernel,     \* names of _KERNEL_SERVICES
  Periodic,   \* names of periodic jobs
  OneShot,    \* names of one-shot jobs
  Stranger,   \* well-formed names the catalog does not have
  View,       \* READ_VIEWS
  NoArg,      \* the verb stands alone
  BadArg,     \* too many arguments, or a name outside the grammar
  MaxDeaths   \* bound on the runtimes that die

Catalog == Kernel \cup Periodic \cup OneShot
Arg == Catalog \cup Stranger \cup View \cup {NoArg, BadArg}

ASSUME ExecAssumption ==
  /\ IsFiniteSet(Exec) /\ IsFiniteSet(Arg) /\ MaxDeaths \in Nat
  /\ Kernel \cap Periodic = {} /\ Catalog \cap (Stranger \cup View) = {}
  /\ {NoArg, BadArg} \cap (Catalog \cup Stranger \cup View) = {} /\ NoArg # BadArg

Local == {"ping", "health"}                     \* no remote call
Bare == Local \cup {"status", "services", "capabilities"}
Guarded == {"present", "deployment", "read"}    \* a failed call is a document
Control == {"service-start", "service-restart"}
OnService == Control \cup {"service-status"}
Verb == Bare \cup Guarded \cup OnService \cup {"unknown"}

VARIABLES
  proc,       \* where each invocation is, its verb and its argument
  out,        \* its exit code; its document's `ok`; whether the document says
              \* that a runtime is there (online, ready, deployed, data)
  runtime,    \* "down", "running", or "stopping": alive but not serving
  inbox,      \* invocations with a request file
  response,   \* the response file: "none", "ok" or "refused"
  copies,     \* how many scheduler jobs bear each periodic name
  served,     \* history: invocations whose request was executed
  performed,  \* history: how often each control was carried out
  deaths      \* number of deaths so far

guestVars == <<proc, out>>
runtimeVars == <<runtime, copies, served, performed, deaths>>
execVars == <<guestVars, inbox, response, runtimeVars>>

NoOut == [code |-> -1, ok |-> FALSE, live |-> FALSE]
Answer(code, ok, live) == [code |-> code, ok |-> ok, live |-> live]

ExecInit ==
  /\ proc = [e \in Exec |-> [at |-> "idle", verb |-> "unknown", arg |-> NoArg]]
  /\ out = [e \in Exec |-> NoOut]
  /\ runtime = "running"
  /\ inbox = {}
  /\ response = [e \in Exec |-> "none"]
  /\ copies = [j \in Periodic |-> 1]
  /\ served = {}
  /\ performed = [e \in Exec |-> 0]
  /\ deaths = 0

-----------------------------------------------------------------------------
(* The invocation                                                          *)

\* What exec_main refuses before anything is resolved or touched.
WellFormed(verb, arg) ==
  \/ verb \in OnService /\ arg \notin {NoArg, BadArg}
  \/ verb = "read" /\ arg \in View
  \/ verb \in Bare \cup {"present", "deployment"} /\ arg = NoArg

Finish(e, answer) ==
  /\ proc' = [proc EXCEPT ![e].at = "done"]
  /\ out' = [out EXCEPT ![e] = answer]

Invoke(e, verb, arg) ==
  /\ proc[e].at = "idle"
  /\ LET ok == WellFormed(verb, arg) IN
     /\ proc' = [proc EXCEPT ![e] = [at |-> IF ok THEN "parsed" ELSE "done",
                                     verb |-> verb, arg |-> arg]]
     /\ out' = IF ok THEN out ELSE [out EXCEPT ![e] = Answer(2, FALSE, FALSE)]
  /\ UNCHANGED <<inbox, response, runtimeVars>>

\* The documents made without a runtime, and the control verbs' refusal.
OfflineAnswer(verb) ==
  IF verb \in OnService THEN Answer(1, FALSE, FALSE)
  ELSE Answer(0, verb # "read", FALSE)

\* _client: is_online() reads the lock and looks for its process.
Connect(e) ==
  /\ proc[e].at = "parsed"
  /\ LET online == runtime # "down" IN
     CASE proc[e].verb \in Local -> Finish(e, Answer(0, TRUE, online))
       [] proc[e].verb \notin Local /\ ~online ->
            Finish(e, OfflineAnswer(proc[e].verb))
       [] OTHER -> /\ proc' = [proc EXCEPT ![e].at = "online"]
                   /\ UNCHANGED out
  /\ UNCHANGED <<inbox, response, runtimeVars>>

\* Mutated form: the guarded documents claim a runtime when the call failed.
FailureClaimsLife(verb) ==
  IF verb \in Guarded THEN Answer(0, verb # "read", TRUE) ELSE Answer(1, FALSE, FALSE)

\* RuntimeOfflineError or RuntimeRpcError: a document with an error, or exit 1.
FailureAnswer(verb) ==
  IF verb \in Guarded THEN Answer(0, verb # "read", FALSE) ELSE Answer(1, FALSE, FALSE)

\* RuntimeClient.rpc reads the lock again, then writes the request.
Ask(e) ==
  /\ proc[e].at = "online"
  /\ IF runtime = "down"
     THEN Finish(e, FailureAnswer(proc[e].verb)) /\ UNCHANGED inbox
     ELSE /\ proc' = [proc EXCEPT ![e].at = "waiting"]
          /\ inbox' = inbox \cup {e}
          /\ UNCHANGED out
  /\ UNCHANGED <<response, runtimeVars>>

\* service-status looks for its row in the catalog it receives.
Received(e) ==
  IF response[e] = "refused" THEN FailureAnswer(proc[e].verb)
  ELSE IF proc[e].verb = "service-status" /\ proc[e].arg \notin Catalog
       THEN Answer(1, FALSE, FALSE)
       ELSE Answer(0, TRUE, TRUE)

Receive(e) ==
  /\ proc[e].at = "waiting" /\ response[e] # "none"
  /\ Finish(e, Received(e))
  /\ response' = [response EXCEPT ![e] = "none"]
  /\ UNCHANGED <<inbox, runtimeVars>>

\* Ten seconds pass: the request file stays.
TimeOut(e) ==
  /\ proc[e].at = "waiting"
  /\ Finish(e, FailureAnswer(proc[e].verb))
  /\ response' = [response EXCEPT ![e] = "none"]
  /\ UNCHANGED <<inbox, runtimeVars>>

-----------------------------------------------------------------------------
(* The runtime                                                             *)

\* _rpc_service_control: a name the catalog has is accepted; a periodic job
\* is scheduled once more, whatever the state of the one that bears the name.
Accepts(e) == proc[e].arg \in Catalog

Perform(e) ==
  /\ served' = served \cup {e}
  /\ performed' = IF proc[e].verb \in Control /\ Accepts(e)
                  THEN [performed EXCEPT ![e] = @ + 1] ELSE performed
  /\ copies' = IF proc[e].verb \in Control /\ proc[e].arg \in Periodic
               THEN [copies EXCEPT ![proc[e].arg] = @ + 1] ELSE copies

\* What the response may say: a control by its name; another operation may
\* raise (an engine's view, say), the catalog and the lists do not.
Verdict(e) ==
  CASE proc[e].verb \in Control -> {IF Accepts(e) THEN "ok" ELSE "refused"}
    [] proc[e].verb \in {"services", "service-status", "capabilities"} -> {"ok"}
    [] OTHER -> {"ok", "refused"}

Serve(e) ==
  /\ runtime = "running" /\ e \in inbox
  /\ Perform(e)
  /\ \E verdict \in Verdict(e) : response' = [response EXCEPT ![e] = verdict]
  /\ inbox' = inbox \ {e}
  /\ UNCHANGED <<guestVars, runtime, deaths>>

\* The process dies; with a request half served, its file is still there.
Die ==
  /\ runtime # "down" /\ deaths < MaxDeaths
  /\ runtime' = "down" /\ deaths' = deaths + 1
  /\ UNCHANGED <<guestVars, inbox, response, copies, served, performed>>

DieServing(e) ==
  /\ runtime = "running" /\ e \in inbox /\ deaths < MaxDeaths
  /\ Perform(e)
  /\ runtime' = "down" /\ deaths' = deaths + 1
  /\ UNCHANGED <<guestVars, inbox, response>>

\* A shutdown leaves the serve loop first and the process later.
Stop ==
  /\ runtime = "running" /\ deaths < MaxDeaths
  /\ runtime' = "stopping" /\ deaths' = deaths + 1
  /\ UNCHANGED <<guestVars, inbox, response, copies, served, performed>>

Exit ==
  /\ runtime = "stopping"
  /\ runtime' = "down"
  /\ UNCHANGED <<guestVars, inbox, response, copies, served, performed, deaths>>

\* A new runtime registers its jobs anew and finds the old requests.
Start ==
  /\ runtime = "down"
  /\ runtime' = "running"
  /\ copies' = [j \in Periodic |-> 1]
  /\ UNCHANGED <<guestVars, inbox, response, served, performed, deaths>>

Guest(e) == Connect(e) \/ Ask(e) \/ Receive(e) \/ TimeOut(e)
Runtime == (\E e \in Exec : Serve(e) \/ DieServing(e)) \/ Die \/ Stop \/ Exit \/ Start
=============================================================================
