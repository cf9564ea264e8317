---------------------------- MODULE BridgeClient ----------------------------
(***************************************************************************)
(* TerminalPBridgeClient (bridge/BusterBridgeClient.kt in the Android app):*)
(* a call puts its handler into `pending` under a fresh correlation id,    *)
(* crosses the binder, and waits at most 20 s for the callback.  Callbacks *)
(* are oneway: they arrive on a binder thread, in any order, even before   *)
(* the outgoing call has returned.                                         *)
(*                                                                         *)
(* The host between the app and the guest is another program: it refuses   *)
(* with a status, or runs `buster exec` and sends what it printed, or is   *)
(* never heard of again.  It answers a call at most once.                  *)
(***************************************************************************)
EXTENDS ExecBridge

CONSTANTS
  Call,       \* calls of perform, numbers, each with its correlation id; the host
              \* runs at most one invocation for it, of the same name
  Requested,  \* the operations the app asks for
  Granted,    \* the capabilities that setCapabilities has recorded
  Status      \* the status codes the host refuses with

\* An operation is named by its guestVerb; each has one capability.
CapabilityOf(op) ==
  CASE op \in {"status", "health", "ping"} -> "status"
    [] op = "services" -> "services read"
    [] op = "capabilities" -> "capabilities read"
    [] op = "present" -> "present"
    [] op \in {"service-start", "service-restart", "service-status"} -> "services control"
    [] op = "deployment" -> "deployment read"
    [] op = "read" -> "read"
    [] op = "runtime-control" -> "runtime control"
    [] op = "write" -> "scoped write"
    [] op \in {"import", "export"} -> op

GuestVerb == {"status", "health", "ping", "services", "capabilities", "present", "deployment", "read",
              "service-start", "service-restart", "service-status", "runtime-control", "write",
              "import", "export"}

\* BusterBaseline.AUTHORIZED
Baseline == {"status", "services read", "capabilities read", "present", "deployment read", "read"}

ASSUME ClientAssumption ==
  /\ Call \subseteq Exec \cap (Nat \ {0})
  /\ Requested \subseteq GuestVerb /\ Granted \subseteq {CapabilityOf(op) : op \in GuestVerb}

\* The operations that have a binder method here.
Implemented == {"deployment", "read"}

VARIABLES
  call,       \* where each call is, its operation, and how it ended
  pending,    \* correlation ids with a handler
  slot,       \* the result a handler stored before it opened the latch
  host,       \* what the host makes of each call
  answers     \* callbacks under way

clientVars == <<call, pending, slot>>
bridgeVars == <<clientVars, host, answers>>

Ok(of, document) == [kind |-> "ok", of |-> of, document |-> document]
Failed(why) == [kind |-> why, of |-> 0, document |-> NoOut]
None == Failed("none")

ClientInit ==
  /\ call = [c \in Call |-> [at |-> "idle", op |-> "none", arg |-> NoArg, result |-> None]]
  /\ pending = {}
  /\ slot = [c \in Call |-> None]
  /\ host = [c \in Call |-> "unaware"]
  /\ answers = {}

-----------------------------------------------------------------------------
(* The calling thread                                                      *)

End(c, result) == call' = [call EXCEPT ![c].at = "done", ![c].result = result]

\* Refused before anything is sent: by capability, by operation, or because
\* a read names no view.
Refusal(op, arg) ==
  IF CapabilityOf(op) \notin Granted THEN "CapabilityMissing"
  ELSE IF op \notin Implemented THEN "NotImplemented"
  ELSE IF op = "read" /\ arg = NoArg THEN "InvalidArguments"
  ELSE "none"

Begin(c, op, arg) ==
  /\ call[c].at = "idle"
  /\ LET why == Refusal(op, arg) IN
     /\ call' = [call EXCEPT ![c] =
                   [at |-> IF why = "none" THEN "binding" ELSE "done",
                    op |-> op, arg |-> arg, result |-> Failed(why)]]
     /\ pending' = IF why = "none" THEN pending \cup {c} ELSE pending
  /\ UNCHANGED <<execVars, slot, host, answers>>

\* The binder method returns: the latch is awaited.
Bound(c) ==
  /\ call[c].at = "binding" /\ host[c] # "unaware"
  /\ call' = [call EXCEPT ![c].at = "waiting"]
  /\ UNCHANGED <<execVars, pending, slot, host, answers>>

\* RemoteException: the host died, before or after it took the call.
BinderDies(c) ==
  /\ call[c].at = "binding"
  /\ End(c, Failed("BridgeUnavailable"))
  /\ pending' = pending \ {c}
  /\ UNCHANGED <<execVars, slot, host, answers>>

\* Any other exception (a SecurityException, say) leaves `call` at once.
BinderThrows(c) ==
  /\ call[c].at = "binding" /\ host[c] = "unaware"
  /\ End(c, Failed("thrown"))
  /\ UNCHANGED <<execVars, pending, slot, host, answers>>

\* latch.await returns true.
Wake(c) ==
  /\ call[c].at = "waiting" /\ slot[c] # None
  /\ End(c, slot[c])
  /\ UNCHANGED <<execVars, pending, slot, host, answers>>

\* latch.await returns false; the handler is removed a moment later.
Deadline(c) ==
  /\ call[c].at = "waiting" /\ slot[c] = None
  /\ call' = [call EXCEPT ![c].at = "late"]
  /\ UNCHANGED <<execVars, pending, slot, host, answers>>

\* Mutated form: the handler of a call that timed out stays.
GiveUpKeepsHandler(c) ==
  /\ call[c].at = "late"
  /\ End(c, Failed("TIMEOUT"))
  /\ UNCHANGED <<execVars, pending, slot, host, answers>>

GiveUp(c) ==
  /\ call[c].at = "late"
  /\ End(c, Failed("TIMEOUT"))
  /\ pending' = pending \ {c}
  /\ UNCHANGED <<execVars, slot, host, answers>>

-----------------------------------------------------------------------------
(* The binder thread                                                       *)

\* Mutated form: handlers are found by operation.
HandlerByOperation(a) == {c \in pending : call[c].op = call[a.to].op}

\* pending.remove(correlationId)
HandlerOf(a) == pending \cap {a.to}

\* mapStatus: a refusal by the status, another failure by its message.  The
\* text that would mean UnsupportedRuntime is one no guest prints.
Mapped(status) ==
  CASE status = 2 -> "Unauthenticated"
    [] status = 9 -> "ConsentRequired"
    [] status = 12 -> "CapabilityMissing"
    [] status = 13 -> "ResultTooLarge"
    [] status = 14 -> "Malformed"
    [] OTHER -> "HostRefused"

\* OperationResult.fromDocument(): a document beyond the bound, an operation
\* nobody has or a text that is no JSON object throws.
FromDocument(c, verb, text) ==
  IF text = "large" \/ verb \notin GuestVerb \/ text = "cut" THEN Failed("undecodable")
  ELSE Ok(c, out[c])

\* A callback nobody waits for is dropped.  The handler runs, unless making
\* its argument threw, on this thread and after the handler was removed: then
\* nobody is told.
Deliver(a) ==
  /\ a \in answers
  /\ answers' = answers \ {a}
  /\ pending' = pending \ HandlerOf(a)
  /\ slot' = [c \in Call |-> IF c \in HandlerOf(a) /\ a.result.kind # "undecodable"
                             THEN a.result ELSE slot[c]]
  /\ UNCHANGED <<execVars, call, host>>

-----------------------------------------------------------------------------
(* The host, external                                                      *)

HostTakes(c) ==
  /\ call[c].at = "binding" /\ host[c] = "unaware"
  /\ host' = [host EXCEPT ![c] = "accepted"]
  /\ UNCHANGED <<execVars, clientVars, answers>>

Send(c, result) ==
  /\ answers' = answers \cup {[to |-> c, result |-> result]}
  /\ host' = [host EXCEPT ![c] = "answered"]

HostRefuses(c, status) ==
  /\ host[c] = "accepted"
  /\ Send(c, Failed(Mapped(status)))
  /\ UNCHANGED <<execVars, clientVars>>

\* proot-distro buster exec deployment, or read <view>.  A guest too old for
\* the verb exits with 2, which is a refusal with status 1.
HostRuns(c) ==
  /\ host[c] = "accepted"
  /\ host' = [host EXCEPT ![c] = "guest"]
  /\ Invoke(c, call[c].op, call[c].arg)
  /\ UNCHANGED <<clientVars, answers>>

\* These verbs exit with 0: the answer is status 0 with the document, which
\* may have been cut or have outgrown the client's bound on the way.
HostAnswers(c) ==
  /\ host[c] = "guest" /\ proc[c].at = "done"
  /\ \E text \in {"whole", "cut", "large"} : Send(c, FromDocument(c, call[c].op, text))
  /\ UNCHANGED <<execVars, clientVars>>

HostForgets(c) ==
  /\ host[c] \in {"accepted", "guest"}
  /\ host' = [host EXCEPT ![c] = "gone"]
  /\ UNCHANGED <<execVars, clientVars, answers>>

App(c) == \/ Bound(c) \/ BinderDies(c) \/ BinderThrows(c)
          \/ Wake(c) \/ Deadline(c) \/ GiveUp(c)

Host(c) ==
  \/ HostTakes(c) \/ HostRuns(c) \/ HostAnswers(c) \/ HostForgets(c)
  \/ \E status \in Status : HostRefuses(c, status)
=============================================================================
