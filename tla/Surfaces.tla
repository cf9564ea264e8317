------------------------------ MODULE Surfaces ------------------------------
(***************************************************************************)
(* The surfaces of one runtime together: the Android app's bridge client,  *)
(* other principals that run `buster exec`, and launches, each of which    *)
(* ends in an invocation of ExecBridge that asks that runtime.             *)
(***************************************************************************)
EXTENDS BridgeClient, Launch

CONSTANTS
  MaxStarts,  \* bound on the calls, invocations and launches of a behaviour
  Asked       \* the verbs and arguments that other principals run

ASSUME SurfacesAssumption ==
  /\ MaxStarts \in Nat /\ Asked \subseteq Verb \X Arg
  /\ Launcher \cap Call = {}

Principal == Exec \ (Call \cup Launcher)

vars == <<execVars, bridgeVars, launchVars>>

Init == ExecInit /\ ClientInit /\ LaunchInit

Started == Cardinality({c \in Call : call[c].at # "idle"}
                       \cup {e \in Principal : proc[e].at # "idle"}
                       \cup {l \in Launcher : at[l] # "idle"})
MayStart == Started < MaxStarts

\* Calls are numbered as they are made, and only a read may name a view.
AppCalls ==
  /\ MayStart
  /\ \E c \in Call, op \in Requested, arg \in View \cup {NoArg} :
       /\ \A d \in Call : d < c => call[d].at # "idle"
       /\ op # "read" => arg = NoArg
       /\ Begin(c, op, arg)
  /\ UNCHANGED launchVars

PrincipalAsks ==
  /\ MayStart
  /\ \E e \in Principal, asked \in Asked : Invoke(e, asked[1], asked[2])
  /\ UNCHANGED <<bridgeVars, launchVars>>

AppStep(c) == App(c) /\ UNCHANGED launchVars
HostStep(c) == Host(c) /\ UNCHANGED launchVars
Callback == (\E a \in answers : Deliver(a)) /\ UNCHANGED launchVars
GuestStep(e) == Guest(e) /\ UNCHANGED <<bridgeVars, launchVars>>
RuntimeStep == Runtime /\ UNCHANGED <<bridgeVars, launchVars>>
Launching(l) == LaunchStep(l) /\ (at[l] # "idle" \/ MayStart) /\ UNCHANGED bridgeVars
GuiStep(l) == (Bind(l) \/ GuiDies(l)) /\ UNCHANGED bridgeVars

Next ==
  \/ AppCalls \/ PrincipalAsks \/ Callback \/ RuntimeStep
  \/ \E c \in Call : AppStep(c) \/ HostStep(c)
  \/ \E e \in Exec : GuestStep(e)
  \/ \E l \in Launcher : Launching(l) \/ GuiStep(l)

\* A binder call returns or throws; a thread that may go on goes on; guest
\* processes and launches run, and wait no longer than their deadlines.
\* Nothing is assumed of the host's answers, of an interface or of a runtime.
Fairness ==
  /\ \A c \in Call : WF_vars(AppStep(c)) /\ WF_vars(HostTakes(c) /\ UNCHANGED launchVars)
  /\ \A e \in Exec : WF_vars(GuestStep(e))
  /\ \A l \in Launcher : WF_vars(at[l] # "idle" /\ Launching(l))

Spec == Init /\ [][Next]_vars /\ Fairness

-----------------------------------------------------------------------------
(* Properties                                                              *)

\* A document that says a runtime is there (deployed, ready, a view's data, a
\* status, a catalog) was made from an answer that a runtime gave to this very
\* invocation; end to end, a call of the app that ends well with such a
\* document was served while it was under way.  Only `ping` and `health` say
\* `online` on the lock's word.  (exec.py, _doc_deployment and its siblings)
DeployedMeansServed ==
  /\ \A e \in Exec : out[e].live /\ proc[e].verb \notin Local => e \in served
  /\ \A c \in Call : call[c].result.kind = "ok" /\ call[c].result.document.live
                        => c \in served

\* The exit code of a control is honest: 0 means that a runtime carried it
\* out, once, or more often only if runtimes died while they served it; 2
\* that no runtime ever saw it.  A control that exits 1 for an unknown name
\* was never carried out, and one that exits 1 for want of an answer may have
\* been, or may still be, because its request outlives it.
ControlIsHonest ==
  \A e \in Exec : proc[e].at = "done" =>
    /\ out[e].code = 0 /\ proc[e].verb \in Control => performed[e] >= 1
    /\ performed[e] <= 1 + deaths
    /\ out[e].code = 2 => e \notin served \cup inbox
    /\ performed[e] > 0 => proc[e].arg \in Catalog

\* So what `buster exec` prints and returns can be believed.
DocumentsAreHonest == DeployedMeansServed /\ ControlIsHonest

\* The document of a call that ends well is the one its own invocation left:
\* answers that arrive late, early or in another order go to nobody else's
\* call.  And only an operation whose capability is granted gets so far.
AnswerIsOwn ==
  \A c \in Call : call[c].result.kind = "ok" =>
    /\ call[c].result.of = c
    /\ call[c].result.document = out[c] /\ proc[c].verb = call[c].op
    /\ CapabilityOf(call[c].op) \in Granted

\* A launch that reports an interface has one: unless an interface has
\* crashed, the port is answered for the very install that was launched,
\* whatever other launches of this or of another install did meanwhile.
\* (launch.py, ensure_gui: a foreign interface "is never adopted")
LaunchMeansInterface ==
  \A l \in Launcher :
    result[l] = "ok" /\ (\A g \in Launcher : gui[g] # "crashed") =>
      port # NoGui /\ InstallOf[port] = InstallOf[l]

\* A launch says that the bridge presented the interface only when a runtime
\* answered its `present`: the one of the default install, whichever install
\* was launched.  And nothing the presentation does makes a launch fail.
PresentedMeansServed ==
  \A l \in Launcher :
    /\ opened[l] = "bridge" => l \in served
    /\ proc[l].at # "idle" => result[l] \in {"none", "ok"}

\* So what a launch reports, of the interface and of its presentation, is true.
LaunchIsHonest == LaunchMeansInterface /\ PresentedMeansServed

\* Every call of perform ends, whatever the host and the runtime do or fail to
\* do, and leaves no handler behind, unless the binder threw something other
\* than a RemoteException; every invocation and every launch ends too.
EveryCallEnds ==
  []<>(/\ \A c \in Call : call[c].at \in {"idle", "done"}
       /\ \A c \in pending : call[c].result.kind = "thrown"
       /\ \A e \in Exec : proc[e].at \in {"idle", "done"}
       /\ \A l \in Launcher : at[l] \in {"idle", "done"})
=============================================================================
