------------------------------- MODULE Agents --------------------------------
(***************************************************************************)
(* One run of an agent on the serve loop: the bounded think, act, observe  *)
(* loop of PlannerAgent (agents/planner.py) confined to a role by          *)
(* RoleAgent (intelligence/agents.py), and AgentOrchestrator               *)
(* (agents/orchestration.py), which asks once for a whole plan.            *)
(*                                                                         *)
(* The provider is external: it may answer anything, fail, or be absent,   *)
(* and then the rules of ai_providers/local.py answer.  What a call does   *)
(* is CapabilityDispatch's; here it returns, with or without success, or   *)
(* raises (the audit file cannot be written, the parameters are no         *)
(* dictionary).  The experience row of each run is KnowledgeStore's.       *)
(***************************************************************************)
EXTENDS Naturals, Sequences

CONSTANTS
  Action,     \* names a reply may hold
  Registered, \* ... those some capability provides
  Starts,     \* Starts[a]: the prefixes among those of the roles that a begins with
  Texts,      \* what goal texts say: each the set of the rules' words found in it
  MaxSteps    \* MaxSteps[w]: 6 for the planner, 3 for the fixer, 10 for the orchestrator

Role == {"planner", "researcher", "builder", "tester", "reviewer", "fixer", "observer",
         "memory-worker", "maintenance-worker"}
Agent == Role \cup {"orchestrator"}
Done == "done"         \* the step a final reply leaves in the history
Info == "android.info" \* what an orchestrator without a plan does

\* ROLES: the allowed_prefixes of each; none means any action.
Prefixes ==
  [w \in Role |->
    CASE w = "planner" -> {}
      [] w = "researcher" -> {"search.", "fs.list", "fs.read", "fs.stat", "net.", "android.", "time.", "pkg."}
      [] w = "builder" -> {"fs.write", "fs.mkdir", "fs.touch", "python.", "git.", "archive.", "shell.run"}
      [] w = "tester" -> {"shell.run", "python.eval", "search.", "fs.read", "process."}
      [] w = "reviewer" -> {"fs.read", "fs.list", "search.", "process.", "python.eval", "pkg."}
      [] w = "fixer" -> {"fs.write", "fs.mkdir", "python.", "git.", "shell.run", "crypto."}
      [] w = "observer" -> {"android.", "process.", "net.", "pkg.", "time.", "search."}
      [] w = "memory-worker" -> {"fs.list", "fs.read", "search.", "python.eval"}
      [] w = "maintenance-worker" -> {"process.", "pkg.", "fs.list", "archive."}]

\* AgentRole.allows()
Allows(w, a) == Prefixes[w] = {} \/ Starts[a] \cap Prefixes[w] # {}

\* The local rules: the first that finds one of its words in the text.
Rule(words) ==
  IF words \cap {"inspect", "environment", "device"} # {} THEN "android.info"
  ELSE IF words \cap {"list", "files"} # {} THEN "fs.list"
  ELSE IF "time" \in words THEN "time.now"
  ELSE IF words \cap {"status", "kernel"} # {} THEN "process.list"
  ELSE "android.info"
Rules == {Rule(words) : words \in Texts}

ASSUME AgentAssumption ==
  /\ Registered \subseteq Action /\ Rules \subseteq Action /\ Info \in Action
  /\ Texts # {} /\ Done \notin Action
  /\ Starts \in [Action -> SUBSET UNION {Prefixes[w] : w \in Role}]
  /\ MaxSteps \in [Agent -> Nat \ {0}]

VARIABLES
  agent,  \* the agent that runs, or "none"
  phase,  \* "ask", "call" or "ended"
  todo,   \* actions it has decided on and not called
  steps,  \* run.history without its plan entry
  status, \* run.status
  called  \* history: called[w]: what w handed to the dispatcher in this request

agentVars == <<agent, phase, todo, steps, status, called>>

NoCalls == [w \in Agent |-> <<>>]
AgentInit ==
  /\ agent = "none" /\ phase = "ended" /\ todo = <<>> /\ steps = <<>> /\ status = "created"
  /\ called = NoCalls

Begin(w) ==
  /\ agent = "none"
  /\ agent' = w /\ phase' = "ask" /\ todo' = <<>> /\ steps' = <<>> /\ status' = "running"
  /\ called' = [called EXCEPT ![w] = <<>>]

Ends(outcome) == phase' = "ended" /\ status' = outcome
Acts(actions) == phase' = "call" /\ todo' = actions /\ UNCHANGED <<steps, status>>

\* _known_action() of a RoleAgent.
Known(w, a) == a \in Registered /\ Allows(w, a)

\* Mutated form: the bootstrap trusts its own rule.
BootstrapUnchecked(w) == \E a \in Rules : Acts(<<a>>)

\* _parse_action() of the rule's reply, which passes the role as any other does.
Bootstrap(w) ==
  \E a \in Rules :
    \/ Known(w, a) /\ Acts(<<a>>)
    \/ ~Known(w, a) /\ Ends("done") /\ UNCHANGED <<todo, steps>>

\* One turn: the reply is final, names an action, offers no step (the first time
\* a rule is asked instead), or does not decode into what the code expects.  A
\* provider that fails is answered for by a rule.
Ask(w) ==
  /\ agent = w /\ phase = "ask"
  /\ IF Len(called[w]) = MaxSteps[w]
     THEN Ends("done") /\ UNCHANGED <<todo, steps>>
     ELSE \/ steps' = Append(steps, Done) /\ Ends("done") /\ UNCHANGED todo
          \/ \E a \in Action : Known(w, a) /\ Acts(<<a>>)
          \/ called[w] = <<>> /\ Bootstrap(w)
          \/ called[w] # <<>> /\ Ends("done") /\ UNCHANGED <<todo, steps>>
          \/ Ends("failed") /\ UNCHANGED <<todo, steps>>
  /\ UNCHANGED <<agent, called>>

FirstOf(s, n) == SubSeq(s, 1, IF Len(s) < n THEN Len(s) ELSE n)

\* AgentOrchestrator._plan(): no provider or a reply that is no JSON gives Info,
\* and so does a plan of unknown actions; a provider that fails, or rows that
\* are no dictionaries, end the run.
AskPlan(rows) ==
  /\ agent = "orchestrator" /\ phase = "ask"
  /\ \/ LET plan == SelectSeq(rows, LAMBDA a : a \in Registered)
        IN  Acts(IF plan = <<>> THEN <<Info>> ELSE FirstOf(plan, MaxSteps[agent]))
     \/ Ends("failed") /\ UNCHANGED <<todo, steps>>
  /\ UNCHANGED <<agent, called>>

\* cap.call(): the step enters the history when it has returned; the orchestrator
\* goes on with its plan, the others ask again.  What follows the call may raise
\* as well (the observation is put into JSON).
Call ==
  /\ agent # "none" /\ phase = "call"
  /\ called' = [called EXCEPT ![agent] = Append(@, Head(todo))]
  /\ \/ /\ steps' = Append(steps, Head(todo)) /\ todo' = Tail(todo)
        /\ IF todo' # <<>> THEN UNCHANGED <<phase, status>>
           ELSE IF agent = "orchestrator" THEN Ends("done")
           ELSE phase' = "ask" /\ UNCHANGED status
     \/ /\ steps' \in {steps, Append(steps, Head(todo))} /\ todo' = <<>>
        /\ Ends("failed")
  /\ UNCHANGED agent

\* The caller has the run.
Leave ==
  /\ agent' = "none" /\ phase' = "ended" /\ todo' = <<>> /\ steps' = <<>> /\ status' = "created"

AgentStep(Rows) ==
  \/ \E w \in Role : Ask(w)
  \/ \E rows \in Rows : AskPlan(rows)
  \/ Call
=============================================================================
