----------------------------- MODULE GoalAgents ------------------------------
(***************************************************************************)
(* process_goal with its agents: GoalProcessing, whose Planner and Fixer   *)
(* stand for any run, with the runs of Agents in their place, and the RPC  *)
(* "plan", which runs an orchestrator on the same serve loop.  Every       *)
(* behaviour is one of GoalProcessing.                                     *)
(***************************************************************************)
EXTENDS GoalProcessing, Agents

CONSTANTS
  Rows  \* the rows of JSON an orchestrator's provider may answer

ASSUME RowsAssumption == Rows \subseteq Seq(Action)

VARIABLE listed \* the steps of the plan of this request, as PlanStore holds them

allVars == <<vars, agentVars, listed>>

Start == Init /\ AgentInit /\ listed = <<>>

\* A request ends, or is cut short: what a run left behind is garbage.
Forget == Leave /\ called' = NoCalls /\ listed' = <<>>

\* The serve loop is not in an agent.
Free == agent = "none" /\ UNCHANGED <<agentVars, listed>>

\* RoleAgent.run begins and, when the run is over, process_goal goes on with it.
RunPlanner ==
  \/ At("planner") /\ Begin("planner") /\ UNCHANGED <<vars, listed>>
  \/ At("planner") /\ agent = "planner" /\ phase = "ended"
     /\ Planner /\ pc' = "setSteps" /\ UNCHANGED <<agentVars, listed>>
  \/ Free /\ Planner /\ pc' = "raise"

\* The history becomes the steps of the plan; the status of the run decides.
StoreSteps ==
  /\ SetSteps
  /\ pc' = "complete" => status = "done"
  /\ pc' = "fail" => status = "failed"
  /\ listed' = steps /\ Leave /\ UNCHANGED called

\* _replan_fix(): the history of a run that failed is dropped.
RunFixer ==
  \/ At("fixer") /\ Begin("fixer") /\ UNCHANGED <<vars, listed>>
  \/ At("fixer") /\ agent = "fixer" /\ phase = "ended"
     /\ Fixer /\ pc' = "append" /\ status = "done" /\ UNCHANGED <<agentVars, listed>>
  \/ At("fixer") /\ agent = "fixer" /\ phase = "ended"
     /\ Fixer /\ pc' = "epilogue" /\ status = "failed"
     /\ Leave /\ UNCHANGED <<called, listed>>
  \/ Free /\ Fixer /\ pc' = "raise"

\* Mutated form: the steps of the plan are replaced.
StoreFixOnly == AppendSteps /\ listed' = steps /\ Leave /\ UNCHANGED called

StoreFix == AppendSteps /\ listed' = listed \o steps /\ Leave /\ UNCHANGED called

\* The RPC "plan"; the answer ends it.
RunOrchestrator ==
  \/ pc = "idle" /\ request = NoRequest /\ Begin("orchestrator") /\ UNCHANGED <<vars, listed>>
  \/ agent = "orchestrator" /\ phase = "ended" /\ Forget /\ UNCHANGED vars

GoalStep ==
  \/ \E t \in Title : \E k \in {"create", "process"} : Take(k, t, NoGoal)
  \/ \E g \in GoalId : \E k \in {"completed", "cancelled"} :
       told[g] # "nothing" /\ Take(k, NoTitle, g)
  \/ CreateGoal \/ Update \/ CreatePlan
  \/ CloseGoal("complete", "completed", "finishCompleted")
  \/ CloseGoal("fail", "failed", "finishFailed")
  \/ FinishPlan("finishCompleted", "completed", "epilogue")
  \/ FinishPlan("finishFailed", "failed", "fixer")
  \/ FinishPlan("finishFixed", "completed", "epilogue")
  \/ Epilogue \/ Boot

WholeNext ==
  \/ GoalStep /\ Free
  \/ Write /\ UNCHANGED <<agentVars, listed>>
  \/ RunPlanner \/ StoreSteps \/ RunFixer \/ StoreFix \/ RunOrchestrator
  \/ AgentStep(Rows) /\ UNCHANGED <<vars, listed>>
  \/ (Answer \/ Raise \/ Crash) /\ Forget

WholeSpec == Start /\ [][WholeNext]_allVars

-----------------------------------------------------------------------------
(* Properties *)

\* What a plan shows when its request is answered is what its agents had
\* executed, in order (orchestration.py:129 and 171): all of it, but for the call
\* in which a run failed and, if the fixer failed, whatever the fixer did.
ButLast(s) == IF s = <<>> THEN s ELSE SubSeq(s, 1, Len(s) - 1)
BeforeDone(s) == IF s # <<>> /\ s[Len(s)] = Done THEN ButLast(s) ELSE s
PlanShowsItsCalls ==
  pc = "answer" /\ plan # NoPlan =>
    LET shown == BeforeDone(listed)
        fixed == IF plans[plan].status = "completed" THEN called["fixer"] ELSE <<>>
    IN  \/ shown = called["planner"] \o fixed
        \/ goals[request.goal].status = "failed" /\ shown = ButLast(called["planner"]) \o fixed

\* A goal is completed without a single call only if the provider said so: the
\* bootstrap sees to it that any other first reply leads to a call.
IdleSuccessWasClaimed ==
  pc = "complete" /\ (\A a \in Rules : Known("planner", a)) =>
    called["planner"] # <<>> \/ listed = <<Done>>

\* So the records of a processed goal tell what was done for it.
RecordsTellTheWork == PlanShowsItsCalls /\ IdleSuccessWasClaimed

\* No reply and no rule brings a role to an action outside its prefixes.
RolesAreKept ==
  \A w \in Role : \A i \in DOMAIN called[w] : Known(w, called[w][i])
=============================================================================
