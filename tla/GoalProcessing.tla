--------------------------- MODULE GoalProcessing ----------------------------
(***************************************************************************)
(* Goals and plans: CognitiveOrchestrator.process_goal                     *)
(* (intelligence/orchestration.py) over GoalStore (intelligence/goals.py)  *)
(* and PlanStore (intelligence/plans.py), reached through the daemon's     *)
(* "goal" and "process_goal" requests (runtime.py).                        *)
(*                                                                         *)
(* The serve loop is the only thread that changes goals and plans.  Each   *)
(* change updates the registry in memory and rewrites its file in place:   *)
(* open() truncates it, then it is written, and between the two it holds   *)
(* no JSON.  A request whose daemon dies stays in rpc/in and is executed   *)
(* again by the next one (RpcChannel).  Agent runs are external: they      *)
(* change neither goals nor plans.                                         *)
(***************************************************************************)
EXTENDS Naturals

CONSTANTS
  Title,       \* goal texts
  GoalId,      \* ids uuid4() hands out, each at most once
  PlanId,
  NoGoal, NoPlan, NoTitle,
  Torn,        \* a file that was truncated and not written
  MaxRequests, \* bound: requests
  MaxCrashes,  \* bound: deaths of the daemon
  MaxFaults    \* bound: file operations that fail with OSError

ASSUME GoalAssumption ==
  /\ NoGoal \notin GoalId /\ NoPlan \notin PlanId /\ NoTitle \notin Title
  /\ MaxRequests \in Nat /\ MaxCrashes \in Nat /\ MaxFaults \in Nat

VARIABLES
  goals,     \* GoalStore._goals
  plans,     \* PlanStore._plans
  goalFile,  \* state/goals.json
  planFile,  \* state/plans.json
  writing,   \* the file that is open for writing: "none", "goals" or "plans"
  pc,        \* the next step of the request, "idle" or "down"
  request,   \* the request in rpc/in: its kind, title and goal
  plan,      \* the local variable `plan` of process_goal
  requests,  \* number of requests so far
  crashes, faults,
  minted,    \* history: goal and plan ids handed out
  told,      \* history: what clients were last told of a goal
  cut,       \* history: plans whose processing was cut short
  behind,    \* history: the latest save of the goals failed
  lost       \* history: a start after a failed or torn save of the goals

stores == <<goals, plans, goalFile, planFile, writing>>
history == <<minted, told, cut, behind, lost>>
bounds == <<requests, crashes, faults>>
vars == <<stores, pc, request, plan, bounds, history>>

GoalStatus == {"absent", "active", "completed", "failed", "cancelled"}
PlanStatus == {"absent", "active", "completed", "failed"}
Closed == {"completed", "failed", "cancelled"}
Kind == {"create", "process", "completed", "cancelled"}
Step == {"createGoal", "createPlan", "planner", "setSteps", "complete", "fail",
         "finishCompleted", "finishFailed", "fixer", "append", "finishFixed",
         "update", "epilogue", "answer", "raise"}

Goal == [title : Title \cup {NoTitle}, status : GoalStatus]
Plan == [goal : GoalId \cup {NoGoal}, status : PlanStatus, recorded : BOOLEAN]
NoGoals == [g \in GoalId |-> [title |-> NoTitle, status |-> "absent"]]
NoPlans == [p \in PlanId |-> [goal |-> NoGoal, status |-> "absent", recorded |-> FALSE]]
NoRequest == [kind |-> "none", title |-> NoTitle, goal |-> NoGoal]

ActiveWith(title) == {g \in GoalId : goals[g].title = title /\ goals[g].status = "active"}

Init ==
  /\ goals = NoGoals /\ plans = NoPlans
  /\ goalFile = NoGoals /\ planFile = NoPlans /\ writing = "none"
  /\ pc = "idle" /\ request = NoRequest /\ plan = NoPlan
  /\ requests = 0 /\ crashes = 0 /\ faults = 0
  /\ minted = {} /\ told = [g \in GoalId |-> "nothing"]
  /\ cut = {} /\ behind = FALSE /\ lost = FALSE

-----------------------------------------------------------------------------
(* _save() of the two stores: open(path, "w") and the write. *)

At(step) == pc = step /\ writing = "none"
Fault == faults < MaxFaults /\ faults' = faults + 1

\* The registry has changed; open() truncates the file, or raises.
SaveGoals(changed, next) ==
  /\ goals' = changed
  /\ \/ goalFile' = Torn /\ writing' = "goals" /\ pc' = next /\ UNCHANGED <<faults, behind>>
     \/ Fault /\ behind' = TRUE /\ pc' = "raise" /\ UNCHANGED <<goalFile, writing>>
  /\ UNCHANGED <<plans, planFile, requests, crashes>>

SavePlans(changed, next) ==
  /\ plans' = changed
  /\ \/ planFile' = Torn /\ writing' = "plans" /\ pc' = next /\ UNCHANGED faults
     \/ Fault /\ pc' = "raise" /\ UNCHANGED <<planFile, writing>>
  /\ UNCHANGED <<goals, goalFile, requests, crashes, behind>>

\* json.dump and the close of the file: all of it, or an OSError.
Write ==
  /\ writing # "none" /\ pc # "down"
  /\ \/ writing = "goals" /\ goalFile' = goals /\ behind' = FALSE
        /\ UNCHANGED <<planFile, pc, faults>>
     \/ writing = "plans" /\ planFile' = plans
        /\ UNCHANGED <<goalFile, pc, faults, behind>>
     \/ Fault /\ pc' = "raise" /\ behind' = (behind \/ writing = "goals")
        /\ UNCHANGED <<goalFile, planFile>>
  /\ writing' = "none"
  /\ UNCHANGED <<goals, plans, request, plan, requests, crashes, minted, told, cut, lost>>

-----------------------------------------------------------------------------
(* The requests. *)

\* "goal" create, complete and cancel; "process_goal", tentative or not (a
\* tentative one only creates the goal).
Take(kind, title, g) ==
  /\ pc = "idle" /\ request = NoRequest /\ requests < MaxRequests
  /\ requests' = requests + 1
  /\ request' = [kind |-> kind, title |-> title, goal |-> g]
  /\ pc' = IF kind \in {"create", "process"} THEN "createGoal" ELSE "update"
  /\ UNCHANGED <<stores, plan, crashes, faults, history>>

AfterCreate == IF request.kind = "process" THEN "createPlan" ELSE "answer"

\* Mutated form: the registry is changed and not saved.
CreateGoalUnsaved ==
  /\ At("createGoal")
  /\ \E g \in GoalId \ minted :
       /\ ActiveWith(request.title) = {}
       /\ goals' = [goals EXCEPT ![g] = [title |-> request.title, status |-> "active"]]
       /\ minted' = minted \cup {g} /\ request' = [request EXCEPT !.goal = g]
  /\ pc' = AfterCreate
  /\ UNCHANGED <<plans, goalFile, planFile, writing, plan, bounds, told, cut, behind, lost>>

\* Mutated form: the search for an active goal with the title is left out.
CreateGoalAlways ==
  /\ At("createGoal")
  /\ \E g \in GoalId \ minted :
       /\ SaveGoals([goals EXCEPT ![g] = [title |-> request.title, status |-> "active"]],
                    AfterCreate)
       /\ minted' = minted \cup {g} /\ request' = [request EXCEPT !.goal = g]
  /\ UNCHANGED <<plan, told, cut, lost>>

\* GoalStore.create: an active goal with the same title is returned.
CreateGoal ==
  /\ At("createGoal")
  /\ \/ \E g \in ActiveWith(request.title) :
          /\ request' = [request EXCEPT !.goal = g]
          /\ pc' = AfterCreate
          /\ UNCHANGED <<stores, bounds, minted, behind>>
     \/ \E g \in GoalId \ minted :
          /\ ActiveWith(request.title) = {}
          /\ SaveGoals([goals EXCEPT ![g] = [title |-> request.title, status |-> "active"]],
                       AfterCreate)
          /\ minted' = minted \cup {g} /\ request' = [request EXCEPT !.goal = g]
  /\ UNCHANGED <<plan, told, cut, lost>>

\* GoalStore.complete and cancel: whatever the status was, an unknown id is
\* ignored.
Update ==
  /\ At("update")
  /\ IF goals[request.goal].status # "absent"
     THEN SaveGoals([goals EXCEPT ![request.goal].status = request.kind], "answer")
     ELSE pc' = "answer" /\ UNCHANGED <<stores, bounds, behind>>
  /\ UNCHANGED <<request, plan, minted, told, cut, lost>>

CreatePlan ==
  /\ At("createPlan")
  /\ \E p \in PlanId \ minted :
       /\ SavePlans([plans EXCEPT ![p] = [goal |-> request.goal, status |-> "active",
                                          recorded |-> FALSE]], "planner")
       /\ plan' = p /\ minted' = minted \cup {p}
  /\ UNCHANGED <<request, told, cut, lost>>

\* RoleAgent.run; it may raise before its own handler is in force.
Planner ==
  /\ At("planner")
  /\ pc' \in {"setSteps", "raise"}
  /\ UNCHANGED <<stores, request, plan, bounds, history>>

\* set_steps(); the status of the run decides between the two branches.
SetSteps ==
  /\ At("setSteps")
  /\ \E next \in {"complete", "fail"} :
       SavePlans([plans EXCEPT ![plan].recorded = TRUE], next)
  /\ UNCHANGED <<request, plan, minted, told, cut, lost>>

\* Mutated form: the plan is closed first, the goal after it.
CloseGoalLast(step, status, next) ==
  /\ At(step)
  /\ SavePlans([plans EXCEPT ![plan].status = IF status = "completed" THEN status ELSE "failed"],
               "epilogue")
  /\ UNCHANGED <<request, plan, minted, told, cut, lost>>

CloseGoal(step, status, next) ==
  /\ At(step)
  /\ SaveGoals([goals EXCEPT ![request.goal].status = status], next)
  /\ UNCHANGED <<request, plan, minted, told, cut, lost>>

FinishPlan(step, status, next) ==
  /\ At(step)
  /\ SavePlans([plans EXCEPT ![plan].status = status], next)
  /\ UNCHANGED <<request, plan, minted, told, cut, lost>>

\* _replan_fix(): one pass of the fixer, whose success reopens the plan to
\* append its steps.
Fixer ==
  /\ At("fixer")
  /\ pc' \in {"append", "epilogue", "raise"}
  /\ UNCHANGED <<stores, request, plan, bounds, history>>

AppendSteps ==
  /\ At("append")
  /\ SavePlans([plans EXCEPT ![plan].status = "active"], "finishFixed")
  /\ UNCHANGED <<request, plan, minted, told, cut, lost>>

\* Reflection, learning and world events; their files may fail as well.
Epilogue ==
  /\ At("epilogue")
  /\ pc' \in {"answer", "raise"}
  /\ UNCHANGED <<stores, request, plan, bounds, history>>

\* The response is written and the request file removed.
Answer ==
  /\ At("answer")
  /\ told' = [told EXCEPT ![request.goal] =
                IF goals[request.goal].status \in Closed THEN "closed" ELSE "known"]
  /\ pc' = "idle" /\ request' = NoRequest /\ plan' = NoPlan
  /\ UNCHANGED <<stores, bounds, minted, cut, behind, lost>>

\* An exception ends in the error response of RuntimeServer.rpc.
Raise ==
  /\ At("raise")
  /\ cut' = cut \cup ({plan} \ {NoPlan})
  /\ pc' = "idle" /\ request' = NoRequest /\ plan' = NoPlan
  /\ UNCHANGED <<stores, bounds, minted, told, behind, lost>>

-----------------------------------------------------------------------------
(* The daemon dies and the next one loads what is there. *)

Crash ==
  /\ pc # "down" /\ crashes < MaxCrashes
  /\ crashes' = crashes + 1
  /\ cut' = cut \cup ({plan} \ {NoPlan})
  /\ goals' = NoGoals /\ plans' = NoPlans /\ writing' = "none"
  /\ pc' = "down" /\ plan' = NoPlan
  /\ UNCHANGED <<goalFile, planFile, request, requests, faults, minted, told, behind, lost>>

\* _load(): a file that cannot be parsed is an empty registry.  A request that
\* is still in rpc/in is executed from its beginning.
Boot ==
  /\ pc = "down"
  /\ goals' = IF goalFile = Torn THEN NoGoals ELSE goalFile
  /\ plans' = IF planFile = Torn THEN NoPlans ELSE planFile
  /\ lost' = (lost \/ goalFile = Torn \/ behind) /\ behind' = FALSE
  /\ pc' = IF request = NoRequest THEN "idle"
           ELSE IF request.kind \in {"create", "process"} THEN "createGoal" ELSE "update"
  /\ UNCHANGED <<goalFile, planFile, writing, request, plan, bounds, minted, told, cut>>

Next ==
  \/ \E t \in Title : \E k \in {"create", "process"} : Take(k, t, NoGoal)
  \/ \E g \in GoalId : \E k \in {"completed", "cancelled"} :
       told[g] # "nothing" /\ Take(k, NoTitle, g)
  \/ CreateGoal \/ Update \/ CreatePlan \/ Planner \/ SetSteps
  \/ CloseGoal("complete", "completed", "finishCompleted")
  \/ CloseGoal("fail", "failed", "finishFailed")
  \/ FinishPlan("finishCompleted", "completed", "epilogue")
  \/ FinishPlan("finishFailed", "failed", "fixer")
  \/ Fixer \/ AppendSteps \/ FinishPlan("finishFixed", "completed", "epilogue")
  \/ Epilogue \/ Write \/ Answer \/ Raise
  \/ Crash \/ Boot

Spec == Init /\ [][Next]_vars

-----------------------------------------------------------------------------
(* Properties *)

TypeOK ==
  /\ goals \in [GoalId -> Goal] /\ plans \in [PlanId -> Plan]
  /\ goalFile \in {Torn} \cup [GoalId -> Goal]
  /\ planFile \in {Torn} \cup [PlanId -> Plan]
  /\ writing \in {"none", "goals", "plans"}
  /\ pc \in Step \cup {"idle", "down"}
  /\ request \in [kind : Kind \cup {"none"}, title : Title \cup {NoTitle},
                  goal : GoalId \cup {NoGoal}]
  /\ pc = "idle" => request = NoRequest
  /\ plan \in PlanId \cup {NoPlan}
  /\ requests \in Nat /\ crashes \in Nat /\ faults \in Nat
  /\ minted \subseteq GoalId \cup PlanId
  /\ told \in [GoalId -> {"nothing", "known", "closed"}]
  /\ cut \subseteq PlanId
  /\ behind \in BOOLEAN /\ lost \in BOOLEAN

\* "deduplicate active goals with identical titles": at no time are two goals
\* with one title active, though a request is executed again after a crash
\* and memory and file may differ after a failed save.
OneActiveGoalPerTitle ==
  \A g, h \in GoalId :
    goals[g].status = "active" /\ goals[h] = goals[g] => h = g

\* A goal a client was told of is known to every later daemon, and one it was
\* told is closed is never active again, unless a daemon died in the middle of
\* a save of the goals, or after one that failed and before one that worked.
ToldIsRemembered ==
  pc # "down" /\ ~lost =>
    \A g \in GoalId :
      /\ told[g] # "nothing" => goals[g].status # "absent"
      /\ told[g] = "closed" => goals[g].status # "active"

\* Wherever the daemon dies, a plan that plans.json calls finished has its
\* steps, and goals.json does not call its goal active: the order of the saves
\* never leaves a goal to be worked on again whose plan is done.
FinishedPlanClosedGoal ==
  goalFile # Torn /\ planFile # Torn =>
    \A p \in PlanId : planFile[p].status \in {"completed", "failed"} =>
      /\ planFile[p].recorded
      /\ goalFile[planFile[p].goal].status # "active"

\* Between two requests a plan is active only if a death or an exception cut
\* its processing short: the remediation that reopens a plan closes it again.
ActivePlansWereCut ==
  pc = "idle" => \A p \in PlanId : plans[p].status = "active" => p \in cut

\* So a plan and its goal agree, in the files at any time and in memory at rest.
PlansFollowGoals == FinishedPlanClosedGoal /\ ActivePlansWereCut
=============================================================================
