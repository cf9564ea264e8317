--------------------------- MODULE GoalAgentsProofs ---------------------------
(***************************************************************************)
(* Proofs about GoalProcessing for any sets of titles, goals and plans and  *)
(* any number of requests, deaths of the daemon and failing saves; and      *)
(* about GoalAgents for any actions, rules, roles and bounds of the loops:  *)
(* the composition implements GoalProcessing, so that what is proved of     *)
(* goals and plans there holds of the whole.                                *)
(***************************************************************************)
EXTENDS GoalAgents, SequenceTheorems, TLAPS

-----------------------------------------------------------------------------
(* The inductive invariant. *)

\* A request that looks for or creates a goal has a title, one that changes a
\* goal names it; the steps after createGoal have a goal, those after
\* createPlan a plan.
BeforePlan == {"createGoal", "createPlan", "update", "answer", "raise"}
StageOK ==
  /\ request.kind = "none" => request = NoRequest
  /\ pc = "createGoal" => request.kind \in {"create", "process"}
  /\ request.kind \in {"create", "process"} => request.title \in Title
  /\ request.kind \in {"completed", "cancelled"} => request.goal \in GoalId
  /\ pc = "update" => request.kind \in {"completed", "cancelled"}
  /\ pc \in Step \ {"createGoal", "raise"} => request.goal \in GoalId
  /\ pc \in Step \ BeforePlan => plan \in PlanId

Unique(registry) ==
  \A g, h \in GoalId :
    registry[g].status = "active" /\ registry[h] = registry[g] => h = g

\* No two active goals are alike, in memory and, since the next daemon starts
\* from it, in the file.
IInv ==
  /\ TypeOK
  /\ StageOK
  /\ Unique(goals)
  /\ goalFile # Torn => Unique(goalFile)

-----------------------------------------------------------------------------
(* A change of a registry keeps it unique. *)

\* A new goal whose title no active goal has.
LEMMA NewKeepsUnique ==
  ASSUME goals \in [GoalId -> Goal], Unique(goals),
         NEW g \in GoalId, NEW t \in Title, ActiveWith(t) = {}
  PROVE  LET changed == [goals EXCEPT ![g] = [title |-> t, status |-> "active"]]
         IN  changed \in [GoalId -> Goal] /\ Unique(changed)
  <1> DEFINE new == [title |-> t, status |-> "active"]
             changed == [goals EXCEPT ![g] = new]
  <1>1. new \in Goal /\ changed \in [GoalId -> Goal]
    BY DEF Goal, GoalStatus
  <1>2. \A h \in GoalId : goals[h] # new
    BY DEF ActiveWith
  <1>3. Unique(changed)
    BY <1>2, SMT DEF Unique, Goal
  <1> QED BY <1>1, <1>3

\* A goal that gets a status other than active.
LEMMA ClosedKeepsUnique ==
  ASSUME goals \in [GoalId -> Goal], Unique(goals),
         NEW g \in GoalId, NEW s \in Closed
  PROVE  LET changed == [goals EXCEPT ![g].status = s]
         IN  changed \in [GoalId -> Goal] /\ Unique(changed)
  <1> DEFINE changed == [goals EXCEPT ![g].status = s]
  <1>1. changed \in [GoalId -> Goal]
    BY DEF Goal, GoalStatus, Closed
  <1>2. changed[g].status # "active"
    BY DEF Goal, Closed
  <1>3. \A h \in GoalId \ {g} : changed[h] = goals[h]
    BY DEF Goal
  <1>4. Unique(changed)
    BY <1>2, <1>3 DEF Unique
  <1> QED BY <1>1, <1>4

LEMMA EmptyIsUnique == NoGoals \in [GoalId -> Goal] /\ Unique(NoGoals)
  BY DEF NoGoals, Goal, GoalStatus, Unique

\* A save leaves the changed registry in memory and the file torn or as it was.
LEMMA SavedGoals ==
  ASSUME IInv, NEW changed \in [GoalId -> Goal], Unique(changed),
         NEW next, SaveGoals(changed, next)
  PROVE  /\ goals' \in [GoalId -> Goal] /\ Unique(goals')
         /\ goalFile' \in {Torn} \cup [GoalId -> Goal]
         /\ goalFile' # Torn => Unique(goalFile')
         /\ writing' \in {"none", "goals", "plans"}
         /\ pc' \in {next, "raise"} /\ faults' \in Nat
         /\ behind' \in BOOLEAN
         /\ UNCHANGED <<plans, planFile, requests, crashes>>
  <1> USE DEF IInv, TypeOK, SaveGoals, Fault
  <1>1. behind' \in BOOLEAN
    BY Zenon
  <1>2. goals' = changed
    OBVIOUS
  <1>3. goalFile' # Torn => goalFile' = goalFile
    OBVIOUS
  <1>4. Unique(goals') /\ (goalFile' # Torn => Unique(goalFile'))
    BY <1>2, <1>3
  <1> QED BY <1>1, <1>4

LEMMA SavedPlans ==
  ASSUME IInv, NEW changed \in [PlanId -> Plan],
         NEW next, SavePlans(changed, next)
  PROVE  /\ plans' \in [PlanId -> Plan]
         /\ planFile' \in {Torn} \cup [PlanId -> Plan]
         /\ writing' \in {"none", "goals", "plans"}
         /\ pc' \in {next, "raise"} /\ faults' \in Nat
         /\ UNCHANGED <<goals, goalFile, requests, crashes, behind>>
  BY DEF IInv, TypeOK, SavePlans, Fault
-----------------------------------------------------------------------------
(* Every step keeps the invariant. *)

LEMMA InitEstablishes == Init => IInv
  <1> SUFFICES ASSUME Init PROVE IInv
    OBVIOUS
  <1>1. Unique(goals) /\ Unique(goalFile) /\ goals \in [GoalId -> Goal]
    BY EmptyIsUnique DEF Init
  <1>2. TypeOK
    BY <1>1 DEF Init, TypeOK, NoPlans, Plan, PlanStatus, NoRequest, Kind, Step
  <1>3. StageOK
    BY DEF Init, StageOK, NoRequest, Step
  <1> QED BY <1>1, <1>2, <1>3 DEF IInv

LEMMA TakeKeeps ==
  ASSUME IInv, NEW k \in Kind, NEW t \in Title \cup {NoTitle},
         NEW g \in GoalId \cup {NoGoal}, Take(k, t, g),
         k \in {"create", "process"} => t \in Title,
         k \in {"completed", "cancelled"} => g \in GoalId
  PROVE  IInv'
  <1>1. TypeOK'
    BY DEF IInv, TypeOK, Take, stores, history, Kind, Step
  <1>2. StageOK'
    BY DEF IInv, StageOK, Take, Kind, Step, BeforePlan
  <1> QED BY <1>1, <1>2 DEF IInv, Take, stores, Unique

LEMMA CreateGoalKeeps == ASSUME IInv, CreateGoal PROVE IInv'
  <1> USE DEF At
  <1>0. request.title \in Title /\ request.kind \in {"create", "process"}
    BY DEF IInv, StageOK, CreateGoal
  <1>a. AfterCreate \in {"createPlan", "answer"}
    BY DEF AfterCreate
  <1>1. CASE \E g \in ActiveWith(request.title) :
               /\ request' = [request EXCEPT !.goal = g]
               /\ pc' = AfterCreate
               /\ UNCHANGED <<stores, bounds, minted, behind>>
    <2> PICK g \in ActiveWith(request.title) :
               /\ request' = [request EXCEPT !.goal = g]
               /\ pc' = AfterCreate
               /\ UNCHANGED <<stores, bounds, minted, behind>>
      BY <1>1
    <2>0. g \in GoalId
      BY DEF ActiveWith
    <2>1. TypeOK'
      BY <1>0, <1>a, <2>0 DEF IInv, TypeOK, CreateGoal, stores, bounds, Kind, Step
    <2>2. StageOK'
      BY <1>0, <1>a, <2>0 DEF IInv, TypeOK, StageOK, BeforePlan, Kind
    <2> QED BY <2>1, <2>2 DEF IInv, stores, Unique
  <1>2. CASE \E g \in GoalId \ minted :
               /\ ActiveWith(request.title) = {}
               /\ SaveGoals([goals EXCEPT ![g] = [title |-> request.title,
                                                  status |-> "active"]], AfterCreate)
               /\ minted' = minted \cup {g} /\ request' = [request EXCEPT !.goal = g]
    <2> PICK g \in GoalId \ minted :
               /\ ActiveWith(request.title) = {}
               /\ SaveGoals([goals EXCEPT ![g] = [title |-> request.title,
                                                  status |-> "active"]], AfterCreate)
               /\ minted' = minted \cup {g} /\ request' = [request EXCEPT !.goal = g]
      BY <1>2
    <2> DEFINE changed == [goals EXCEPT ![g] = [title |-> request.title,
                                                status |-> "active"]]
    <2>1. changed \in [GoalId -> Goal] /\ Unique(changed)
      BY <1>0, NewKeepsUnique DEF IInv, TypeOK
    <2>2. /\ goals' \in [GoalId -> Goal] /\ Unique(goals')
          /\ goalFile' \in {Torn} \cup [GoalId -> Goal]
          /\ goalFile' # Torn => Unique(goalFile')
          /\ writing' \in {"none", "goals", "plans"}
          /\ pc' \in {AfterCreate, "raise"} /\ faults' \in Nat
          /\ behind' \in BOOLEAN
          /\ UNCHANGED <<plans, planFile, requests, crashes>>
      <3> HIDE DEF changed
      <3> SaveGoals(changed, AfterCreate)
        BY DEF changed
      <3> QED BY <2>1, SavedGoals
    <2>3. TypeOK'
      BY <1>0, <1>a, <2>2 DEF IInv, TypeOK, CreateGoal, Kind, Step
    <2>4. StageOK'
      BY <1>0, <1>a, <2>2 DEF IInv, TypeOK, StageOK, BeforePlan, Kind
    <2>5. Unique(goals)' /\ (goalFile # Torn => Unique(goalFile))'
      BY <2>2 DEF Unique
    <2> QED BY <2>3, <2>4, <2>5 DEF IInv
  <1> QED BY <1>1, <1>2 DEF CreateGoal

LEMMA UpdateKeeps == ASSUME IInv, Update PROVE IInv'
  <1> DEFINE g == request.goal
             changed == [goals EXCEPT ![g].status = request.kind]
  <1>0. /\ g \in GoalId /\ request.kind \in {"completed", "cancelled"}
        /\ pc = "update" /\ request' = request /\ plan' = plan
    BY DEF IInv, StageOK, Update, At
  <1>1. changed \in [GoalId -> Goal] /\ Unique(changed)
    BY <1>0, ClosedKeepsUnique DEF IInv, TypeOK, Closed
  <1>2. CASE SaveGoals(changed, "answer")
    <2>1. /\ goals' \in [GoalId -> Goal] /\ Unique(goals')
          /\ goalFile' \in {Torn} \cup [GoalId -> Goal]
          /\ goalFile' # Torn => Unique(goalFile')
          /\ writing' \in {"none", "goals", "plans"}
          /\ pc' \in {"answer", "raise"} /\ faults' \in Nat
          /\ behind' \in BOOLEAN
          /\ UNCHANGED <<plans, planFile, requests, crashes>>
      <3> HIDE DEF changed
      <3> QED BY <1>1, <1>2, SavedGoals
    <2>2. TypeOK'
      BY <1>0, <2>1 DEF IInv, TypeOK, Update, Step
    <2>3. StageOK'
      BY <1>0, <2>1 DEF IInv, StageOK, BeforePlan
    <2>4. Unique(goals)' /\ (goalFile # Torn => Unique(goalFile))'
      BY <2>1 DEF Unique
    <2> QED BY <2>2, <2>3, <2>4 DEF IInv
  <1>3. CASE pc' = "answer" /\ UNCHANGED <<stores, bounds, behind>>
    <2>1. TypeOK'
      BY <1>0, <1>3 DEF IInv, TypeOK, Update, stores, bounds, Step
    <2>2. StageOK'
      BY <1>0, <1>3 DEF IInv, StageOK, BeforePlan
    <2> QED BY <1>3, <2>1, <2>2 DEF IInv, stores, Unique
  <1> QED BY <1>2, <1>3 DEF Update

LEMMA CloseGoalKeeps ==
  ASSUME IInv, NEW step \in {"complete", "fail"}, NEW ending \in Closed,
         NEW next \in {"finishCompleted", "finishFailed"},
         CloseGoal(step, ending, next)
  PROVE  IInv'
  <1> DEFINE g == request.goal
             changed == [goals EXCEPT ![g].status = ending]
  <1>0. /\ g \in GoalId /\ plan \in PlanId /\ pc = step
        /\ request' = request /\ plan' = plan
    BY DEF IInv, StageOK, CloseGoal, At, Step, BeforePlan
  <1>1. changed \in [GoalId -> Goal] /\ Unique(changed)
    BY <1>0, ClosedKeepsUnique DEF IInv, TypeOK
  <1>2. /\ goals' \in [GoalId -> Goal] /\ Unique(goals')
        /\ goalFile' \in {Torn} \cup [GoalId -> Goal]
        /\ goalFile' # Torn => Unique(goalFile')
        /\ writing' \in {"none", "goals", "plans"}
        /\ pc' \in {next, "raise"} /\ faults' \in Nat
        /\ behind' \in BOOLEAN
        /\ UNCHANGED <<plans, planFile, requests, crashes>>
    <2>1. SaveGoals(changed, next)
      BY DEF CloseGoal
    <2> HIDE DEF changed
    <2> QED BY <1>1, <2>1, SavedGoals
  <1>3. TypeOK'
    BY <1>0, <1>2 DEF IInv, TypeOK, CloseGoal, Step
  <1>4. StageOK'
    BY <1>0, <1>2 DEF IInv, StageOK, BeforePlan
  <1>5. Unique(goals)' /\ (goalFile # Torn => Unique(goalFile))'
    BY <1>2 DEF Unique
  <1> QED BY <1>3, <1>4, <1>5 DEF IInv

LEMMA CreatePlanKeeps == ASSUME IInv, CreatePlan PROVE IInv'
  <1> PICK p \in PlanId \ minted :
        /\ SavePlans([plans EXCEPT ![p] = [goal |-> request.goal, status |-> "active",
                                           recorded |-> FALSE]], "planner")
        /\ plan' = p /\ minted' = minted \cup {p}
    BY DEF CreatePlan
  <1> DEFINE new == [goal |-> request.goal, status |-> "active", recorded |-> FALSE]
             changed == [plans EXCEPT ![p] = new]
  <1>0. request.goal \in GoalId /\ pc = "createPlan" /\ request' = request
    BY DEF IInv, StageOK, CreatePlan, At, Step
  <1>1. new \in Plan
    BY <1>0 DEF Plan, PlanStatus
  <1>2. changed \in [PlanId -> Plan]
    BY <1>1 DEF IInv, TypeOK
  <1>3. /\ plans' \in [PlanId -> Plan]
        /\ planFile' \in {Torn} \cup [PlanId -> Plan]
        /\ writing' \in {"none", "goals", "plans"}
        /\ pc' \in {"planner", "raise"} /\ faults' \in Nat
        /\ UNCHANGED <<goals, goalFile, requests, crashes, behind>>
    <2>1. SavePlans(changed, "planner")
      OBVIOUS
    <2> HIDE DEF changed
    <2> QED BY <1>2, <2>1, SavedPlans
  <1>4. TypeOK'
    BY <1>0, <1>3 DEF IInv, TypeOK, CreatePlan, Step
  <1>5. StageOK'
    BY <1>0, <1>3 DEF IInv, StageOK, BeforePlan
  <1> QED BY <1>3, <1>4, <1>5 DEF IInv, Unique

\* set_steps(), finish() and append_steps() change one field of one plan.
LEMMA PlanChangeKeeps ==
  ASSUME IInv, NEW changed \in [PlanId -> Plan], NEW next \in Step \ {"createGoal", "update"},
         pc \in Step \ BeforePlan, SavePlans(changed, next),
         UNCHANGED <<request, plan, minted, told, cut, lost>>
  PROVE  IInv'
  <1>1. /\ plans' \in [PlanId -> Plan]
        /\ planFile' \in {Torn} \cup [PlanId -> Plan]
        /\ writing' \in {"none", "goals", "plans"}
        /\ pc' \in {next, "raise"} /\ faults' \in Nat
        /\ UNCHANGED <<goals, goalFile, requests, crashes, behind>>
    BY SavedPlans
  <1>2. TypeOK'
    BY <1>1 DEF IInv, TypeOK, Step, BeforePlan
  <1>3. StageOK'
    BY <1>1 DEF IInv, StageOK, BeforePlan, Step
  <1> QED BY <1>1, <1>2, <1>3 DEF IInv, Unique

LEMMA PlanStepsKeep ==
  ASSUME IInv,
         \/ SetSteps \/ AppendSteps
         \/ FinishPlan("finishCompleted", "completed", "epilogue")
         \/ FinishPlan("finishFailed", "failed", "fixer")
         \/ FinishPlan("finishFixed", "completed", "epilogue")
  PROVE  IInv'
  <1> DEFINE ends(s) == [plans EXCEPT ![plan].status = s]
             recorded == [plans EXCEPT ![plan].recorded = TRUE]
  <1>0. /\ plan \in PlanId /\ plans \in [PlanId -> Plan]
        /\ plans[plan] \in Plan
    BY DEF IInv, TypeOK, StageOK, SetSteps, AppendSteps, FinishPlan, At, Step, BeforePlan
  <1>1. recorded \in [PlanId -> Plan]
    <2>1. [plans[plan] EXCEPT !.recorded = TRUE] \in Plan
      BY <1>0 DEF Plan
    <2> QED BY <1>0, <2>1
  <1>2. \A s \in PlanStatus : ends(s) \in [PlanId -> Plan]
    <2> TAKE s \in PlanStatus
    <2>1. [plans[plan] EXCEPT !.status = s] \in Plan
      BY <1>0 DEF Plan
    <2> QED BY <1>0, <2>1
  <1>3. CASE SetSteps
    <2> PICK next \in {"complete", "fail"} : SavePlans(recorded, next)
      BY <1>3 DEF SetSteps
    <2>1. pc \in Step \ BeforePlan /\ next \in Step \ {"createGoal", "update"}
      BY <1>3 DEF SetSteps, At, Step, BeforePlan
    <2>2. UNCHANGED <<request, plan, minted, told, cut, lost>>
      BY <1>3 DEF SetSteps
    <2> HIDE DEF recorded
    <2> QED BY <1>1, <2>1, <2>2, PlanChangeKeeps
  <1>4. CASE AppendSteps
    <2>1. ends("active") \in [PlanId -> Plan] /\ SavePlans(ends("active"), "finishFixed")
      BY <1>2, <1>4 DEF AppendSteps, PlanStatus
    <2>2. pc \in Step \ BeforePlan /\ "finishFixed" \in Step \ {"createGoal", "update"}
      BY <1>4 DEF AppendSteps, At, Step, BeforePlan
    <2>3. UNCHANGED <<request, plan, minted, told, cut, lost>>
      BY <1>4 DEF AppendSteps
    <2> HIDE DEF ends
    <2> QED BY <2>1, <2>2, <2>3, PlanChangeKeeps
  <1>5. CASE FinishPlan("finishCompleted", "completed", "epilogue")
    BY <1>2, <1>5, PlanChangeKeeps DEF FinishPlan, At, Step, BeforePlan, PlanStatus
  <1>6. CASE FinishPlan("finishFailed", "failed", "fixer")
    BY <1>2, <1>6, PlanChangeKeeps DEF FinishPlan, At, Step, BeforePlan, PlanStatus
  <1>7. CASE FinishPlan("finishFixed", "completed", "epilogue")
    BY <1>2, <1>7, PlanChangeKeeps DEF FinishPlan, At, Step, BeforePlan, PlanStatus
  <1> QED BY <1>3, <1>4, <1>5, <1>6, <1>7

\* Agent runs and the epilogue change neither goals nor plans.
LEMMA AgentStepsKeep ==
  ASSUME IInv, Planner \/ Fixer \/ Epilogue
  PROVE  IInv'
  <1>1. /\ UNCHANGED <<stores, request, plan, bounds, history>>
        /\ pc \in {"planner", "fixer", "epilogue"}
        /\ pc' \in {"setSteps", "append", "epilogue", "answer", "raise"}
    BY DEF Planner, Fixer, Epilogue, At
  <1>2. plan \in PlanId /\ request.goal \in GoalId
    BY <1>1 DEF IInv, StageOK, Step, BeforePlan
  <1>3. TypeOK'
    BY <1>1 DEF IInv, TypeOK, stores, bounds, history, Step
  <1>4. StageOK'
    BY <1>1, <1>2 DEF IInv, StageOK, stores, BeforePlan
  <1> QED BY <1>1, <1>3, <1>4 DEF IInv, stores, Unique

LEMMA WriteKeeps == ASSUME IInv, Write PROVE IInv'
  <1>1. /\ UNCHANGED <<goals, plans, request, plan, requests, crashes, minted, told, cut, lost>>
        /\ writing' = "none" /\ writing \in {"goals", "plans"}
        /\ pc # "down"
    BY DEF Write, IInv, TypeOK
  <1>2. goalFile' \in {goals, goalFile} /\ planFile' \in {plans, planFile}
    BY DEF Write
  <1>3. faults' \in Nat /\ pc' \in {pc, "raise"}
    BY DEF Write, Fault, IInv, TypeOK
  <1>4. behind' \in BOOLEAN
    BY Zenon DEF Write, IInv, TypeOK
  <1>5. TypeOK'
    BY <1>1, <1>2, <1>3, <1>4 DEF IInv, TypeOK, Step
  <1>6. StageOK'
    BY <1>1, <1>3 DEF IInv, StageOK, BeforePlan
  <1> QED BY <1>1, <1>2, <1>5, <1>6 DEF IInv, Unique

LEMMA EndKeeps == ASSUME IInv, Answer \/ Raise PROVE IInv'
  <1>1. /\ pc' = "idle" /\ request' = NoRequest /\ plan' = NoPlan
        /\ UNCHANGED <<stores, bounds, minted, behind, lost>>
    BY DEF Answer, Raise
  <1>2. told' \in [GoalId -> {"nothing", "known", "closed"}] /\ cut' \subseteq PlanId
    BY DEF Answer, Raise, IInv, TypeOK
  <1>3. TypeOK'
    BY <1>1, <1>2 DEF IInv, TypeOK, stores, bounds, NoRequest
  <1>4. StageOK'
    BY <1>1 DEF StageOK, NoRequest, Step
  <1> QED BY <1>1, <1>3, <1>4 DEF IInv, stores, Unique

LEMMA CrashKeeps == ASSUME IInv, Crash PROVE IInv'
  <1>1. goals' = NoGoals /\ Unique(NoGoals) /\ NoGoals \in [GoalId -> Goal]
    BY EmptyIsUnique DEF Crash
  <1>2. TypeOK'
    BY <1>1 DEF IInv, TypeOK, Crash, NoPlans, Plan, PlanStatus
  <1>3. StageOK'
    BY DEF IInv, StageOK, Crash, Step
  <1>4. Unique(goals)' /\ (goalFile # Torn => Unique(goalFile))'
    BY <1>1 DEF IInv, Crash, Unique
  <1> QED BY <1>2, <1>3, <1>4 DEF IInv

LEMMA BootKeeps == ASSUME IInv, Boot PROVE IInv'
  <1>1. goals' \in [GoalId -> Goal] /\ Unique(goals')
    BY EmptyIsUnique DEF IInv, TypeOK, Boot
  <1>2. plans' \in [PlanId -> Plan]
    BY DEF IInv, TypeOK, Boot, NoPlans, Plan, PlanStatus
  <1>3. request.kind \in Kind \cup {"none"}
    BY DEF IInv, TypeOK
  <1>4. lost' \in BOOLEAN /\ behind' \in BOOLEAN
    BY Zenon DEF IInv, TypeOK, Boot
  <1>5. TypeOK'
    BY <1>1, <1>2, <1>4 DEF IInv, TypeOK, Boot, Step, bounds
  <1>6. StageOK'
    <2>1. request' = request /\ pc' \in {"idle", "createGoal", "update"}
      BY DEF Boot
    <2>2. pc' = "createGoal" => request.kind \in {"create", "process"}
      BY DEF Boot
    <2>3. pc' = "update" => request.kind \in {"completed", "cancelled"}
      <3>1. CASE request = NoRequest
        BY <3>1 DEF Boot
      <3>2. CASE request # NoRequest
        BY <3>2, <1>3 DEF Boot, IInv, StageOK, Kind
      <3> QED BY <3>1, <3>2
    <2> QED BY <2>1, <2>2, <2>3 DEF IInv, StageOK, Step, BeforePlan
  <1>7. Unique(goals)' /\ (goalFile # Torn => Unique(goalFile))'
    BY <1>1 DEF IInv, Boot, Unique
  <1> QED BY <1>5, <1>6, <1>7 DEF IInv

LEMMA StutterKeeps == ASSUME IInv, UNCHANGED vars PROVE IInv'
  BY DEF IInv, TypeOK, StageOK, Unique, vars, stores, bounds, history

LEMMA NextKeeps == IInv /\ [Next]_vars => IInv'
  <1> SUFFICES ASSUME IInv, [Next]_vars PROVE IInv'
    OBVIOUS
  <1>1. CASE \E t \in Title : \E k \in {"create", "process"} : Take(k, t, NoGoal)
    BY <1>1, TakeKeeps DEF Kind
  <1>2. CASE \E g \in GoalId : \E k \in {"completed", "cancelled"} :
               told[g] # "nothing" /\ Take(k, NoTitle, g)
    BY <1>2, TakeKeeps DEF Kind
  <1>3. CASE CreateGoal
    BY <1>3, CreateGoalKeeps
  <1>4. CASE Update
    BY <1>4, UpdateKeeps
  <1>5. CASE CreatePlan
    BY <1>5, CreatePlanKeeps
  <1>6. CASE Planner \/ Fixer \/ Epilogue
    BY <1>6, AgentStepsKeep
  <1>7. CASE \/ CloseGoal("complete", "completed", "finishCompleted")
             \/ CloseGoal("fail", "failed", "finishFailed")
    BY <1>7, CloseGoalKeeps DEF Closed
  <1>8. CASE \/ SetSteps \/ AppendSteps
             \/ FinishPlan("finishCompleted", "completed", "epilogue")
             \/ FinishPlan("finishFailed", "failed", "fixer")
             \/ FinishPlan("finishFixed", "completed", "epilogue")
    BY <1>8, PlanStepsKeep
  <1>9. CASE Write
    BY <1>9, WriteKeeps
  <1>10. CASE Answer \/ Raise
    BY <1>10, EndKeeps
  <1>11. CASE Crash
    BY <1>11, CrashKeeps
  <1>12. CASE Boot
    BY <1>12, BootKeeps
  <1>13. CASE UNCHANGED vars
    BY <1>13, StutterKeeps
  <1> QED BY <1>1, <1>2, <1>3, <1>4, <1>5, <1>6, <1>7, <1>8, <1>9, <1>10,
             <1>11, <1>12, <1>13 DEF Next

-----------------------------------------------------------------------------
\* The registries, their files and the steps of a request keep their types.
THEOREM TypeCorrect == Spec => []TypeOK
  <1>1. IInv => TypeOK
    BY DEF IInv
  <1> QED BY InitEstablishes, NextKeeps, <1>1, PTL DEF Spec

\* GoalStore.create never leaves two active goals with one title, whatever
\* saves fail and wherever daemons die and execute a request again.
THEOREM ActiveTitlesAreUnique == Spec => []OneActiveGoalPerTitle
  <1>1. IInv => OneActiveGoalPerTitle
    BY DEF IInv, Unique, OneActiveGoalPerTitle
  <1> QED BY InitEstablishes, NextKeeps, <1>1, PTL DEF Spec

-----------------------------------------------------------------------------
(* Plans and goals.  A goal that is closed stays closed: the file of the    *)
(* goals is written, or torn, before the plan is finished, and ids are not  *)
(* handed out twice.                                                        *)

\* g is not active, now or in a daemon that starts from the file.
Shut(g) ==
  /\ g \in minted
  /\ goals[g].status # "active"
  /\ goalFile # Torn => goalFile[g].status # "active"

Finished == {"completed", "failed"}
PlanDone(registry) ==
  \A p \in PlanId : registry[p].status \in Finished =>
    /\ registry[p].recorded
    /\ registry[p].goal \in GoalId /\ Shut(registry[p].goal)

\* No goal is known that was not handed out.
GoalsMinted ==
  \A g \in GoalId \ minted :
    /\ goals[g].status = "absent"
    /\ goalFile # Torn => goalFile[g].status = "absent"

\* An active plan is the one in hand, or it was cut short.
PlanOpen(registry) ==
  \A p \in PlanId : registry[p].status = "active" => p \in cut \cup {plan}

AfterFinish == {"fixer", "epilogue", "answer"}
AfterClose == {"finishCompleted", "finishFailed", "fixer", "append", "finishFixed", "epilogue"}
AfterSet == AfterClose \cup {"complete", "fail"}
AfterPlan == AfterSet \cup {"planner", "setSteps"}

Follow ==
  /\ GoalsMinted
  /\ PlanDone(plans) /\ PlanOpen(plans)
  /\ planFile # Torn => PlanDone(planFile) /\ PlanOpen(planFile)
  /\ pc \in {"idle", "down", "createGoal", "update", "createPlan"} => plan = NoPlan
  /\ pc \in AfterPlan \cup {"createPlan"} => request.goal \in minted
  /\ pc \in AfterPlan => plans[plan].goal = request.goal
  /\ pc \in AfterSet => plans[plan].recorded
  /\ pc \in AfterClose => Shut(request.goal)
  /\ pc \in AfterFinish /\ plan # NoPlan =>
       /\ plans[plan].status # "active"
       /\ planFile # Torn => planFile[plan].status # "active"

LEMMA FollowInit == Init => Follow
  BY GoalAssumption DEF Init, NoGoals, NoPlans, Follow, GoalsMinted, PlanDone, PlanOpen, Shut, Finished,
     AfterPlan, AfterSet, AfterClose, AfterFinish

\* Steps that change no registry and no file.
LEMMA IdleFollows ==
  ASSUME IInv, Follow, UNCHANGED <<goals, plans, goalFile, planFile, minted>>,
         cut \subseteq cut',
         \A p \in PlanId : p = plan => p \in cut' \cup {plan'} \/ pc \in AfterFinish,
         pc' \in {"idle", "down", "createGoal", "update", "createPlan"} => plan' = NoPlan,
         pc' \in AfterPlan \cup {"createPlan"} => request'.goal \in minted,
         pc' \in AfterPlan => pc \in AfterPlan /\ plan' = plan /\ request' = request,
         pc' \in AfterSet => plans[plan].recorded,
         pc' \in AfterClose => pc \in AfterClose,
         pc' \in AfterFinish => plan' = NoPlan \/ (plan' = plan /\ pc \in AfterFinish)
  PROVE  Follow'
  <1>0. \A g \in GoalId : Shut(g)' <=> Shut(g)
    BY DEF Shut
  <1>1. GoalsMinted'
    BY DEF Follow, GoalsMinted
  <1>2. PlanDone(plans)' /\ (planFile # Torn => PlanDone(planFile))'
    BY <1>0 DEF Follow, PlanDone
  <1>3. PlanOpen(plans)' /\ (planFile # Torn => PlanOpen(planFile))'
    BY GoalAssumption DEF Follow, PlanOpen
  <1>4. pc' \in AfterClose => Shut(request.goal)'
    BY <1>0 DEF Follow, IInv, StageOK, AfterClose, AfterPlan, AfterSet, BeforePlan, Step, Shut
  <1>5. pc' \in AfterFinish /\ plan' # NoPlan =>
          /\ plans'[plan'].status # "active"
          /\ planFile' # Torn => planFile'[plan'].status # "active"
    BY DEF Follow
  <1>6. pc' \in AfterPlan => plans'[plan'].goal = request'.goal
    BY DEF Follow
  <1>7. pc' \in AfterSet => plans'[plan'].recorded
    BY DEF AfterPlan
  <1> QED BY <1>1, <1>2, <1>3, <1>4, <1>5, <1>6, <1>7 DEF Follow

\* Requests, agents, reflection and answers.
LEMMA QuietFollows ==
  ASSUME IInv, Follow,
         \/ \E k \in Kind, t \in Title \cup {NoTitle}, g \in GoalId \cup {NoGoal} : Take(k, t, g)
         \/ Planner \/ Fixer \/ Epilogue \/ Answer \/ Raise
  PROVE  Follow'
  <1>0. UNCHANGED <<goals, plans, goalFile, planFile, minted>>
    BY DEF Take, Planner, Fixer, Epilogue, Answer, Raise, stores, history
  <1>1. CASE \E k \in Kind, t \in Title \cup {NoTitle}, g \in GoalId \cup {NoGoal} : Take(k, t, g)
    <2>1. /\ pc = "idle" /\ pc' \in {"createGoal", "update"} /\ plan' = plan /\ cut' = cut
      BY <1>1 DEF Take, history
    <2> QED BY <1>0, <2>1, IdleFollows DEF Follow, AfterPlan, AfterSet, AfterClose, AfterFinish
  <1>2. CASE Planner
    <2>1. /\ pc = "planner" /\ pc' \in {"setSteps", "raise"} /\ plan' = plan /\ cut' = cut
          /\ request' = request
      BY <1>2 DEF Planner, At, history
    <2> QED BY <1>0, <2>1, IdleFollows DEF Follow, AfterPlan, AfterSet, AfterClose, AfterFinish
  <1>3. CASE Fixer \/ Epilogue
    <2>1. /\ \/ pc = "fixer" /\ pc' \in {"append", "epilogue", "raise"}
             \/ pc = "epilogue" /\ pc' \in {"answer", "raise"}
          /\ plan' = plan /\ cut' = cut /\ request' = request
      BY <1>3 DEF Fixer, Epilogue, At, history
    <2> QED BY <1>0, <2>1, IdleFollows DEF Follow, AfterPlan, AfterSet, AfterClose, AfterFinish
  <1>4. CASE Answer \/ Raise
    <2>1. /\ pc' = "idle" /\ plan' = NoPlan /\ cut \subseteq cut'
          /\ pc = "answer" \/ plan \in cut' \cup {NoPlan}
      BY <1>4 DEF Answer, Raise, At
    <2> QED BY <1>0, <2>1, IdleFollows DEF AfterPlan, AfterSet, AfterClose, AfterFinish
  <1> QED BY <1>1, <1>2, <1>3, <1>4

\* A save of the plans: the file is torn, or the request raises.
LEMMA SavedPlansFollow ==
  ASSUME IInv, Follow, NEW changed \in [PlanId -> Plan], NEW next \in AfterPlan,
         SavePlans(changed, next), UNCHANGED <<request, plan, minted, cut>>,
         plan \in PlanId, request.goal \in minted,
         PlanDone(changed), PlanOpen(changed),
         changed[plan].goal = request.goal,
         next \in AfterSet => changed[plan].recorded,
         next \in AfterClose => Shut(request.goal),
         next \in AfterFinish => changed[plan].status # "active"
  PROVE  Follow'
  <1>0. /\ plans' = changed /\ UNCHANGED <<goals, goalFile>>
        /\ \/ planFile' = Torn /\ pc' = next
           \/ planFile' = planFile /\ pc' = "raise"
    BY DEF SavePlans
  <1>1. \A g \in GoalId : Shut(g)' <=> Shut(g)
    BY <1>0 DEF Shut
  <1>2. GoalsMinted'
    BY <1>0 DEF Follow, GoalsMinted
  <1>3. PlanDone(plans)' /\ (planFile # Torn => PlanDone(planFile))'
    BY <1>0, <1>1 DEF Follow, PlanDone
  <1>4. PlanOpen(plans)' /\ (planFile # Torn => PlanOpen(planFile))'
    BY <1>0 DEF Follow, PlanOpen
  <1>5. (Shut(request.goal))' <=> Shut(request.goal)
    BY <1>0 DEF Shut
  <1> QED BY <1>0, <1>2, <1>3, <1>4, <1>5 DEF Follow, AfterPlan, AfterSet, AfterClose, AfterFinish

\* One plan changes: the new status is not a finished one before the goal is
\* closed and the steps are recorded.
LEMMA PlanChangeFollows ==
  ASSUME IInv, Follow, plan \in PlanId, pc \in AfterPlan, NEW changed \in [PlanId -> Plan],
         \A p \in PlanId \ {plan} : changed[p] = plans[p],
         changed[plan].goal = request.goal,
         changed[plan].status \in Finished =>
           changed[plan].recorded /\ (pc \in AfterClose \/ plans[plan].status \in Finished)
  PROVE  PlanDone(changed) /\ PlanOpen(changed)
  <1>0. request.goal \in GoalId /\ plans \in [PlanId -> Plan]
    BY DEF IInv, TypeOK, StageOK, AfterPlan, AfterSet, AfterClose, Step
  <1>1. changed[plan].status \in Finished => Shut(request.goal)
    BY DEF Follow, PlanDone
  <1>2. PlanDone(changed)
    BY <1>0, <1>1 DEF Follow, PlanDone
  <1>3. PlanOpen(changed)
    BY DEF Follow, PlanOpen
  <1> QED BY <1>2, <1>3

LEMMA PlanStepsFollow ==
  ASSUME IInv, Follow,
         \/ SetSteps \/ AppendSteps
         \/ FinishPlan("finishCompleted", "completed", "epilogue")
         \/ FinishPlan("finishFailed", "failed", "fixer")
         \/ FinishPlan("finishFixed", "completed", "epilogue")
  PROVE  Follow'
  <1>0. /\ plan \in PlanId /\ plans \in [PlanId -> Plan] /\ plans[plan] \in Plan
        /\ pc \in AfterPlan /\ request.goal \in minted /\ plans[plan].goal = request.goal
        /\ UNCHANGED <<request, plan, minted, cut>>
    BY DEF IInv, TypeOK, StageOK, SetSteps, AppendSteps, FinishPlan, At, Step, BeforePlan,
       Follow, AfterPlan, AfterSet, AfterClose
  <1>1. CASE SetSteps
    <2> DEFINE row == [plans[plan] EXCEPT !.recorded = TRUE]
               changed == [plans EXCEPT ![plan].recorded = TRUE]
    <2>1. PICK next \in {"complete", "fail"} : SavePlans(changed, next)
      BY <1>1 DEF SetSteps
    <2>2. row \in Plan /\ row.goal = request.goal /\ row.status = plans[plan].status /\ row.recorded
      BY <1>0 DEF Plan
    <2>3. /\ changed \in [PlanId -> Plan] /\ changed[plan] = row
          /\ \A p \in PlanId \ {plan} : changed[p] = plans[p]
      BY <1>0, <2>2
    <2> HIDE DEF changed, row
    <2>4. PlanDone(changed) /\ PlanOpen(changed)
      BY <1>0, <2>2, <2>3, PlanChangeFollows
    <2> QED
      BY <1>0, <2>1, <2>2, <2>3, <2>4, SavedPlansFollow DEF AfterPlan, AfterSet, AfterClose, AfterFinish
  <1>2. ASSUME NEW step \in AfterClose, NEW s \in Finished \cup {"active"},
               NEW next \in {"epilogue", "fixer", "finishFixed"},
               next \in {"epilogue", "fixer"} => s \in Finished,
               pc = step, SavePlans([plans EXCEPT ![plan].status = s], next)
        PROVE  Follow'
    <2> DEFINE row == [plans[plan] EXCEPT !.status = s]
               changed == [plans EXCEPT ![plan].status = s]
    <2>1. plans[plan].recorded /\ Shut(request.goal)
      BY <1>0, <1>2 DEF Follow, AfterSet
    <2>2. row \in Plan /\ row.goal = request.goal /\ row.status = s /\ row.recorded
      BY <1>0, <1>2, <2>1 DEF Plan, PlanStatus, Finished
    <2>3. /\ changed \in [PlanId -> Plan] /\ changed[plan] = row
          /\ \A p \in PlanId \ {plan} : changed[p] = plans[p]
      BY <1>0, <2>2
    <2>4. SavePlans(changed, next)
      BY <1>2
    <2> HIDE DEF changed, row
    <2>5. PlanDone(changed) /\ PlanOpen(changed)
      BY <1>0, <1>2, <2>2, <2>3, PlanChangeFollows
    <2> QED
      BY <1>0, <1>2, <2>1, <2>2, <2>3, <2>4, <2>5, SavedPlansFollow
      DEF AfterPlan, AfterSet, AfterClose, AfterFinish, Finished
  <1>3. CASE AppendSteps
    BY <1>2, <1>3 DEF AppendSteps, At, AfterClose
  <1>4. CASE FinishPlan("finishCompleted", "completed", "epilogue")
    BY <1>2, <1>4 DEF FinishPlan, At, AfterClose, Finished
  <1>5. CASE FinishPlan("finishFailed", "failed", "fixer")
    BY <1>2, <1>5 DEF FinishPlan, At, AfterClose, Finished
  <1>6. CASE FinishPlan("finishFixed", "completed", "epilogue")
    BY <1>2, <1>6 DEF FinishPlan, At, AfterClose, Finished
  <1> QED BY <1>1, <1>3, <1>4, <1>5, <1>6

LEMMA CreatePlanFollows == ASSUME IInv, Follow, CreatePlan PROVE Follow'
  <1> PICK p \in PlanId \ minted :
        /\ SavePlans([plans EXCEPT ![p] = [goal |-> request.goal, status |-> "active",
                                           recorded |-> FALSE]], "planner")
        /\ plan' = p /\ minted' = minted \cup {p}
    BY DEF CreatePlan
  <1>0. /\ pc = "createPlan" /\ plan = NoPlan /\ plan \notin PlanId /\ request.goal \in minted
        /\ UNCHANGED <<goals, goalFile, request, cut>> /\ plans \in [PlanId -> Plan]
    BY GoalAssumption DEF CreatePlan, At, Follow, SavePlans, IInv, TypeOK
  <1>1. /\ plans' = [plans EXCEPT ![p] = [goal |-> request.goal, status |-> "active", recorded |-> FALSE]]
        /\ \/ planFile' = Torn /\ pc' = "planner"
           \/ planFile' = planFile /\ pc' = "raise"
    BY DEF SavePlans
  <1>2. \A g \in GoalId : Shut(g) => Shut(g)'
    BY <1>0 DEF Shut
  <1>3. GoalsMinted'
    BY <1>0 DEF Follow, GoalsMinted
  <1>4. /\ plans'[p] = [goal |-> request.goal, status |-> "active", recorded |-> FALSE]
        /\ \A q \in PlanId \ {p} : plans'[q] = plans[q]
    BY <1>0, <1>1
  <1>5. PlanDone(plans)' /\ (planFile # Torn => PlanDone(planFile))'
    BY <1>1, <1>2, <1>4 DEF Follow, PlanDone, Finished
  <1>6. PlanOpen(plans)' /\ (planFile # Torn => PlanOpen(planFile))'
    BY <1>0, <1>1, <1>4 DEF Follow, PlanOpen
  <1> QED BY <1>0, <1>1, <1>3, <1>4, <1>5, <1>6 DEF Follow, AfterPlan, AfterSet, AfterClose, AfterFinish

\* A save of the goals that reopens none: the file is torn, or the request raises.
LEMMA SavedGoalsFollow ==
  ASSUME IInv, Follow, NEW changed \in [GoalId -> Goal], NEW next, SaveGoals(changed, next),
         UNCHANGED <<plan, cut>>, minted \subseteq minted',
         \A g \in GoalId \cap minted : goals[g].status # "active" => changed[g].status # "active",
         \A g \in GoalId \ minted' : changed[g].status = "absent",
         next \in {"createPlan", "answer", "finishCompleted", "finishFailed"},
         next \in {"createPlan", "answer"} => plan = NoPlan,
         next = "createPlan" => request'.goal \in minted',
         next \in AfterClose => /\ pc \in AfterSet /\ request' = request
                                /\ request.goal \in GoalId \cap minted
                                /\ changed[request.goal].status # "active"
  PROVE  Follow'
  <1>0. /\ goals' = changed /\ UNCHANGED <<plans, planFile>>
        /\ \/ goalFile' = Torn /\ pc' = next
           \/ goalFile' = goalFile /\ pc' = "raise"
    BY DEF SaveGoals
  <1>1. \A g \in GoalId : Shut(g) => Shut(g)'
    BY <1>0 DEF Shut
  <1>2. GoalsMinted'
    BY <1>0 DEF Follow, GoalsMinted
  <1>3. PlanDone(plans)' /\ (planFile # Torn => PlanDone(planFile))'
    BY <1>0, <1>1 DEF Follow, PlanDone
  <1>4. PlanOpen(plans)' /\ (planFile # Torn => PlanOpen(planFile))'
    BY <1>0 DEF Follow, PlanOpen
  <1>5. pc' \in AfterClose => Shut(request.goal)'
    BY <1>0 DEF Shut, AfterClose
  <1>6. /\ pc' \in AfterPlan => plans'[plan'].goal = request'.goal /\ request'.goal \in minted'
        /\ pc' \in AfterSet => plans'[plan'].recorded
    BY <1>0 DEF Follow, AfterPlan, AfterSet, AfterClose
  <1> QED BY <1>0, <1>2, <1>3, <1>4, <1>5, <1>6 DEF Follow, AfterPlan, AfterSet, AfterClose, AfterFinish

LEMMA CreateGoalFollows == ASSUME IInv, Follow, CreateGoal PROVE Follow'
  <1>0. /\ pc = "createGoal" /\ plan = NoPlan /\ UNCHANGED <<plan, cut>>
        /\ goals \in [GoalId -> Goal] /\ request.title \in Title
        /\ AfterCreate \in {"createPlan", "answer"}
    BY DEF CreateGoal, At, Follow, IInv, TypeOK, StageOK, AfterCreate
  <1>1. ASSUME NEW g \in ActiveWith(request.title), request' = [request EXCEPT !.goal = g],
               pc' = AfterCreate, UNCHANGED <<stores, bounds, minted, behind>>
        PROVE  Follow'
    <2>1. g \in GoalId \cap minted
      BY DEF ActiveWith, Follow, GoalsMinted
    <2>2. request'.goal = g
      BY <1>1 DEF IInv, TypeOK
    <2> QED
      BY <1>0, <1>1, <2>1, <2>2, IdleFollows DEF stores, AfterPlan, AfterSet, AfterClose, AfterFinish
  <1>2. ASSUME NEW g \in GoalId \ minted,
               SaveGoals([goals EXCEPT ![g] = [title |-> request.title, status |-> "active"]], AfterCreate),
               minted' = minted \cup {g}, request' = [request EXCEPT !.goal = g]
        PROVE  Follow'
    <2> DEFINE new == [title |-> request.title, status |-> "active"]
               changed == [goals EXCEPT ![g] = new]
    <2>1. new \in Goal
      BY <1>0 DEF Goal, GoalStatus
    <2>2. changed \in [GoalId -> Goal] /\ \A h \in GoalId \ {g} : changed[h] = goals[h]
      BY <1>0, <2>1
    <2>3. request'.goal = g
      BY <1>2 DEF IInv, TypeOK
    <2>4. SaveGoals(changed, AfterCreate)
      BY <1>2
    <2> HIDE DEF changed
    <2> QED
      BY <1>0, <1>2, <2>2, <2>3, <2>4, SavedGoalsFollow DEF Follow, GoalsMinted, AfterClose
  <1> QED BY <1>1, <1>2 DEF CreateGoal

\* complete(), fail() and cancel(): one goal gets a closed status.
LEMMA ClosedFollows ==
  ASSUME IInv, Follow, NEW s \in Closed, request.goal \in GoalId,
         NEW next, SaveGoals([goals EXCEPT ![request.goal].status = s], next),
         goals[request.goal].status # "absent" \/ request.goal \in minted,
         UNCHANGED <<request, plan, minted, cut>>,
         next \in {"answer", "finishCompleted", "finishFailed"},
         next = "answer" => plan = NoPlan,
         next \in AfterClose => pc \in AfterSet
  PROVE  Follow'
  <1> DEFINE g == request.goal
             row == [goals[g] EXCEPT !.status = s]
             changed == [goals EXCEPT ![g].status = s]
  <1>0. goals \in [GoalId -> Goal] /\ goals[g] \in Goal /\ g \in minted
    BY DEF IInv, TypeOK, Follow, GoalsMinted
  <1>1. row \in Goal /\ row.status # "active"
    BY <1>0 DEF Goal, GoalStatus, Closed
  <1>2. /\ changed \in [GoalId -> Goal] /\ changed[g] = row
        /\ \A h \in GoalId \ {g} : changed[h] = goals[h]
    BY <1>0, <1>1
  <1>3. SaveGoals(changed, next)
    OBVIOUS
  <1> HIDE DEF changed, row
  <1> QED BY <1>0, <1>1, <1>2, <1>3, SavedGoalsFollow DEF Follow, GoalsMinted, AfterClose

LEMMA UpdateFollows == ASSUME IInv, Follow, Update PROVE Follow'
  <1>0. /\ pc = "update" /\ plan = NoPlan /\ request.kind \in Closed /\ request.goal \in GoalId
        /\ UNCHANGED <<request, plan, minted, cut>>
    BY DEF Update, At, Follow, IInv, StageOK, Closed
  <1>1. CASE /\ goals[request.goal].status # "absent"
             /\ SaveGoals([goals EXCEPT ![request.goal].status = request.kind], "answer")
    BY <1>0, <1>1, ClosedFollows DEF AfterClose
  <1>2. CASE pc' = "answer" /\ UNCHANGED <<stores, bounds, behind>>
    BY <1>0, <1>2, IdleFollows DEF stores, AfterPlan, AfterSet, AfterClose, AfterFinish
  <1> QED BY <1>1, <1>2 DEF Update

LEMMA CloseGoalFollows ==
  ASSUME IInv, Follow, NEW step \in {"complete", "fail"}, NEW ending \in Closed,
         NEW next \in {"finishCompleted", "finishFailed"}, CloseGoal(step, ending, next)
  PROVE  Follow'
  <1>1. /\ pc = step /\ request.goal \in GoalId \cap minted /\ UNCHANGED <<request, plan, minted, cut>>
        /\ SaveGoals([goals EXCEPT ![request.goal].status = ending], next)
    BY DEF CloseGoal, At, Follow, IInv, StageOK, Step, BeforePlan, AfterPlan, AfterSet, AfterClose
  <1> QED BY <1>1, ClosedFollows DEF AfterSet, AfterClose

LEMMA WriteFollows == ASSUME IInv, Follow, Write PROVE Follow'
  <1>0. /\ UNCHANGED <<goals, plans, request, plan, minted, cut>>
        /\ goalFile' \in {goals, goalFile} /\ planFile' \in {plans, planFile}
        /\ pc' \in {pc, "raise"}
    BY DEF Write
  <1>1. \A g \in GoalId : Shut(g) => Shut(g)'
    BY <1>0 DEF Shut
  <1>2. GoalsMinted'
    BY <1>0 DEF Follow, GoalsMinted
  <1>3. PlanDone(plans)' /\ (planFile # Torn => PlanDone(planFile))'
    BY <1>0, <1>1 DEF Follow, PlanDone
  <1>4. PlanOpen(plans)' /\ (planFile # Torn => PlanOpen(planFile))'
    BY <1>0 DEF Follow, PlanOpen
  <1>5. pc' \in AfterClose => Shut(request.goal)'
    BY <1>0 DEF Follow, Shut, AfterClose
  <1>6. pc' \in AfterFinish /\ plan # NoPlan =>
          /\ plans[plan].status # "active"
          /\ planFile' # Torn => planFile'[plan].status # "active"
    BY <1>0 DEF Follow, AfterFinish
  <1> QED BY <1>0, <1>2, <1>3, <1>4, <1>5, <1>6 DEF Follow, AfterPlan, AfterSet, AfterClose

LEMMA CrashFollows == ASSUME IInv, Follow, Crash PROVE Follow'
  <1>0. /\ UNCHANGED <<goalFile, planFile, request, minted>> /\ pc' = "down" /\ plan' = NoPlan
        /\ goals' = NoGoals /\ plans' = NoPlans /\ cut' = cut \cup ({plan} \ {NoPlan})
    BY DEF Crash
  <1>1. \A g \in GoalId : Shut(g) => Shut(g)'
    BY <1>0 DEF Shut, NoGoals
  <1>2. GoalsMinted'
    BY <1>0 DEF Follow, GoalsMinted, NoGoals
  <1>3. PlanDone(plans)' /\ (planFile # Torn => PlanDone(planFile))'
    BY <1>0, <1>1 DEF Follow, PlanDone, NoPlans, Finished
  <1>4. PlanOpen(plans)' /\ (planFile # Torn => PlanOpen(planFile))'
    BY <1>0, GoalAssumption DEF Follow, PlanOpen, NoPlans
  <1> QED BY <1>0, <1>2, <1>3, <1>4 DEF Follow, AfterPlan, AfterSet, AfterClose, AfterFinish

LEMMA BootFollows == ASSUME IInv, Follow, Boot PROVE Follow'
  <1>0. /\ UNCHANGED <<goalFile, planFile, request, plan, minted, cut>>
        /\ goals' = IF goalFile = Torn THEN NoGoals ELSE goalFile
        /\ plans' = IF planFile = Torn THEN NoPlans ELSE planFile
        /\ plan = NoPlan /\ pc' \in {"idle", "createGoal", "update"}
    BY DEF Boot, Follow
  <1>1. \A g \in GoalId : Shut(g) => Shut(g)'
    BY <1>0 DEF Shut, NoGoals
  <1>2. GoalsMinted'
    BY <1>0 DEF Follow, GoalsMinted, NoGoals
  <1>3. PlanDone(plans)' /\ (planFile # Torn => PlanDone(planFile))'
    BY <1>0, <1>1 DEF Follow, PlanDone, NoPlans, Finished
  <1>4. PlanOpen(plans)' /\ (planFile # Torn => PlanOpen(planFile))'
    BY <1>0 DEF Follow, PlanOpen, NoPlans
  <1> QED BY <1>0, <1>2, <1>3, <1>4 DEF Follow, AfterPlan, AfterSet, AfterClose, AfterFinish

LEMMA StutterFollows == ASSUME IInv, Follow, UNCHANGED vars PROVE Follow'
  <1>0. UNCHANGED <<goals, plans, goalFile, planFile, pc, request, plan, minted, cut>>
    BY DEF vars, stores, history
  <1>1. \A g \in GoalId : Shut(g)' <=> Shut(g)
    BY <1>0 DEF Shut
  <1>2. GoalsMinted' /\ PlanDone(plans)' /\ (planFile # Torn => PlanDone(planFile))'
    BY <1>0, <1>1 DEF Follow, GoalsMinted, PlanDone
  <1>3. PlanOpen(plans)' /\ (planFile # Torn => PlanOpen(planFile))'
    BY <1>0 DEF Follow, PlanOpen
  <1>4. pc' \in AfterClose => Shut(request.goal)'
    BY <1>0 DEF Follow, Shut
  <1> QED BY <1>0, <1>2, <1>3, <1>4 DEF Follow

LEMMA NextFollows == ASSUME IInv, Follow, [Next]_vars PROVE Follow'
  <1>1. CASE \/ \E t \in Title : \E k \in {"create", "process"} : Take(k, t, NoGoal)
             \/ \E g \in GoalId : \E k \in {"completed", "cancelled"} :
                  told[g] # "nothing" /\ Take(k, NoTitle, g)
             \/ Planner \/ Fixer \/ Epilogue \/ Answer \/ Raise
    BY <1>1, QuietFollows DEF Kind
  <1>2. CASE CreateGoal \/ Update \/ CreatePlan
    BY <1>2, CreateGoalFollows, UpdateFollows, CreatePlanFollows
  <1>3. CASE \/ CloseGoal("complete", "completed", "finishCompleted")
             \/ CloseGoal("fail", "failed", "finishFailed")
    BY <1>3, CloseGoalFollows DEF Closed
  <1>4. CASE \/ SetSteps \/ AppendSteps
             \/ FinishPlan("finishCompleted", "completed", "epilogue")
             \/ FinishPlan("finishFailed", "failed", "fixer")
             \/ FinishPlan("finishFixed", "completed", "epilogue")
    BY <1>4, PlanStepsFollow
  <1>5. CASE Write \/ Crash \/ Boot \/ UNCHANGED vars
    BY <1>5, WriteFollows, CrashFollows, BootFollows, StutterFollows
  <1> QED BY <1>1, <1>2, <1>3, <1>4, <1>5 DEF Next

\* Wherever daemons die and whichever saves fail, a plan the file calls
\* finished has its steps and a closed goal, and a plan that is active while
\* nothing is processed was cut short.
THEOREM PlansFollowTheirGoals == Spec => []PlansFollowGoals
  <1>1. ASSUME IInv, Follow PROVE PlansFollowGoals
    <2>1. FinishedPlanClosedGoal
      BY <1>1 DEF Follow, PlanDone, Shut, Finished, FinishedPlanClosedGoal
    <2>2. ActivePlansWereCut
      BY <1>1, GoalAssumption DEF Follow, PlanOpen, ActivePlansWereCut
    <2> QED BY <2>1, <2>2 DEF PlansFollowGoals
  <1>2. IInv /\ Follow /\ [Next]_vars => Follow'
    BY NextFollows
  <1> QED BY InitEstablishes, NextKeeps, FollowInit, <1>1, <1>2, PTL DEF Spec

-----------------------------------------------------------------------------
(* What clients were told.  Unless the goals were lost, memory and a file   *)
(* that is whole and up to date bear out every answer; and a request past   *)
(* createGoal has a goal that is known.                                     *)

BearsOut(registry) ==
  \A g \in GoalId :
    /\ told[g] # "nothing" => registry[g].status # "absent"
    /\ told[g] = "closed" => registry[g].status # "active"

UpToDate == ~behind /\ goalFile # Torn

Told ==
  /\ request.kind \in {"completed", "cancelled"} => told[request.goal] # "nothing"
  /\ pc # "down" /\ UpToDate => goalFile = goals
  /\ ~lost =>
       /\ pc # "down" => BearsOut(goals)
       /\ UpToDate => BearsOut(goalFile)
       /\ pc \in Step \ {"createGoal", "raise"} => goals[request.goal].status # "absent"

LEMMA ToldInit == Init => Told
  <1> SUFFICES ASSUME Init PROVE Told
    OBVIOUS
  <1>1. \A g \in GoalId : told[g] = "nothing"
    BY DEF Init
  <1>2. request.kind = "none"
    BY DEF Init, NoRequest
  <1> QED BY <1>1, <1>2 DEF Init, Told, BearsOut, Step

\* Steps that leave the goals, their file and the answers alone.
LEMMA QuietTold ==
  ASSUME IInv, Told, pc \notin {"down", "createGoal", "raise"}, pc' # "down",
         UNCHANGED <<goals, goalFile, told, behind, lost>>,
         request'.kind \in {"completed", "cancelled"} => told[request'.goal] # "nothing",
         \/ pc' \in {"createGoal", "raise", "idle"}
         \/ pc' = "update" /\ request'.goal \in GoalId /\ told[request'.goal] # "nothing"
         \/ pc \in Step /\ request' = request
  PROVE  Told'
  <1>1. BearsOut(goals)' <=> BearsOut(goals)
    BY DEF BearsOut
  <1>2. BearsOut(goalFile)' <=> BearsOut(goalFile)
    BY DEF BearsOut
  <1>3. UpToDate' <=> UpToDate
    BY DEF UpToDate
  <1>4. ~lost /\ pc' \in Step \ {"createGoal", "raise"} => goals[request'.goal].status # "absent"
    BY DEF Told, BearsOut, Step
  <1> QED BY <1>1, <1>2, <1>3, <1>4 DEF Told

LEMMA TakeTold ==
  ASSUME IInv, Told, NEW k \in Kind, NEW t, NEW g, Take(k, t, g),
         k \in {"completed", "cancelled"} => g \in GoalId /\ told[g] # "nothing"
  PROVE  Told'
  <1>1. /\ pc = "idle" /\ pc' = (IF k \in {"create", "process"} THEN "createGoal" ELSE "update")
        /\ request'.kind = k /\ request'.goal = g
        /\ UNCHANGED <<goals, goalFile, told, behind, lost>>
    BY DEF Take, stores, history
  <1> QED BY <1>1, QuietTold DEF Kind

\* The processing of a goal up to its answer.
LEMMA ProcessTold ==
  ASSUME IInv, Told,
         \/ CreatePlan \/ Planner \/ Fixer \/ Epilogue \/ SetSteps \/ AppendSteps
         \/ FinishPlan("finishCompleted", "completed", "epilogue")
         \/ FinishPlan("finishFailed", "failed", "fixer")
         \/ FinishPlan("finishFixed", "completed", "epilogue")
  PROVE  Told'
  <1>1. ASSUME NEW changed, NEW next \in Step, SavePlans(changed, next)
        PROVE  pc' # "down" /\ UNCHANGED <<goals, goalFile, behind>>
    BY <1>1 DEF SavePlans, Step
  <1>2. CASE CreatePlan
    <2>1. pc = "createPlan" /\ UNCHANGED <<request, told, lost>>
      BY <1>2 DEF CreatePlan, At
    <2>2. pc' # "down" /\ UNCHANGED <<goals, goalFile, behind>>
      BY <1>1, <1>2 DEF CreatePlan, Step
    <2> QED BY <2>1, <2>2, QuietTold DEF Told, Step
  <1>3. CASE Planner \/ Fixer \/ Epilogue
    <2>1. pc \in {"planner", "fixer", "epilogue"} /\ pc' # "down" /\ UNCHANGED <<request, told, lost>>
      BY <1>3 DEF Planner, Fixer, Epilogue, At, history
    <2>2. UNCHANGED <<goals, goalFile, behind>>
      BY <1>3 DEF Planner, Fixer, Epilogue, stores, history
    <2> QED BY <2>1, <2>2, QuietTold DEF Told, Step
  <1>4. CASE SetSteps \/ AppendSteps
    <2>1. pc \in {"setSteps", "append"} /\ UNCHANGED <<request, told, lost>>
      BY <1>4 DEF SetSteps, AppendSteps, At
    <2>2. pc' # "down" /\ UNCHANGED <<goals, goalFile, behind>>
      BY <1>1, <1>4 DEF SetSteps, AppendSteps, Step
    <2> QED BY <2>1, <2>2, QuietTold DEF Told, Step
  <1>5. ASSUME NEW step \in {"finishCompleted", "finishFailed", "finishFixed"}, NEW ending,
               NEW next \in {"epilogue", "fixer"}, FinishPlan(step, ending, next)
        PROVE  Told'
    <2>1. pc = step /\ UNCHANGED <<request, told, lost>>
      BY <1>5 DEF FinishPlan, At
    <2>2. pc' # "down" /\ UNCHANGED <<goals, goalFile, behind>>
      BY <1>1, <1>5 DEF FinishPlan, Step
    <2> QED BY <2>1, <2>2, QuietTold DEF Told, Step
  <1> QED BY <1>2, <1>3, <1>4, <1>5

\* While a save of the goals is under way or has failed nothing is claimed of the file.
LEMMA SavedGoalsTold ==
  ASSUME IInv, Told, pc # "down", NEW g \in GoalId, NEW changed \in [GoalId -> Goal],
         \A h \in GoalId \ {g} : changed[h] = goals[h],
         changed[g].status # "absent",
         ~lost /\ told[g] = "closed" => changed[g].status # "active",
         NEW next \in Step, SaveGoals(changed, next), UNCHANGED <<told, lost>>,
         request'.kind = request.kind, request'.goal = g,
         request.kind \in {"completed", "cancelled"} => request'.goal = request.goal
  PROVE  Told'
  <1>1. /\ goals' = changed /\ ~UpToDate' /\ pc' \in {next, "raise"}
    BY DEF SaveGoals, UpToDate
  <1>2. ~lost => BearsOut(goals)'
    BY <1>1 DEF Told, BearsOut
  <1> QED BY <1>1, <1>2 DEF Told

LEMMA CreateGoalTold == ASSUME IInv, Follow, Told, CreateGoal PROVE Told'
  <1>0. /\ pc = "createGoal" /\ UNCHANGED <<told, lost>>
        /\ request.title \in Title /\ request.kind \in {"create", "process"}
        /\ AfterCreate \in Step
    BY DEF IInv, StageOK, CreateGoal, At, AfterCreate, Step
  <1>1. ASSUME NEW g \in ActiveWith(request.title), request' = [request EXCEPT !.goal = g],
               pc' = AfterCreate, UNCHANGED <<stores, bounds, minted, behind>>
        PROVE  Told'
    <2>1. g \in GoalId /\ goals[g].status = "active" /\ request'.kind = request.kind
          /\ request'.goal = g /\ UNCHANGED <<goals, goalFile, behind>>
      BY <1>1 DEF ActiveWith, IInv, TypeOK, stores
    <2>2. /\ BearsOut(goals)' <=> BearsOut(goals)
          /\ BearsOut(goalFile)' <=> BearsOut(goalFile)
          /\ UpToDate' <=> UpToDate
      BY <1>0, <1>1, <2>1 DEF BearsOut, UpToDate
    <2> QED BY <1>0, <1>1, <2>1, <2>2 DEF Told
  <1>2. ASSUME NEW g \in GoalId \ minted, ActiveWith(request.title) = {},
               SaveGoals([goals EXCEPT ![g] = [title |-> request.title, status |-> "active"]],
                         AfterCreate),
               request' = [request EXCEPT !.goal = g]
        PROVE  Told'
    <2>1. PICK changed : changed = [goals EXCEPT ![g] = [title |-> request.title, status |-> "active"]]
      OBVIOUS
    <2>2. /\ changed \in [GoalId -> Goal] /\ changed[g].status = "active"
          /\ \A h \in GoalId \ {g} : changed[h] = goals[h]
      BY <1>0, <2>1 DEF IInv, TypeOK, Goal, GoalStatus
    <2>3. ~lost => told[g] # "closed"
      BY <1>0 DEF Told, BearsOut, Follow, GoalsMinted
    <2>4. request'.kind = request.kind /\ request'.goal = g
      BY <1>2 DEF IInv, TypeOK
    <2>5. SaveGoals(changed, AfterCreate)
      BY <1>2, <2>1
    <2> QED BY <1>0, <2>2, <2>3, <2>4, <2>5, SavedGoalsTold
  <1> QED BY <1>1, <1>2 DEF CreateGoal

LEMMA ClosedTold ==
  ASSUME IInv, Told, pc # "down", NEW s \in Closed, NEW next \in Step,
         request.goal \in GoalId,
         SaveGoals([goals EXCEPT ![request.goal].status = s], next),
         UNCHANGED <<request, told, lost>>
  PROVE  Told'
  <1>1. PICK changed : changed = [goals EXCEPT ![request.goal].status = s]
    OBVIOUS
  <1>2. /\ changed \in [GoalId -> Goal] /\ changed[request.goal].status = s
        /\ \A h \in GoalId \ {request.goal} : changed[h] = goals[h]
    BY <1>1 DEF IInv, TypeOK, Goal, GoalStatus, Closed
  <1>3. s \notin {"absent", "active"}
    BY DEF Closed
  <1>4. SaveGoals(changed, next)
    BY <1>1
  <1> QED BY <1>2, <1>3, <1>4, SavedGoalsTold

LEMMA UpdateTold == ASSUME IInv, Told, Update PROVE Told'
  <1>0. /\ pc = "update" /\ request.goal \in GoalId /\ UNCHANGED <<request, told, lost>>
        /\ request.kind \in Closed /\ "answer" \in Step
    BY DEF IInv, StageOK, Update, At, Step, Closed
  <1>1. CASE SaveGoals([goals EXCEPT ![request.goal].status = request.kind], "answer")
    BY <1>0, <1>1, ClosedTold
  <1>2. CASE pc' = "answer" /\ UNCHANGED <<stores, bounds, behind>>
    BY <1>0, <1>2, QuietTold DEF Told, Step, stores
  <1> QED BY <1>1, <1>2 DEF Update

LEMMA CloseGoalTold ==
  ASSUME IInv, Told, NEW step \in {"complete", "fail"}, NEW ending \in Closed,
         NEW next \in {"finishCompleted", "finishFailed"}, CloseGoal(step, ending, next)
  PROVE  Told'
  <1>1. pc = step /\ request.goal \in GoalId /\ UNCHANGED <<request, told, lost>> /\ next \in Step
    BY DEF IInv, StageOK, CloseGoal, At, Step
  <1> QED BY <1>1, ClosedTold DEF CloseGoal

LEMMA WriteTold == ASSUME IInv, Told, Write PROVE Told'
  <1>1. UNCHANGED <<goals, request, told, lost>> /\ pc # "down" /\ pc' \in {pc, "raise"}
    BY DEF Write
  <1>2. \/ goalFile' = goals
        \/ goalFile' = goalFile /\ (UpToDate' => UpToDate)
    BY DEF Write, UpToDate
  <1>3. BearsOut(goals)' <=> BearsOut(goals)
    BY <1>1 DEF BearsOut
  <1>4. UpToDate' => goalFile' = goals
    BY <1>1, <1>2 DEF Told
  <1>5. UpToDate' /\ ~lost => BearsOut(goalFile)'
    BY <1>1, <1>4 DEF Told, BearsOut
  <1> QED BY <1>1, <1>3, <1>4, <1>5 DEF Told

\* The answer tells what the goal is.
LEMMA AnswerTold == ASSUME IInv, Told, Answer PROVE Told'
  <1>1. /\ pc = "answer" /\ pc' = "idle" /\ request'.kind = "none"
        /\ UNCHANGED <<goals, goalFile, behind, lost>>
        /\ request.goal \in GoalId
    BY DEF Answer, At, IInv, StageOK, stores, Step, NoRequest
  <1>2. \A g \in GoalId :
          told'[g] = IF g = request.goal
                     THEN IF goals[g].status \in Closed THEN "closed" ELSE "known"
                     ELSE told[g]
    BY <1>1 DEF Answer, IInv, TypeOK
  <1>3. ~lost => BearsOut(goals)'
    BY <1>1, <1>2 DEF Told, BearsOut, Step, Closed
  <1>4. UpToDate' => UpToDate /\ goalFile' = goals'
    BY <1>1 DEF Told, UpToDate
  <1>5. UpToDate' /\ ~lost => BearsOut(goalFile)'
    BY <1>3, <1>4 DEF BearsOut
  <1> QED BY <1>1, <1>3, <1>4, <1>5 DEF Told, Step

LEMMA RaiseTold == ASSUME IInv, Told, Raise PROVE Told'
  <1>1. /\ pc = "raise" /\ pc' = "idle" /\ request'.kind = "none"
        /\ UNCHANGED <<goals, goalFile, told, behind, lost>>
    BY DEF Raise, At, stores, NoRequest
  <1>2. /\ BearsOut(goals)' <=> BearsOut(goals)
        /\ BearsOut(goalFile)' <=> BearsOut(goalFile)
        /\ UpToDate' <=> UpToDate
    BY <1>1 DEF BearsOut, UpToDate
  <1> QED BY <1>1, <1>2 DEF Told, Step

\* The next daemon has the goals of the file, if there are any to trust.
LEMMA DownTold == ASSUME IInv, IInv', Told, Crash \/ Boot PROVE Told'
  <1>1. UNCHANGED <<goalFile, request, told>>
    BY DEF Crash, Boot
  <1>2. BearsOut(goalFile)' <=> BearsOut(goalFile)
    BY <1>1 DEF BearsOut
  <1>3. CASE Crash
    <2>1. pc' = "down" /\ UNCHANGED <<behind, lost>> /\ pc' \notin Step
      BY <1>3 DEF Crash, Step
    <2> QED BY <1>1, <1>2, <2>1 DEF Told, UpToDate
  <1>4. CASE Boot
    <2>1. /\ pc = "down" /\ ~lost' => ~lost /\ UpToDate
      BY <1>4 DEF Boot, UpToDate
    <2>2. UpToDate' => goals' = goalFile'
      BY <1>4 DEF Boot, UpToDate
    <2>3. ~lost' => goals' = goalFile /\ BearsOut(goalFile)
      BY <1>4, <2>1 DEF Boot, Told, UpToDate
    <2>4. ~lost' => BearsOut(goals)'
      BY <1>1, <2>3 DEF BearsOut
    <2>5. pc' \in {"idle", "createGoal", "update"}
      BY <1>4 DEF Boot
    <2>6. pc' = "update" => request.kind \in {"completed", "cancelled"} /\ request.goal \in GoalId
      BY <1>1 DEF IInv, StageOK
    <2>7. ~lost' /\ pc' = "update" => goals'[request'.goal].status # "absent"
      BY <1>1, <2>4, <2>6 DEF Told, BearsOut
    <2> QED BY <1>1, <1>2, <2>1, <2>2, <2>3, <2>4, <2>5, <2>7 DEF Told, Step
  <1> QED BY <1>3, <1>4

LEMMA NextTold == ASSUME IInv, IInv', Follow, Told, [Next]_vars PROVE Told'
  <1>1. CASE \/ \E t \in Title : \E k \in {"create", "process"} : Take(k, t, NoGoal)
             \/ \E g \in GoalId : \E k \in {"completed", "cancelled"} :
                  told[g] # "nothing" /\ Take(k, NoTitle, g)
    BY <1>1, TakeTold DEF Kind
  <1>2. CASE \/ CreatePlan \/ Planner \/ Fixer \/ Epilogue \/ SetSteps \/ AppendSteps
             \/ FinishPlan("finishCompleted", "completed", "epilogue")
             \/ FinishPlan("finishFailed", "failed", "fixer")
             \/ FinishPlan("finishFixed", "completed", "epilogue")
    BY <1>2, ProcessTold
  <1>3. CASE CreateGoal \/ Update \/ Write \/ Answer \/ Raise \/ Crash \/ Boot
    BY <1>3, CreateGoalTold, UpdateTold, WriteTold, AnswerTold, RaiseTold, DownTold
  <1>4. CASE \/ CloseGoal("complete", "completed", "finishCompleted")
             \/ CloseGoal("fail", "failed", "finishFailed")
    BY <1>4, CloseGoalTold DEF Closed
  <1>5. CASE UNCHANGED vars
    <2>1. UNCHANGED <<goals, goalFile, pc, request, told, behind, lost>>
      BY <1>5 DEF vars, stores, history
    <2> QED BY <2>1 DEF Told, BearsOut, UpToDate
  <1> QED BY <1>1, <1>2, <1>3, <1>4, <1>5 DEF Next

LEMMA AlwaysFollow == Spec => [](IInv /\ Follow)
  <1>1. IInv /\ Follow /\ [Next]_vars => Follow'
    BY NextFollows
  <1> QED BY InitEstablishes, NextKeeps, FollowInit, <1>1, PTL DEF Spec

\* What a client was told of a goal every later daemon bears out, unless one died
\* in a save of the goals, or after a save that failed and before one that worked.
THEOREM AnswersAreRemembered == Spec => []ToldIsRemembered
  <1>1. IInv /\ Told => ToldIsRemembered
    BY DEF Told, BearsOut, ToldIsRemembered
  <1>2. IInv /\ IInv' /\ Follow /\ Told /\ [Next]_vars => Told'
    BY NextTold
  <1>3. IInv /\ Follow /\ [Next]_vars => Follow'
    BY NextFollows
  <1> QED BY InitEstablishes, NextKeeps, FollowInit, ToldInit, <1>1, <1>2, <1>3, PTL DEF Spec

-----------------------------------------------------------------------------
(* Refinement. *)

LEMMA WholeStep == [WholeNext]_allVars => [Next]_vars
<1> SUFFICES ASSUME [WholeNext]_allVars PROVE Next \/ UNCHANGED vars
  OBVIOUS
<1>1. CASE GoalStep /\ Free
  BY <1>1 DEF GoalStep, Next
<1>2. CASE Write /\ UNCHANGED <<agentVars, listed>>
  BY <1>2 DEF Next
<1>3. CASE RunPlanner
  BY <1>3 DEF RunPlanner, Next
<1>4. CASE StoreSteps
  BY <1>4 DEF StoreSteps, Next
<1>5. CASE RunFixer
  BY <1>5 DEF RunFixer, Next
<1>6. CASE StoreFix
  BY <1>6 DEF StoreFix, Next
<1>7. CASE RunOrchestrator
  BY <1>7 DEF RunOrchestrator, Forget, Next
<1>8. CASE AgentStep(Rows) /\ UNCHANGED <<vars, listed>>
  BY <1>8
<1>9. CASE (Answer \/ Raise \/ Crash) /\ Forget
  BY <1>9 DEF Next
<1>10. CASE UNCHANGED allVars
  BY <1>10 DEF allVars
<1> QED BY <1>1, <1>2, <1>3, <1>4, <1>5, <1>6, <1>7, <1>8, <1>9, <1>10 DEF WholeNext

(* A process_goal whose planner and fixer are the loops of Agents is a
   process_goal whose planner and fixer may do anything. *)
THEOREM AgentsImplementAnyRun == WholeSpec => Spec
<1>1. Start => Init
  BY DEF Start
<1> QED BY <1>1, WholeStep, PTL DEF WholeSpec, Spec

(* So active titles stay unique whatever the agents do in between. *)
THEOREM WholeKeepsTitlesUnique == WholeSpec => []OneActiveGoalPerTitle
  BY AgentsImplementAnyRun, ActiveTitlesAreUnique, PTL

(* And plans agree with their goals. *)
THEOREM WholeKeepsPlansFollowing == WholeSpec => []PlansFollowGoals
  BY AgentsImplementAnyRun, PlansFollowTheirGoals, PTL

(* And every later daemon knows what clients were told of their goals. *)
THEOREM WholeKeepsAnswers == WholeSpec => []ToldIsRemembered
  BY AgentsImplementAnyRun, AnswersAreRemembered, PTL

-----------------------------------------------------------------------------
(* Roles. *)

\* What an agent has decided on, and what it has called, its role allows.
TodoAllowed == agent \in Role => \A i \in DOMAIN todo : Known(agent, todo[i])

AgentTypes ==
  /\ agent \in Agent \cup {"none"} /\ phase \in {"ask", "call", "ended"}
  /\ agent \in Role => todo \in Seq(Action) /\ (phase = "call" => todo # <<>>)
  /\ called = [w \in Agent |-> called[w]]
  /\ \A w \in Role : called[w] \in Seq(Action)

RoleInv == AgentTypes /\ TodoAllowed /\ RolesAreKept

LEMMA RoleInvInit == Start => RoleInv
  BY DEF Start, AgentInit, RoleInv, AgentTypes, TodoAllowed, RolesAreKept, NoCalls, Agent, Role

\* A decision that the role allows.
LEMMA ActsKeeps ==
  ASSUME RoleInv, agent \in Agent, NEW s \in Seq(Action), s # <<>>, Acts(s),
         agent \in Role => \A i \in DOMAIN s : Known(agent, s[i]),
         UNCHANGED <<agent, called>>
  PROVE  RoleInv'
<1>1. AgentTypes'
  BY DEF RoleInv, AgentTypes, Acts
<1>2. TodoAllowed'
  BY DEF TodoAllowed, Acts, Known, Allows
<1>3. RolesAreKept'
  BY DEF RoleInv, RolesAreKept, Known, Allows
<1> QED BY <1>1, <1>2, <1>3 DEF RoleInv

\* The end of a run.
LEMMA EndsKeeps ==
  ASSUME RoleInv, phase' = "ended", UNCHANGED <<agent, todo, called>>
  PROVE  RoleInv'
<1>1. AgentTypes'
  BY DEF RoleInv, AgentTypes
<1>2. TodoAllowed' /\ RolesAreKept'
  BY DEF RoleInv, TodoAllowed, RolesAreKept, Known, Allows
<1> QED BY <1>1, <1>2 DEF RoleInv

\* A run that begins has called nothing.
LEMMA BeginKeeps == ASSUME RoleInv, NEW w \in Agent, Begin(w) PROVE RoleInv'
<1>1. /\ called' = [called EXCEPT ![w] = <<>>] /\ called = [v \in Agent |-> called[v]]
      /\ called' = [v \in Agent |-> called'[v]]
      /\ \A v \in Role : called'[v] = IF v = w THEN <<>> ELSE called[v]
  BY DEF Begin, RoleInv, AgentTypes, Agent
<1>2. AgentTypes'
  BY <1>1 DEF Begin, RoleInv, AgentTypes, Agent
<1>3. TodoAllowed'
  BY DEF Begin, TodoAllowed
<1>4. RolesAreKept'
  BY <1>1 DEF RoleInv, RolesAreKept, Known, Allows, Agent
<1> QED BY <1>2, <1>3, <1>4 DEF RoleInv

LEMMA AskKeeps == ASSUME RoleInv, NEW w \in Role, Ask(w) PROVE RoleInv'
<1>0. agent = w /\ w \in Agent /\ UNCHANGED <<agent, called>>
  BY DEF Ask, Agent
<1>1. ASSUME NEW a \in Action, Known(w, a), Acts(<<a>>) PROVE RoleInv'
  <2>1. <<a>> \in Seq(Action) /\ <<a>> # <<>> /\ \A i \in DOMAIN <<a>> : Known(w, <<a>>[i])
    BY <1>1
  <2> QED BY <1>0, <1>1, <2>1, ActsKeeps
<1>2. ASSUME Bootstrap(w) PROVE RoleInv'
  <2> PICK a \in Rules : \/ Known(w, a) /\ Acts(<<a>>)
                         \/ ~Known(w, a) /\ Ends("done") /\ UNCHANGED <<todo, steps>>
    BY <1>2 DEF Bootstrap
  <2>1. a \in Action
    BY AgentAssumption
  <2> QED BY <1>0, <1>1, <2>1, EndsKeeps DEF Ends
<1>3. ASSUME NEW outcome, Ends(outcome), UNCHANGED todo PROVE RoleInv'
  BY <1>0, <1>3, EndsKeeps DEF Ends
<1> QED BY <1>1, <1>2, <1>3 DEF Ask

\* The orchestrator has no role.
LEMMA PlanKeeps == ASSUME RoleInv, NEW rows \in Rows, AskPlan(rows) PROVE RoleInv'
<1>1. /\ agent = "orchestrator" /\ agent' = agent /\ called' = called
      /\ phase' \in {"call", "ended"}
  BY DEF AskPlan, Acts, Ends
<1> QED BY <1>1 DEF RoleInv, AgentTypes, TodoAllowed, RolesAreKept, Known, Allows, Agent, Role

\* What is called is the head of what was decided.
LEMMA CallKeeps == ASSUME RoleInv, Call PROVE RoleInv'
<1>0. /\ agent \in Agent /\ agent' = agent /\ phase = "call"
      /\ called' = [called EXCEPT ![agent] = Append(@, Head(todo))]
      /\ called = [w \in Agent |-> called[w]] /\ \A w \in Role : called[w] \in Seq(Action)
  BY DEF Call, RoleInv, AgentTypes
<1>1. /\ phase' \in {"ask", "call", "ended"}
      /\ \/ todo' = Tail(todo) /\ (phase' = "call" => todo' # <<>>)
         \/ todo' = <<>> /\ phase' = "ended"
  BY <1>0 DEF Call, Ends
<1>2. CASE agent \notin Role
  <2>1. \A w \in Role : called'[w] = called[w]
    BY <1>0, <1>2 DEF Agent
  <2>2. called' = [w \in Agent |-> called'[w]]
    BY <1>0
  <2> QED BY <1>0, <1>1, <1>2, <2>1, <2>2 DEF RoleInv, AgentTypes, TodoAllowed, RolesAreKept, Known, Allows
<1>3. CASE agent \in Role
  <2>0. todo \in Seq(Action) /\ todo # <<>>
    BY <1>0, <1>3 DEF RoleInv, AgentTypes
  <2>1. Head(todo) \in Action /\ Tail(todo) \in Seq(Action) /\ Known(agent, Head(todo))
    <3>1. 1 \in DOMAIN todo /\ Head(todo) = todo[1]
      BY <2>0
    <3> QED BY <1>3, <2>0, <3>1 DEF RoleInv, TodoAllowed
  <2>2. todo' \in Seq(Action) /\ (phase' = "call" => todo' # <<>>)
    <3>1. CASE todo' = Tail(todo) /\ (phase' = "call" => todo' # <<>>)
      BY <2>1, <3>1
    <3>2. CASE todo' = <<>> /\ phase' = "ended"
      BY <3>2
    <3> QED BY <1>1, <3>1, <3>2
  <2>3. \A w \in Role : called'[w] = IF w = agent THEN Append(called[w], Head(todo)) ELSE called[w]
    BY <1>0, <1>3 DEF Agent
  <2>4. AgentTypes'
    <3>1. \A w \in Role : called'[w] \in Seq(Action)
      BY <1>0, <2>1, <2>3
    <3>2. called' = [w \in Agent |-> called'[w]]
      BY <1>0
    <3> QED BY <1>0, <1>1, <2>2, <3>1, <3>2 DEF AgentTypes
  <2>5. TodoAllowed'
    <3> SUFFICES ASSUME NEW i \in DOMAIN todo' PROVE Known(agent, todo'[i])
      BY <1>0 DEF TodoAllowed, Known, Allows
    <3>1. todo' = Tail(todo) /\ i + 1 \in DOMAIN todo /\ todo'[i] = todo[i + 1]
      BY <1>1, <2>0
    <3> QED BY <1>3, <3>1 DEF RoleInv, TodoAllowed
  <2>6. RolesAreKept'
    <3> SUFFICES ASSUME NEW w \in Role, NEW i \in DOMAIN called'[w]
                 PROVE  Known(w, called'[w][i])
      BY DEF RolesAreKept, Known, Allows
    <3>1. CASE w # agent
      BY <2>3, <3>1 DEF RoleInv, RolesAreKept
    <3>2. CASE w = agent
      <4>1. called'[w] = Append(called[w], Head(todo)) /\ called[w] \in Seq(Action)
        BY <1>0, <2>3, <3>2
      <4>2. CASE i \in DOMAIN called[w]
        BY <2>1, <4>1, <4>2 DEF RoleInv, RolesAreKept
      <4>3. CASE i \notin DOMAIN called[w]
        <5>1. called'[w][i] = Head(todo)
          BY <2>1, <4>1, <4>3
        <5> QED BY <2>1, <3>2, <5>1
      <4> QED BY <4>2, <4>3
    <3> QED BY <3>1, <3>2
  <2> QED BY <2>4, <2>5, <2>6 DEF RoleInv
<1> QED BY <1>2, <1>3

\* A caller that takes the run leaves an agent that does nothing.
LEMMA LeaveKeeps == ASSUME RoleInv, Leave, called' \in {called, NoCalls} PROVE RoleInv'
<1>0. NoCalls = [w \in Agent |-> NoCalls[w]] /\ \A w \in Role : NoCalls[w] \in Seq(Action)
  BY DEF NoCalls, Agent
<1>1. AgentTypes'
  BY <1>0 DEF Leave, RoleInv, AgentTypes, Role
<1>2. TodoAllowed'
  BY DEF Leave, TodoAllowed, Role
<1>3. RolesAreKept'
  BY DEF RoleInv, RolesAreKept, Known, Allows, NoCalls, Agent
<1> QED BY <1>1, <1>2, <1>3 DEF RoleInv

LEMMA IdleKeeps == ASSUME RoleInv, UNCHANGED agentVars PROVE RoleInv'
  BY DEF RoleInv, AgentTypes, TodoAllowed, RolesAreKept, Known, Allows, agentVars

LEMMA RoleInvStep == RoleInv /\ [WholeNext]_allVars => RoleInv'
<1> SUFFICES ASSUME RoleInv, [WholeNext]_allVars PROVE RoleInv'
  OBVIOUS
<1>0. {"planner", "fixer", "orchestrator"} \subseteq Agent
  BY DEF Agent, Role
<1>1. CASE (GoalStep /\ Free) \/ (Write /\ UNCHANGED <<agentVars, listed>>) \/ UNCHANGED allVars
  BY <1>1, IdleKeeps DEF Free, allVars
<1>2. CASE RunPlanner
  BY <1>0, <1>2, BeginKeeps, IdleKeeps DEF RunPlanner, Free
<1>3. CASE StoreSteps \/ StoreFix
  BY <1>3, LeaveKeeps DEF StoreSteps, StoreFix
<1>4. CASE RunFixer
  BY <1>0, <1>4, BeginKeeps, IdleKeeps, LeaveKeeps DEF RunFixer, Free
<1>5. CASE RunOrchestrator
  BY <1>0, <1>5, BeginKeeps, LeaveKeeps DEF RunOrchestrator, Forget
<1>6. CASE AgentStep(Rows)
  BY <1>6, AskKeeps, PlanKeeps, CallKeeps DEF AgentStep
<1>7. CASE (Answer \/ Raise \/ Crash) /\ Forget
  BY <1>7, LeaveKeeps DEF Forget
<1> QED BY <1>1, <1>2, <1>3, <1>4, <1>5, <1>6, <1>7 DEF WholeNext

(* No reply, no rule of a missing provider and no replanning brings a planner or
   a fixer to an action outside its role. *)
THEOREM RolesConfine == WholeSpec => []RolesAreKept
<1>1. RoleInv => RolesAreKept
  BY DEF RoleInv
<1> QED BY <1>1, RoleInvInit, RoleInvStep, PTL DEF WholeSpec

-----------------------------------------------------------------------------
(* The records of a request. *)

Planned == called["planner"]
Fixed == called["fixer"]
Part == {Planned, ButLast(Planned)}
WithDone(s) == {s, Append(s, Done)}
Mended == {l \o s : l \in Part, s \in WithDone(Fixed)}
GoalFailed == goals[request.goal].status = "failed"

\* A run that needs no rule, or whose rules the planner may follow, has called
\* something unless the provider said at once that nothing was to be done.
Followable == \A a \in Rules : Known("planner", a)
Claimed(s) == Followable => Planned # <<>> \/ s = <<Done>>

\* The history of a run is what it called, but for a final reply or the call in
\* which it failed.
RunTells ==
  agent \in {"planner", "fixer"} =>
    /\ phase # "ended" => steps = called[agent]
    /\ phase = "ended" => status \in {"done", "failed"}
    /\ phase = "ended" /\ status = "done" =>
         steps \in WithDone(called[agent]) /\ (agent = "planner" => Claimed(steps))
    /\ phase = "ended" /\ status = "failed" => steps \in {called[agent], ButLast(called[agent])}

\* Which agent may be running where process_goal is.
AgentAt ==
  /\ pc \in {"createGoal", "createPlan", "update", "complete", "fail", "finishCompleted",
             "finishFailed", "finishFixed", "epilogue", "answer", "down"} => agent = "none"
  /\ pc = "idle" => agent \in {"none", "orchestrator"}
  /\ pc = "planner" => agent \in {"none", "planner"}
  /\ pc = "fixer" => agent \in {"none", "fixer"}
  /\ pc = "setSteps" => agent = "planner" /\ phase = "ended"
  /\ pc = "append" => agent = "fixer" /\ phase = "ended" /\ status = "done"

BeforeFix == {"idle", "down", "createGoal", "createPlan", "update", "planner", "setSteps",
              "complete", "fail", "finishCompleted", "finishFailed"}
PlanTells ==
  /\ pc \in BeforeFix => Fixed = <<>>
  /\ pc \in {"complete", "finishCompleted"} => listed \in WithDone(Planned)
  /\ pc = "complete" => Claimed(listed)
  /\ pc \in {"fail", "finishFailed", "fixer", "append"} => listed \in Part
  /\ pc \in {"finishFailed", "fixer", "append", "finishFixed"} => GoalFailed
  /\ pc = "fixer" => plans[plan].status = "failed"
  /\ pc = "finishFixed" => listed \in Mended
  /\ pc \in {"epilogue", "answer"} /\ plan # NoPlan =>
       \/ plans[plan].status = "completed" /\ Fixed = <<>> /\ listed \in WithDone(Planned)
       \/ plans[plan].status = "failed" /\ GoalFailed /\ listed \in Part
       \/ plans[plan].status = "completed" /\ GoalFailed /\ listed \in Mended

Tells == RunTells /\ AgentAt /\ PlanTells

\* The sequences involved.
LEMMA ButLastOfAppend ==
  ASSUME NEW S, NEW s \in Seq(S), NEW a \in S
  PROVE  ButLast(Append(s, a)) = s
<1>1. PICK t \in Seq(S) : t = Append(s, a)
  BY AppendProperties
<1>2. /\ Len(t) = Len(s) + 1 /\ t # <<>> /\ Len(s) \in Nat
      /\ \A i \in 1..Len(s) : t[i] = s[i]
  BY <1>1, AppendProperties, LenProperties
<1>3. /\ SubSeq(t, 1, Len(t) - 1) \in Seq(S) /\ Len(SubSeq(t, 1, Len(t) - 1)) = Len(s)
      /\ \A i \in 1..Len(s) : SubSeq(t, 1, Len(t) - 1)[i] = t[i]
  BY <1>2, SubSeqProperties
<1>4. SubSeq(t, 1, Len(t) - 1) = s
  BY <1>2, <1>3, SeqEqual
<1> QED BY <1>1, <1>2, <1>4 DEF ButLast

LEMMA ButLastType == ASSUME NEW s \in Seq(Action) PROVE ButLast(s) \in Seq(Action)
<1>1. CASE s = <<>>
  BY <1>1 DEF ButLast
<1>2. CASE s # <<>>
  <2>1. Len(s) \in Nat /\ Len(s) - 1 <= Len(s) /\ Len(s) - 1 \in Int
    BY LenProperties
  <2> QED BY <1>2, <2>1, SubSeqProperties DEF ButLast
<1> QED BY <1>1, <1>2

LEMMA BeforeDoneOf ==
  ASSUME NEW s \in Seq(Action)
  PROVE  BeforeDone(s) = s /\ BeforeDone(Append(s, Done)) = s
<1>1. BeforeDone(s) = s
  <2>1. s # <<>> => Len(s) \in 1..Len(s)
    BY LenProperties, EmptySeq
  <2>2. s # <<>> => s[Len(s)] \in Action
    BY <2>1, ElementOfSeq
  <2> QED BY <2>2, AgentAssumption DEF BeforeDone
<1>2. BeforeDone(Append(s, Done)) = s
  <2>1. s \in Seq(Action \cup {Done})
    BY SeqMonotonic
  <2>2. PICK t : t = Append(s, Done)
    OBVIOUS
  <2>3. t # <<>> /\ t[Len(t)] = Done /\ ButLast(t) = s
    BY <2>1, <2>2, AppendProperties, ButLastOfAppend
  <2> QED BY <2>2, <2>3 DEF BeforeDone
<1> QED BY <1>1, <1>2

LEMMA BeforeDoneOfMended ==
  ASSUME NEW l \in Seq(Action), NEW f \in Seq(Action), NEW s \in WithDone(f)
  PROVE  BeforeDone(l \o s) = l \o f
<1>1. l \o f \in Seq(Action)
  BY ConcatProperties
<1>2. CASE s = f
  BY <1>1, <1>2, BeforeDoneOf
<1>3. CASE s = Append(f, Done)
  <2>1. /\ l \in Seq(Action \cup {Done}) /\ f \in Seq(Action \cup {Done})
        /\ <<Done>> \in Seq(Action \cup {Done}) /\ l \o f \in Seq(Action \cup {Done})
    BY <1>1, SeqMonotonic
  <2>2. Append(f, Done) = f \o <<Done>> /\ Append(l \o f, Done) = (l \o f) \o <<Done>>
    BY <2>1, AppendIsConcat
  <2>3. l \o s = Append(l \o f, Done)
    BY <1>3, <2>1, <2>2, ConcatAssociative
  <2> QED BY <1>1, <2>3, BeforeDoneOf
<1> QED BY <1>2, <1>3 DEF WithDone

-----------------------------------------------------------------------------
(* The step of every actor keeps the records. *)

TellsInv == IInv /\ Follow /\ RoleInv /\ Tells

LEMMA TellsInit == Start => Tells
  BY DEF Start, Init, AgentInit, Tells, RunTells, AgentAt, PlanTells, Fixed, NoCalls, Agent, Role, BeforeFix

LEMMA CalledTypes ==
  ASSUME RoleInv
  PROVE  /\ called["planner"] \in Seq(Action) /\ called["fixer"] \in Seq(Action)
         /\ {"planner", "fixer"} \subseteq Role /\ Role \subseteq Agent
         /\ called = [w \in Agent |-> called[w]]
  BY DEF RoleInv, AgentTypes, Role, Agent

\* Where nobody runs, what was called and what ran stay.
LEMMA SameRun ==
  ASSUME UNCHANGED agentVars
  PROVE  /\ RunTells' <=> RunTells
         /\ Planned' = Planned /\ Fixed' = Fixed /\ Part' = Part /\ Mended' = Mended
         /\ WithDone(Planned)' = WithDone(Planned)
         /\ \A s : Claimed(s)' <=> Claimed(s)
<1>1. Planned' = Planned /\ Fixed' = Fixed
  BY DEF agentVars, Planned, Fixed
<1>2. Followable' <=> Followable
  BY DEF Followable, Known, Allows
<1>3. \A s : Claimed(s)' <=> Claimed(s)
  BY <1>1, <1>2 DEF Claimed
<1>4. Part' = Part /\ Mended' = Mended /\ WithDone(Planned)' = WithDone(Planned)
  BY <1>1 DEF Part, Mended, WithDone
<1>5. RunTells' <=> RunTells
  BY <1>3 DEF agentVars, RunTells, WithDone
<1> QED BY <1>1, <1>3, <1>4, <1>5

\* The steps of process_goal between its agents.
LEMMA GoalStepTells == ASSUME TellsInv, GoalStep, Free PROVE Tells'
<1>0. /\ UNCHANGED agentVars /\ listed' = listed /\ agent = "none" /\ agent' = "none"
      /\ pc \in Step \cup {"idle", "down"} /\ (pc = "idle" => request = NoRequest)
  BY DEF Free, agentVars, TellsInv, IInv, TypeOK
<1>1. RunTells'
  BY <1>0 DEF RunTells
<1> USE SameRun DEF TellsInv, Tells
<1>2. ASSUME NEW k, NEW t, NEW g, Take(k, t, g) PROVE Tells'
  <2>1. pc = "idle" /\ pc' \in {"createGoal", "update"}
    BY <1>2 DEF Take
  <2> QED BY <1>0, <1>1, <2>1 DEF AgentAt, PlanTells, BeforeFix
<1>3. CASE CreateGoal \/ Update
  <2>1. /\ pc \in {"createGoal", "update"} /\ pc' \in {"createPlan", "answer", "raise"}
        /\ plan' = plan
    BY <1>3 DEF CreateGoal, Update, At, AfterCreate, SaveGoals
  <2>2. plan = NoPlan
    BY <2>1 DEF Follow
  <2> QED BY <1>0, <1>1, <2>1, <2>2 DEF AgentAt, PlanTells, BeforeFix
<1>4. CASE CreatePlan
  <2>1. pc = "createPlan" /\ pc' \in {"planner", "raise"}
    BY <1>4 DEF CreatePlan, At, SavePlans
  <2> QED BY <1>0, <1>1, <2>1 DEF AgentAt, PlanTells, BeforeFix
<1>5. CASE CloseGoal("complete", "completed", "finishCompleted")
  <2>1. pc = "complete" /\ pc' \in {"finishCompleted", "raise"}
    BY <1>5 DEF CloseGoal, At, SaveGoals
  <2> QED BY <1>0, <1>1, <2>1 DEF AgentAt, PlanTells, BeforeFix
<1>6. CASE CloseGoal("fail", "failed", "finishFailed")
  <2>1. pc = "fail" /\ pc' \in {"finishFailed", "raise"} /\ request' = request
        /\ goals' = [goals EXCEPT ![request.goal].status = "failed"]
    BY <1>6 DEF CloseGoal, At, SaveGoals
  <2>2. request.goal \in GoalId /\ goals \in [GoalId -> Goal]
    BY <2>1 DEF IInv, TypeOK, StageOK, Step
  <2>3. GoalFailed'
    BY <2>1, <2>2 DEF GoalFailed, Goal
  <2> QED BY <1>0, <1>1, <2>1, <2>3 DEF AgentAt, PlanTells, BeforeFix
<1>7. ASSUME NEW step \in {"finishCompleted", "finishFailed", "finishFixed"},
             NEW s \in {"completed", "failed"}, NEW next, FinishPlan(step, s, next)
      PROVE  /\ pc = step /\ pc' \in {next, "raise"} /\ UNCHANGED <<request, plan, goals>>
             /\ plans'[plan].status = s /\ plan \in PlanId
             /\ (GoalFailed' <=> GoalFailed)
  <2>1. /\ pc = step /\ pc' \in {next, "raise"} /\ UNCHANGED <<request, plan, goals>>
        /\ plans' = [plans EXCEPT ![plan].status = s]
    BY <1>7 DEF FinishPlan, At, SavePlans
  <2>2. plan \in PlanId /\ plans \in [PlanId -> Plan]
    BY <2>1 DEF IInv, TypeOK, StageOK, Step, BeforePlan
  <2>3. plans'[plan].status = s
    BY <2>1, <2>2 DEF Plan
  <2> QED BY <2>1, <2>2, <2>3 DEF GoalFailed
<1>8. CASE FinishPlan("finishCompleted", "completed", "epilogue")
  BY <1>0, <1>1, <1>7, <1>8 DEF AgentAt, PlanTells, BeforeFix
<1>9. CASE FinishPlan("finishFailed", "failed", "fixer")
  BY <1>0, <1>1, <1>7, <1>9 DEF AgentAt, PlanTells, BeforeFix
<1>10. CASE FinishPlan("finishFixed", "completed", "epilogue")
  BY <1>0, <1>1, <1>7, <1>10 DEF AgentAt, PlanTells, BeforeFix
<1>11. CASE Epilogue
  <2>1. pc = "epilogue" /\ pc' \in {"answer", "raise"} /\ UNCHANGED <<request, plan, plans, goals>>
    BY <1>11 DEF Epilogue, At, stores
  <2>2. GoalFailed' <=> GoalFailed
    BY <2>1 DEF GoalFailed
  <2> QED BY <1>0, <1>1, <2>1, <2>2 DEF AgentAt, PlanTells, BeforeFix
<1>12. CASE Boot
  <2>1. pc = "down" /\ pc' \in {"idle", "createGoal", "update"}
    BY <1>12 DEF Boot
  <2> QED BY <1>0, <1>1, <2>1 DEF AgentAt, PlanTells, BeforeFix
<1> QED
  BY <1>2, <1>3, <1>4, <1>5, <1>6, <1>8, <1>9, <1>10, <1>11, <1>12 DEF GoalStep

LEMMA WriteTells ==
  ASSUME TellsInv, (Write /\ UNCHANGED <<agentVars, listed>>) \/ UNCHANGED allVars
  PROVE  Tells'
<1>1. /\ UNCHANGED agentVars /\ UNCHANGED <<listed, goals, plans, request, plan>>
      /\ pc' \in {pc, "raise"}
  BY DEF Write, allVars, vars, stores
<1>2. AgentAt'
  BY <1>1 DEF TellsInv, Tells, AgentAt, agentVars
<1>3. GoalFailed' <=> GoalFailed
  BY <1>1 DEF GoalFailed
<1>4. PlanTells'
  BY <1>1, <1>3, SameRun DEF TellsInv, Tells, PlanTells, BeforeFix
<1> QED BY <1>1, <1>2, <1>4, SameRun DEF TellsInv, Tells

\* A run begins.
LEMMA BeginTells ==
  ASSUME TellsInv, NEW w \in {"planner", "fixer", "orchestrator"}, Begin(w),
         UNCHANGED <<vars, listed>>,
         w = "planner" => pc = "planner", w = "fixer" => pc = "fixer",
         w = "orchestrator" => pc = "idle"
  PROVE  Tells'
<1>0. w \in Agent
  BY CalledTypes DEF TellsInv, Agent
<1>1. /\ agent' = w /\ phase' = "ask" /\ steps' = <<>> /\ called'[w] = <<>>
      /\ \A v \in Agent \ {w} : called'[v] = called[v]
  BY <1>0, CalledTypes DEF Begin, TellsInv
<1>2. UNCHANGED <<pc, listed, goals, plans, request, plan>>
  BY DEF vars, stores
<1>3. RunTells'
  BY <1>1 DEF RunTells
<1>4. AgentAt'
  BY <1>1, <1>2 DEF AgentAt
<1>5. w # "fixer" => Fixed' = Fixed
  BY <1>1, CalledTypes DEF TellsInv, Fixed
<1>6. w = "fixer" => Part' = Part
  BY <1>1, CalledTypes DEF TellsInv, Part, Planned
<1>7. GoalFailed' <=> GoalFailed
  BY <1>2 DEF GoalFailed
<1>8. PlanTells'
  BY <1>2, <1>5, <1>6, <1>7 DEF TellsInv, Tells, PlanTells, BeforeFix
<1> QED BY <1>3, <1>4, <1>8 DEF Tells

LEMMA RunPlannerTells == ASSUME TellsInv, RunPlanner PROVE Tells'
<1>1. CASE At("planner") /\ Begin("planner") /\ UNCHANGED <<vars, listed>>
  BY <1>1, BeginTells DEF At
<1>2. CASE /\ At("planner") /\ agent = "planner" /\ phase = "ended"
           /\ Planner /\ pc' = "setSteps" /\ UNCHANGED <<agentVars, listed>>
  <2>1. pc = "planner" /\ UNCHANGED agentVars /\ pc' = "setSteps" /\ agent' = "planner" /\ phase' = "ended"
    BY <1>2 DEF At, agentVars
  <2> QED BY <2>1, SameRun DEF TellsInv, Tells, AgentAt, PlanTells, BeforeFix
<1>3. CASE Free /\ Planner /\ pc' = "raise"
  BY <1>3, SameRun DEF Free, TellsInv, Tells, AgentAt, PlanTells, BeforeFix
<1> QED BY <1>1, <1>2, <1>3 DEF RunPlanner

\* The history of the planner becomes the plan.
LEMMA StoreStepsTells == ASSUME TellsInv, StoreSteps PROVE Tells'
<1>0. /\ pc = "setSteps" /\ pc' \in {"complete", "fail", "raise"}
      /\ pc' = "complete" => status = "done"
      /\ pc' = "fail" => status = "failed"
      /\ listed' = steps /\ agent' = "none" /\ called' = called
  BY DEF StoreSteps, SetSteps, At, SavePlans, Leave
<1>1. agent = "planner" /\ phase = "ended"
  BY <1>0 DEF TellsInv, Tells, AgentAt
<1>2. /\ status = "done" => steps \in WithDone(Planned) /\ Claimed(steps)
      /\ status = "failed" => steps \in Part
  BY <1>1 DEF TellsInv, Tells, RunTells, Planned, Part
<1>3. Planned' = Planned /\ Fixed' = Fixed /\ (Followable' <=> Followable)
  BY <1>0 DEF Planned, Fixed, Followable, Known, Allows
<1>4. RunTells' /\ AgentAt'
  BY <1>0 DEF RunTells, AgentAt
<1>5. PlanTells'
  BY <1>0, <1>2, <1>3 DEF TellsInv, Tells, PlanTells, BeforeFix, WithDone, Part, Claimed
<1> QED BY <1>4, <1>5 DEF Tells

LEMMA RunFixerTells == ASSUME TellsInv, RunFixer PROVE Tells'
<1>1. CASE At("fixer") /\ Begin("fixer") /\ UNCHANGED <<vars, listed>>
  BY <1>1, BeginTells DEF At
<1>2. CASE /\ At("fixer") /\ agent = "fixer" /\ phase = "ended"
           /\ Fixer /\ pc' = "append" /\ status = "done" /\ UNCHANGED <<agentVars, listed>>
  <2>1. /\ pc = "fixer" /\ UNCHANGED agentVars /\ pc' = "append" /\ UNCHANGED <<listed, goals, request>>
        /\ agent' = "fixer" /\ phase' = "ended" /\ status' = "done"
    BY <1>2 DEF At, agentVars, Fixer, stores
  <2>2. GoalFailed' <=> GoalFailed
    BY <2>1 DEF GoalFailed
  <2> QED BY <2>1, <2>2, SameRun DEF TellsInv, Tells, AgentAt, PlanTells, BeforeFix
<1>3. CASE /\ At("fixer") /\ agent = "fixer" /\ phase = "ended"
           /\ Fixer /\ pc' = "epilogue" /\ status = "failed"
           /\ Leave /\ UNCHANGED <<called, listed>>
  <2>1. /\ pc = "fixer" /\ pc' = "epilogue" /\ UNCHANGED <<called, listed, goals, plans, request, plan>>
        /\ agent' = "none"
    BY <1>3 DEF At, Leave, Fixer, stores
  <2>2. (GoalFailed' <=> GoalFailed) /\ Part' = Part
    BY <2>1 DEF GoalFailed, Part, Planned
  <2> QED BY <2>1, <2>2 DEF TellsInv, Tells, RunTells, AgentAt, PlanTells, BeforeFix
<1>4. CASE Free /\ Fixer /\ pc' = "raise"
  BY <1>4, SameRun DEF Free, TellsInv, Tells, AgentAt, PlanTells, BeforeFix
<1> QED BY <1>1, <1>2, <1>3, <1>4 DEF RunFixer

LEMMA StoreFixTells == ASSUME TellsInv, StoreFix PROVE Tells'
<1>0. /\ pc = "append" /\ pc' \in {"finishFixed", "raise"} /\ UNCHANGED <<goals, request, called>>
      /\ listed' = listed \o steps /\ agent' = "none"
  BY DEF StoreFix, AppendSteps, At, SavePlans, Leave
<1>1. agent = "fixer" /\ phase = "ended" /\ status = "done" /\ listed \in Part /\ GoalFailed
  BY <1>0 DEF TellsInv, Tells, AgentAt, PlanTells
<1>2. steps \in WithDone(Fixed)
  BY <1>1 DEF TellsInv, Tells, RunTells, Fixed
<1>3. listed' \in Mended
  BY <1>0, <1>1, <1>2 DEF Mended
<1>4. Mended' = Mended /\ GoalFailed'
  BY <1>0, <1>1 DEF Mended, Part, WithDone, Planned, Fixed, GoalFailed
<1> QED BY <1>0, <1>3, <1>4 DEF Tells, RunTells, AgentAt, PlanTells, BeforeFix

\* What a run left behind is forgotten with its request.
LEMMA ForgetTells ==
  ASSUME TellsInv, Forget, pc' \in {"idle", "down", "raise"}
  PROVE  Tells'
<1>1. agent' = "none" /\ Fixed' = <<>>
  BY CalledTypes DEF TellsInv, Forget, Leave, Fixed, NoCalls
<1> QED BY <1>1 DEF Tells, RunTells, AgentAt, PlanTells, BeforeFix

LEMMA RunOrchestratorTells == ASSUME TellsInv, RunOrchestrator PROVE Tells'
<1>1. CASE pc = "idle" /\ request = NoRequest /\ Begin("orchestrator") /\ UNCHANGED <<vars, listed>>
  BY <1>1, BeginTells
<1>2. CASE agent = "orchestrator" /\ phase = "ended" /\ Forget /\ UNCHANGED vars
  <2>1. pc \in {"idle", "raise"}
    BY <1>2 DEF TellsInv, Tells, AgentAt, IInv, TypeOK, Step
  <2>2. pc' = pc
    BY <1>2 DEF vars
  <2> QED BY <1>2, <2>1, <2>2, ForgetTells
<1> QED BY <1>1, <1>2 DEF RunOrchestrator

\* A turn or a call of the running agent.
LEMMA AskTells ==
  ASSUME TellsInv, NEW w \in {"planner", "fixer"}, Ask(w)
  PROVE  RunTells'
<1>0. /\ agent = w /\ phase = "ask" /\ agent' = w /\ called' = called
      /\ steps = called[w] /\ w \in Role /\ w \in Agent /\ called[w] \in Seq(Action)
  BY CalledTypes DEF Ask, TellsInv, Tells, RunTells
<1>1. Planned' = Planned /\ (Followable' <=> Followable)
  BY <1>0 DEF Planned, Followable, Known, Allows
<1>2. ASSUME phase' # "ended", steps' = steps PROVE RunTells'
  BY <1>0, <1>2 DEF RunTells
<1>3. ASSUME Ends("failed"), steps' = steps PROVE RunTells'
  BY <1>0, <1>3 DEF RunTells, Ends
<1>4. ASSUME Ends("done"), steps' = called[w] \/ steps' = Append(called[w], Done),
             w = "planner" /\ Followable => called[w] # <<>> \/ steps' = <<Done>>
      PROVE  RunTells'
  <2>1. phase' = "ended" /\ status' = "done" /\ agent' = w
    BY <1>0, <1>4 DEF Ends
  <2>2. (steps \in WithDone(called[w]))'
    BY <1>0, <1>4 DEF WithDone
  <2>3. w = "planner" => Claimed(steps)'
    BY <1>0, <1>1, <1>4 DEF Claimed, Planned
  <2> QED BY <1>0, <2>1, <2>2, <2>3 DEF RunTells
<1>5. CASE Len(called[w]) = MaxSteps[w] /\ Ends("done") /\ UNCHANGED <<todo, steps>>
  <2>1. called[w] # <<>>
    BY <1>0, <1>5, AgentAssumption, EmptySeq
  <2> QED BY <1>0, <1>4, <1>5, <2>1
<1>6. CASE steps' = Append(steps, Done) /\ Ends("done")
  <2>1. steps' = Append(called[w], Done)
    BY <1>0, <1>6
  <2>2. Append(<<>>, Done) = <<Done>>
    OBVIOUS
  <2>3. called[w] = <<>> => steps' = <<Done>>
    BY <2>1, <2>2
  <2> QED BY <1>4, <1>6, <2>1, <2>3
<1>7. CASE \E a \in Action : Known(w, a) /\ Acts(<<a>>)
  BY <1>2, <1>7 DEF Acts
<1>8. CASE Bootstrap(w)
  <2> PICK a \in Rules : \/ Known(w, a) /\ Acts(<<a>>)
                         \/ ~Known(w, a) /\ Ends("done") /\ UNCHANGED <<todo, steps>>
    BY <1>8 DEF Bootstrap
  <2>1. CASE Acts(<<a>>)
    BY <1>2, <2>1 DEF Acts
  <2>2. CASE ~Known(w, a) /\ Ends("done") /\ UNCHANGED <<todo, steps>>
    <3>1. w = "planner" => ~Followable
      BY <2>2 DEF Followable
    <3> QED BY <1>0, <1>4, <2>2, <3>1
  <2> QED BY <2>1, <2>2
<1>9. CASE called[w] # <<>> /\ Ends("done") /\ UNCHANGED <<todo, steps>>
  BY <1>0, <1>4, <1>9
<1>10. CASE Ends("failed") /\ UNCHANGED <<todo, steps>>
  BY <1>3, <1>10
<1> QED BY <1>5, <1>6, <1>7, <1>8, <1>9, <1>10 DEF Ask

LEMMA CallTells ==
  ASSUME TellsInv, Call, agent \in {"planner", "fixer"}
  PROVE  RunTells'
<1>0. /\ phase = "call" /\ agent' = agent /\ steps = called[agent]
      /\ agent \in Role /\ agent \in Agent /\ called[agent] \in Seq(Action)
      /\ called' = [called EXCEPT ![agent] = Append(@, Head(todo))]
  BY CalledTypes DEF Call, TellsInv, Tells, RunTells
<1>1. Head(todo) \in Action
  BY <1>0, HeadTailProperties DEF TellsInv, RoleInv, AgentTypes
<1>2. called'[agent] = Append(called[agent], Head(todo))
  BY <1>0, CalledTypes DEF TellsInv
<1>3. ButLast(called'[agent]) = called[agent]
  BY <1>0, <1>1, <1>2, ButLastOfAppend
<1>4. CASE steps' = Append(steps, Head(todo)) /\ phase' # "ended"
  BY <1>0, <1>2, <1>4 DEF RunTells
<1>5. CASE steps' \in {steps, Append(steps, Head(todo))} /\ Ends("failed")
  BY <1>0, <1>2, <1>3, <1>5 DEF RunTells, Ends
<1> QED BY <1>0, <1>4, <1>5 DEF Call

LEMMA AgentStepTells ==
  ASSUME TellsInv, AgentStep(Rows), UNCHANGED <<vars, listed>>
  PROVE  Tells'
<1>0. UNCHANGED <<pc, listed, goals, plans, request, plan>>
  BY DEF vars, stores
<1>1. /\ agent' = agent /\ agent \in Agent /\ phase # "ended"
      /\ \A w \in Agent \ {agent} : called'[w] = called[w]
  BY CalledTypes DEF TellsInv, AgentStep, Ask, AskPlan, Call, RoleInv, AgentTypes, Agent
<1>2. agent # "none"
  BY DEF AgentStep, Ask, AskPlan, Call, Role
<1>3. RunTells'
  <2>1. CASE agent \notin {"planner", "fixer"}
    BY <1>1, <2>1 DEF RunTells
  <2>2. CASE agent \in {"planner", "fixer"}
    <3>1. ASSUME NEW w \in Role, Ask(w) PROVE w \in {"planner", "fixer"}
      BY <2>2, <3>1 DEF Ask
    <3>2. ~\E rows \in Rows : AskPlan(rows)
      BY <2>2 DEF AskPlan
    <3> QED BY <2>2, <3>1, <3>2, AskTells, CallTells DEF AgentStep
  <2> QED BY <2>1, <2>2
<1>4. pc \in {"idle", "planner", "fixer", "raise"}
  BY <1>1, <1>2 DEF TellsInv, Tells, AgentAt, IInv, TypeOK, Step
<1>5. AgentAt'
  BY <1>0, <1>1, <1>4 DEF TellsInv, Tells, AgentAt
<1>6. /\ pc \in {"idle", "planner"} => Fixed' = Fixed
      /\ pc = "fixer" => Part' = Part
  BY <1>1, <1>2, CalledTypes DEF TellsInv, Tells, AgentAt, Fixed, Part, Planned
<1>7. GoalFailed' <=> GoalFailed
  BY <1>0 DEF GoalFailed
<1>8. PlanTells'
  BY <1>0, <1>4, <1>6, <1>7 DEF TellsInv, Tells, PlanTells, BeforeFix
<1> QED BY <1>3, <1>5, <1>8 DEF Tells

LEMMA TellsStep == TellsInv /\ [WholeNext]_allVars => Tells'
<1> SUFFICES ASSUME TellsInv, [WholeNext]_allVars PROVE Tells'
  OBVIOUS
<1>1. CASE GoalStep /\ Free
  BY <1>1, GoalStepTells
<1>2. CASE (Write /\ UNCHANGED <<agentVars, listed>>) \/ UNCHANGED allVars
  BY <1>2, WriteTells
<1>3. CASE RunPlanner \/ StoreSteps \/ RunFixer \/ StoreFix \/ RunOrchestrator
  BY <1>3, RunPlannerTells, StoreStepsTells, RunFixerTells, StoreFixTells, RunOrchestratorTells
<1>4. CASE AgentStep(Rows) /\ UNCHANGED <<vars, listed>>
  BY <1>4, AgentStepTells
<1>5. CASE (Answer \/ Raise \/ Crash) /\ Forget
  BY <1>5, ForgetTells DEF Answer, Raise, Crash
<1> QED BY <1>1, <1>2, <1>3, <1>4, <1>5 DEF WholeNext

LEMMA TellsTheWork == TellsInv => RecordsTellTheWork
<1> SUFFICES ASSUME TellsInv PROVE RecordsTellTheWork
  OBVIOUS
<1>0. /\ Planned \in Seq(Action) /\ Fixed \in Seq(Action) /\ ButLast(Planned) \in Seq(Action)
      /\ <<>> \in Seq(Action)
  BY CalledTypes, ButLastType DEF TellsInv, Planned, Fixed
<1>1. IdleSuccessWasClaimed
  BY DEF TellsInv, Tells, PlanTells, Claimed, Followable, Planned, IdleSuccessWasClaimed
<1>2. ASSUME pc = "answer", plan # NoPlan
      PROVE  LET shown == BeforeDone(listed)
                 fixed == IF plans[plan].status = "completed" THEN Fixed ELSE <<>>
             IN  \/ shown = Planned \o fixed
                 \/ goals[request.goal].status = "failed" /\ shown = ButLast(Planned) \o fixed
  <2>1. CASE plans[plan].status = "completed" /\ Fixed = <<>> /\ listed \in WithDone(Planned)
    <3>1. BeforeDone(listed) = Planned
      BY <1>0, <2>1, BeforeDoneOf DEF WithDone
    <3>2. Planned \o <<>> = Planned
      BY <1>0, ConcatEmptySeq
    <3> QED BY <2>1, <3>1, <3>2
  <2>2. CASE plans[plan].status = "failed" /\ GoalFailed /\ listed \in Part
    <3>1. BeforeDone(listed) = listed /\ listed \o <<>> = listed
      BY <1>0, <2>2, BeforeDoneOf, ConcatEmptySeq DEF Part
    <3> QED BY <2>2, <3>1 DEF Part, GoalFailed
  <2>3. CASE plans[plan].status = "completed" /\ GoalFailed /\ listed \in Mended
    <3>1. PICK l \in Part, s \in WithDone(Fixed) : listed = l \o s
      BY <2>3 DEF Mended
    <3>2. BeforeDone(listed) = l \o Fixed
      BY <1>0, <3>1, BeforeDoneOfMended DEF Part
    <3> QED BY <2>3, <3>1, <3>2 DEF Part, GoalFailed
  <2> QED BY <1>2, <2>1, <2>2, <2>3 DEF TellsInv, Tells, PlanTells
<1>3. PlanShowsItsCalls
  BY <1>2 DEF PlanShowsItsCalls, Planned, Fixed
<1> QED BY <1>1, <1>3 DEF RecordsTellTheWork

(* What a plan shows is what its agents had executed, and a goal is completed
   without a call only if the provider said so: for any replies, failing calls,
   remediations, deaths and failing saves. *)
THEOREM RecordsAreTrue == WholeSpec => []RecordsTellTheWork
<1>1. WholeSpec => [](IInv /\ Follow)
  BY AgentsImplementAnyRun, AlwaysFollow, PTL
<1>2. WholeSpec => []RoleInv
  BY RoleInvInit, RoleInvStep, PTL DEF WholeSpec
<1>3. IInv /\ Follow /\ RoleInv /\ Tells /\ [WholeNext]_allVars => Tells'
  BY TellsStep DEF TellsInv
<1>4. IInv /\ Follow /\ RoleInv /\ Tells => RecordsTellTheWork
  BY TellsTheWork DEF TellsInv
<1> QED BY <1>1, <1>2, <1>3, <1>4, TellsInit, PTL DEF WholeSpec
=============================================================================
