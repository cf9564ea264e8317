SPECIFICATION WholeSpec
CONSTANTS
  Title = {t1, t2}
  g1 = g1
  g2 = g2
  g3 = g3
  p1 = p1
  p2 = p2
  GoalId <- MCGoalId
  PlanId <- MCPlanId
  NoGoal = NoGoal
  NoPlan = NoPlan
  NoTitle = NoTitle
  Torn = Torn
  MaxRequests = 3
  MaxCrashes = 2
  MaxFaults = 1
  Action <- MCAction
  Registered <- MCRegistered
  Starts <- MCStarts
  Texts <- MCTexts
  MaxSteps <- MCMaxSteps
  Rows <- MCRows
CHECK_DEADLOCK FALSE
SYMMETRY Interchangeable
INVARIANTS
  OneActiveGoalPerTitle
  
  PlansFollowGoals
  
  RolesAreKept
