-------------------------- MODULE MCGoalProcessing ---------------------------
(* A small instance of GoalAgents: goals whose rule is android.info, a fixer *)
(* that may not use it, and an action that nobody provides.                  *)
EXTENDS GoalAgents, TLC
CONSTANTS g1, g2, g3, p1, p2
MCGoalId == {g1, g2, g3}
MCPlanId == {p1, p2}
MCAction == {"android.info", "shell.run", "git.push"}
MCRegistered == {"android.info", "shell.run"}
MCStarts == [a \in MCAction |-> CASE a = "android.info" -> {"android."}
                                  [] a = "shell.run" -> {"shell.run"}
                                  [] a = "git.push" -> {"git."}]
MCTexts == {{}, {"device", "list"}}
MCMaxSteps == [w \in Agent |-> IF w = "fixer" THEN 1 ELSE 2]
MCRows == {<<>>, <<"git.push">>, <<"shell.run", "android.info">>}
Interchangeable == Permutations(Title) \cup Permutations(MCGoalId) \cup Permutations(MCPlanId)
=============================================================================
