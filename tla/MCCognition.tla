---------------------------- MODULE MCCognition ------------------------------
(* A node whose storage is low: it becomes critical or is freed again, or  *)
(* somebody uses the node, once.                                           *)
EXTENDS Cognition, TLC
CONSTANT g
Failure == [target |-> "build", action |-> "code.build", failed |-> TRUE]
Calm == [pct |-> 80, temp |-> 30, freeMb |-> 4096, load |-> 0, cpus |-> 1, availMb |-> 500,
         totalMb |-> 1000, ips |-> TRUE, missing |-> {}, providers |-> {"local"},
         failed |-> 0, keys |-> 10, foreign |-> FALSE, rows |-> <<Failure, Failure>>,
         age |-> [x \in Goal |-> 0], stuck |-> Goal, remote |-> "none", actions |-> {"android.vibrate"},
         experiences |-> 2]
Low == [Calm EXCEPT !.freeMb = 900, !.rows = <<Failure>>]
Full == [Low EXCEPT !.freeMb = 100]
Observations == {Calm, Low, Full}
Beginnings == {Low}
AboutStorage == (g :> {"storage"})
=============================================================================
