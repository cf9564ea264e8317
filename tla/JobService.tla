----------------------------- MODULE JobService -----------------------------
(***************************************************************************)
(* What the scheduler promises its callers, with no heap, lock or thread:  *)
(* a job waits, is executed by one activation at a time, and a one-shot    *)
(* job that was executed or dropped is over for good.                      *)
(***************************************************************************)
CONSTANTS Job, Periodic

VARIABLE phase   \* phase[j]: "absent", "waiting", "active" or "over"

Init == phase = [j \in Job |-> "absent"]

Move(j, from, to) == /\ phase[j] = from
                     /\ phase' = [phase EXCEPT ![j] = to]

Submit(j) == Move(j, "absent", "waiting")
Begin(j)  == Move(j, "waiting", "active")
End(j)    == Move(j, "active", IF j \in Periodic THEN "waiting" ELSE "over")
Drop(J)   == /\ J # {} /\ \A j \in J : phase[j] = "waiting"
             /\ phase' = [j \in Job |-> IF j \in J THEN "over" ELSE phase[j]]

Next == \/ \E j \in Job : Submit(j) \/ Begin(j) \/ End(j)
        \/ \E J \in SUBSET Job : Drop(J)

Spec == Init /\ [][Next]_phase
=============================================================================
