--------------------------- MODULE SchedulerProofs ---------------------------
(***************************************************************************)
(* Proofs about Scheduler for every set of jobs and workers.               *)
(***************************************************************************)
EXTENDS Scheduler, TLAPS

(* TypeOK is inductive: the local variable `job` of _execute is set exactly
   between the pop and the end of the periodic tail. *)
THEOREM TypeCorrect == Spec => []TypeOK
<1> USE SchedulerAssumption DEF TypeOK, Status, Stage, Holding, control
<1>1. Init => TypeOK
  <2> SUFFICES ASSUME Init PROVE TypeOK
    OBVIOUS
  <2>1. /\ copies \in [Job -> Nat] /\ status \in [Job -> Status]
        /\ runAt \in [Job -> Nat] /\ runs \in [Job -> Nat]
    BY DEF Init
  <2>2. /\ pc \in [Worker -> Stage] /\ hand \in [Worker -> Job \cup {NoJob}]
        /\ \A w \in Worker : hand[w] = NoJob /\ pc[w] \notin Holding
    BY DEF Init
  <2>3. QED
    BY <2>1, <2>2 DEF Init
<1>2. TypeOK /\ [Next]_vars => TypeOK'
  <2> SUFFICES ASSUME TypeOK, [Next]_vars PROVE TypeOK'
    OBVIOUS
  <2>1. CASE Tick
    BY <2>1 DEF Tick
  <2>2. CASE Stop
    BY <2>2 DEF Stop
  <2>3. CASE StopReturns
    BY <2>3 DEF StopReturns
  <2>4. ASSUME NEW w \in Worker, Start(w) PROVE TypeOK'
    BY <2>4 DEF Start
  <2>5. ASSUME NEW j \in Job, NEW d \in 0 .. MaxDelay, Schedule(j, d)
        PROVE TypeOK'
    BY <2>5 DEF Schedule, Push
  <2>6. ASSUME NEW j \in Job, Cancel(j) PROVE TypeOK'
    BY <2>6 DEF Cancel
  <2>7. ASSUME NEW j \in Job, Remove(j) PROVE TypeOK'
    BY <2>7 DEF Remove
  <2>8. ASSUME NEW w \in Worker, Loop(w) PROVE TypeOK'
    BY <2>8 DEF Loop
  <2>9. ASSUME NEW w \in Worker, Pop(w) PROVE TypeOK'
    BY <2>9 DEF Pop, InHeap
  <2>10. ASSUME NEW w \in Worker, Check(w) PROVE TypeOK'
    BY <2>10 DEF Check
  <2>11. ASSUME NEW w \in Worker, Mark(w) PROVE TypeOK'
    BY <2>11 DEF Mark
  <2>12. ASSUME NEW w \in Worker, Finish(w) PROVE TypeOK'
    BY <2>12 DEF Finish
  <2>13. ASSUME NEW w \in Worker, Rearm(w) PROVE TypeOK'
    BY <2>13 DEF Rearm
  <2>14. ASSUME NEW w \in Worker, Repush(w) PROVE TypeOK'
    BY <2>14 DEF Repush, Push
  <2>15. CASE UNCHANGED vars
    BY <2>15 DEF vars
  <2>16. QED
    BY <2>1, <2>2, <2>3, <2>4, <2>5, <2>6, <2>7, <2>8, <2>9, <2>10, <2>11,
       <2>12, <2>13, <2>14, <2>15 DEF Next, WorkerStep
<1>3. QED
  BY <1>1, <1>2, PTL DEF Spec

-----------------------------------------------------------------------------
(* The strengthening: besides HeldOnce, a job that was never scheduled is
   nowhere, and a one-shot job that is still in the heap, or in a hand that
   has not entered its function, has not run. *)

Unscheduled ==
  \A j \in Job : status[j] = "new" =>
    copies[j] = 0 /\ runs[j] = 0 /\ \A w \in Worker : hand[w] # j

FreshOneShot ==
  \A j \in Job \ Periodic :
    /\ runs[j] <= 1
    /\ copies[j] > 0 => runs[j] = 0
    /\ \A w \in Worker : hand[w] = j /\ pc[w] \in {"check", "mark"}
                           => runs[j] = 0

PeriodicTail ==
  \A w \in Worker : pc[w] \in {"rearm", "repush"} => hand[w] \in Periodic

HeapInv == HeldOnce /\ Unscheduled /\ FreshOneShot /\ PeriodicTail

LEMMA HeapInvInit == Init => HeapInv
  BY SchedulerAssumption DEF Init, HeapInv, HeldOnce, Unscheduled, FreshOneShot,
     PeriodicTail

LEMMA HeapInvStep == TypeOK /\ TypeOK' /\ HeapInv /\ [Next]_vars => HeapInv'
<1> SUFFICES ASSUME TypeOK, TypeOK', HeapInv, [Next]_vars PROVE HeapInv'
  OBVIOUS
<1> USE SchedulerAssumption DEF TypeOK, HeapInv, HeldOnce, Unscheduled,
      FreshOneShot, PeriodicTail, Status, Stage, Holding, control
<1>1. CASE Tick
  BY <1>1 DEF Tick
<1>2. CASE Stop
  BY <1>2 DEF Stop
<1>3. CASE StopReturns
  BY <1>3 DEF StopReturns
<1>4. ASSUME NEW w \in Worker, Start(w) PROVE HeapInv'
  BY <1>4 DEF Start
<1>5. ASSUME NEW j \in Job, NEW d \in 0 .. MaxDelay, Schedule(j, d)
      PROVE HeapInv'
  BY <1>5 DEF Schedule, Push
<1>6. ASSUME NEW j \in Job, Cancel(j) PROVE HeapInv'
  BY <1>6 DEF Cancel
<1>7. ASSUME NEW j \in Job, Remove(j) PROVE HeapInv'
  BY <1>7 DEF Remove
<1>8. ASSUME NEW w \in Worker, Loop(w) PROVE HeapInv'
  BY <1>8 DEF Loop
<1>9. ASSUME NEW w \in Worker, Pop(w) PROVE HeapInv'
  BY <1>9 DEF Pop, InHeap
<1>10. ASSUME NEW w \in Worker, Check(w) PROVE HeapInv'
  BY <1>10 DEF Check
<1>11. ASSUME NEW w \in Worker, Mark(w) PROVE HeapInv'
  BY <1>11 DEF Mark
<1>12. ASSUME NEW w \in Worker, Finish(w) PROVE HeapInv'
  BY <1>12 DEF Finish
<1>13. ASSUME NEW w \in Worker, Rearm(w) PROVE HeapInv'
  BY <1>13 DEF Rearm
<1>14. ASSUME NEW w \in Worker, Repush(w) PROVE HeapInv'
  BY <1>14 DEF Repush, Push
<1>15. CASE UNCHANGED vars
  BY <1>15 DEF vars
<1>16. QED
  BY <1>1, <1>2, <1>3, <1>4, <1>5, <1>6, <1>7, <1>8, <1>9, <1>10, <1>11,
     <1>12, <1>13, <1>14, <1>15 DEF Next, WorkerStep

LEMMA HeapInvAlways == Spec => []HeapInv
<1>1. QED
  BY HeapInvInit, HeapInvStep, TypeCorrect, PTL DEF Spec

(* A job is in one heap entry, in one worker's hand, or in neither, for any
   number of workers left over by stop() and start(). *)
THEOREM JobsAreHeldOnce == Spec => []HeldOnce
  BY HeapInvAlways, PTL DEF HeapInv

(* The function of a one-shot job is entered at most once. *)
THEOREM OneShotsRunOnce == Spec => []OneShotRunsOnce
<1>1. HeapInv => OneShotRunsOnce
  BY DEF HeapInv, FreshOneShot, OneShotRunsOnce
<1>2. QED
  BY <1>1, HeapInvAlways, PTL

-----------------------------------------------------------------------------
(* While a job is executed its status is what its worker wrote last: nobody
   else holds the job, and cancel() needs PENDING. *)

RunStatus ==
  \A w \in Worker : /\ pc[w] = "run" => status[hand[w]] = "running"
                    /\ pc[w] = "rearm" => status[hand[w]] \in {"completed", "failed"}

LEMMA RunStatusStep ==
  TypeOK /\ HeapInv /\ RunStatus /\ [Next]_vars => RunStatus'
<1> SUFFICES ASSUME TypeOK, HeapInv, RunStatus, [Next]_vars PROVE RunStatus'
  OBVIOUS
<1> USE SchedulerAssumption DEF TypeOK, HeapInv, HeldOnce, Unscheduled,
      RunStatus, Stage, Holding, control
<1>1. CASE Tick \/ Stop \/ StopReturns \/ UNCHANGED vars
  BY <1>1 DEF Tick, Stop, StopReturns, vars
<1>2. ASSUME NEW w \in Worker, Start(w) PROVE RunStatus'
  BY <1>2 DEF Start
<1>3. ASSUME NEW j \in Job, NEW d \in 0 .. MaxDelay, Schedule(j, d)
      PROVE RunStatus'
  BY <1>3 DEF Schedule
<1>4. ASSUME NEW j \in Job, Cancel(j) \/ Remove(j) PROVE RunStatus'
  BY <1>4 DEF Cancel, Remove
<1>5. ASSUME NEW w \in Worker, Loop(w) \/ Pop(w) \/ Check(w) PROVE RunStatus'
  BY <1>5 DEF Loop, Pop, Check, InHeap
<1>6. ASSUME NEW w \in Worker, Mark(w) PROVE RunStatus'
  BY <1>6 DEF Mark
<1>7. ASSUME NEW w \in Worker, Finish(w) PROVE RunStatus'
  BY <1>7 DEF Finish
<1>8. ASSUME NEW w \in Worker, Rearm(w) PROVE RunStatus'
  BY <1>8 DEF Rearm
<1>9. ASSUME NEW w \in Worker, Repush(w) PROVE RunStatus'
  BY <1>9 DEF Repush
<1>10. QED
  BY <1>1, <1>2, <1>3, <1>4, <1>5, <1>6, <1>7, <1>8, <1>9
     DEF Next, WorkerStep

(* cancel() loses only to the worker's unlocked `job.status = RUNNING`, for
   any number of jobs and workers. *)
THEOREM CancelLosesOnlyToMark == Spec => CancelledStaysUnlessMarked
<1>1. Init => RunStatus
  BY SchedulerAssumption DEF Init, RunStatus
<1>2. ASSUME TypeOK, HeapInv, RunStatus, [Next]_vars,
             NEW j \in Job, status[j] = "cancelled", status'[j] # "cancelled"
      PROVE  \E w \in Worker : pc[w] = "mark" /\ hand[w] = j
  <2> USE <1>2, SchedulerAssumption DEF TypeOK, RunStatus, Stage, Holding, control
  <2>1. CASE Tick \/ Stop \/ StopReturns \/ UNCHANGED vars
    BY <2>1 DEF Tick, Stop, StopReturns, vars
  <2>2. ASSUME NEW k \in Job, Cancel(k) \/ Remove(k)
        PROVE \E w \in Worker : pc[w] = "mark" /\ hand[w] = j
    BY <2>2 DEF Cancel, Remove
  <2>3. ASSUME NEW k \in Job, NEW d \in 0 .. MaxDelay, Schedule(k, d)
        PROVE \E w \in Worker : pc[w] = "mark" /\ hand[w] = j
    BY <2>3 DEF Schedule
  <2>4. ASSUME NEW v \in Worker,
               Start(v) \/ Loop(v) \/ Pop(v) \/ Check(v) \/ Repush(v)
        PROVE \E w \in Worker : pc[w] = "mark" /\ hand[w] = j
    BY <2>4 DEF Start, Loop, Pop, Check, Repush
  <2>5. ASSUME NEW v \in Worker, Mark(v)
        PROVE \E w \in Worker : pc[w] = "mark" /\ hand[w] = j
    BY <2>5 DEF Mark
  <2>6. ASSUME NEW v \in Worker, Finish(v) \/ Rearm(v)
        PROVE \E w \in Worker : pc[w] = "mark" /\ hand[w] = j
    BY <2>6 DEF Finish, Rearm
  <2>7. QED
    BY <2>1, <2>2, <2>3, <2>4, <2>5, <2>6 DEF Next, WorkerStep
<1>3. TypeOK /\ HeapInv /\ RunStatus /\ [Next]_vars
        => [\A j \in Job : status[j] = "cancelled" /\ status'[j] # "cancelled"
              => \E w \in Worker : pc[w] = "mark" /\ hand[w] = j]_vars
  BY <1>2
<1>4. QED
  BY <1>1, <1>3, RunStatusStep, HeapInvAlways, TypeCorrect, PTL
     DEF Spec, CancelledStaysUnlessMarked

-----------------------------------------------------------------------------
(* Run times.  The due test of the scan and the pop are separate critical
   sections; what one worker found due stays due until it pops, because the
   clock only advances, nobody else pops and a run_at is written only while
   its job is nowhere or in the hand of the writer. *)

OneWorker == \A v, w \in Worker : pc[v] # "dead" /\ pc[w] # "dead" => v = w

DueInHeap ==
  \A w \in Worker : pc[w] = "pop" => \E j \in Job : copies[j] > 0 /\ runAt[j] <= now

DueInHand ==
  \A w \in Worker : pc[w] \in {"check", "mark", "run"} => runAt[hand[w]] <= now

DueInv == ~doubled => OneWorker /\ DueInHeap /\ DueInHand

LEMMA DueInvStep ==
  TypeOK /\ HeapInv /\ DueInv /\ [Next]_vars => DueInv'
<1> SUFFICES ASSUME TypeOK, HeapInv, DueInv, [Next]_vars, ~doubled' PROVE DueInv'
  BY DEF DueInv
<1> USE SchedulerAssumption
<1>0. /\ now \in Nat /\ runAt \in [Job -> Nat] /\ copies \in [Job -> Nat]
      /\ pc \in [Worker -> Stage] /\ hand \in [Worker -> Job \cup {NoJob}]
      /\ \A w \in Worker : hand[w] = NoJob <=> pc[w] \notin Holding
      /\ status \in [Job -> Status]
  BY DEF TypeOK
<1>1. CASE Tick \/ Stop \/ StopReturns \/ UNCHANGED vars
  <2>1. /\ now' \in Nat /\ now <= now' /\ doubled' = doubled /\ pc' = pc /\ hand' = hand
        /\ runAt' = runAt /\ copies' = copies
    BY <1>0, <1>1 DEF Tick, Stop, StopReturns, vars, control
  <2>2. DueInHeap'
    BY <1>0, <2>1 DEF DueInv, DueInHeap
  <2>3. DueInHand'
    <3> SUFFICES ASSUME NEW w \in Worker, pc[w] \in {"check", "mark", "run"}
                 PROVE  runAt[hand[w]] <= now'
      BY <2>1 DEF DueInHand
    <3>1. hand[w] \in Job /\ runAt[hand[w]] <= now
      BY <1>0, <2>1 DEF DueInv, DueInHand, Holding
    <3> QED BY <1>0, <2>1, <3>1
  <2> QED BY <2>1, <2>2, <2>3 DEF DueInv, OneWorker
<1>2. ASSUME NEW w \in Worker, Start(w) PROVE DueInv'
  BY <1>0, <1>2 DEF Start, DueInv, OneWorker, DueInHeap, DueInHand
<1>3. ASSUME NEW j \in Job, NEW d \in 0 .. MaxDelay, Schedule(j, d) PROVE DueInv'
  <2>1. /\ copies[j] = 0 /\ \A w \in Worker : hand[w] # j
    BY <1>3 DEF Schedule, HeapInv, Unscheduled
  <2>2. \A k \in Job \ {j} : copies'[k] = copies[k] /\ runAt'[k] = runAt[k]
    BY <1>0, <1>3 DEF Schedule, Push
  <2>3. now' = now /\ doubled' = doubled /\ pc' = pc /\ hand' = hand
    BY <1>3 DEF Schedule, control
  <2>4. DueInHeap' /\ DueInHand'
    BY <1>0, <2>1, <2>2, <2>3 DEF DueInv, DueInHeap, DueInHand, Holding
  <2> QED BY <2>3, <2>4 DEF DueInv, OneWorker
<1>4. ASSUME NEW j \in Job, Cancel(j) \/ Remove(j) PROVE DueInv'
  BY <1>0, <1>4 DEF Cancel, Remove, control, DueInv, OneWorker, DueInHeap, DueInHand
<1>5. ASSUME NEW w \in Worker, Loop(w) PROVE DueInv'
  <2>1. pc[w] = "loop" /\ now' = now /\ doubled' = doubled /\ runAt' = runAt /\ hand' = hand
    BY <1>5 DEF Loop, control
  <2>2. OneWorker /\ \A v \in Worker \ {w} : pc[v] = "dead" /\ pc'[v] = "dead"
    BY <1>0, <1>5, <2>1 DEF DueInv, OneWorker, Loop
  <2>3. pc'[w] \in {"dead", "loop", "pop"}
    BY <1>0, <1>5 DEF Loop
  <2>4. ASSUME pc'[w] = "pop"
        PROVE  \E j \in Job : copies'[j] > 0 /\ runAt[j] <= now
    BY <1>0, <1>5, <2>4 DEF Loop, InHeap
  <2>5. DueInHeap'
    BY <2>1, <2>2, <2>4 DEF DueInHeap
  <2>6. OneWorker' /\ DueInHand'
    BY <2>2, <2>3 DEF OneWorker, DueInHand
  <2> QED BY <2>5, <2>6 DEF DueInv
<1>6. ASSUME NEW w \in Worker, Pop(w) PROVE DueInv'
  <2>1. pc[w] = "pop" /\ now' = now /\ doubled' = doubled /\ runAt' = runAt
    BY <1>6 DEF Pop, control
  <2>2. OneWorker /\ \A v \in Worker \ {w} : pc[v] = "dead" /\ pc'[v] = "dead"
    BY <1>0, <1>6, <2>1 DEF DueInv, OneWorker, Pop
  <2>3. pc'[w] \in {"loop", "check"}
    BY <1>0, <1>6 DEF Pop
  <2>4. ASSUME pc'[w] = "check" PROVE runAt[hand'[w]] <= now
    <3>1. PICK k \in Job : copies[k] > 0 /\ runAt[k] <= now
      BY <2>1 DEF DueInv, DueInHeap
    <3>2. PICK j \in InHeap : IsHead(j) /\ hand' = [hand EXCEPT ![w] = j]
      BY <1>0, <1>6, <2>4 DEF Pop
    <3>3. j \in Job /\ (j = k \/ Before(j, k))
      BY <3>1, <3>2 DEF IsHead, InHeap
    <3> QED BY <1>0, <3>1, <3>2, <3>3 DEF Before
  <2>5. OneWorker' /\ DueInHeap'
    BY <2>2, <2>3 DEF OneWorker, DueInHeap
  <2>6. DueInHand'
    BY <2>1, <2>2, <2>3, <2>4 DEF DueInHand
  <2> QED BY <2>5, <2>6 DEF DueInv
<1>7. ASSUME NEW w \in Worker, Check(w) \/ Mark(w) PROVE DueInv'
  <2>1. /\ now' = now /\ doubled' = doubled /\ runAt' = runAt /\ copies' = copies
        /\ pc[w] \in {"check", "mark"}
    BY <1>7 DEF Check, Mark, control
  <2>2. pc'[w] = "loop" \/ (pc'[w] \in {"mark", "run"} /\ hand' = hand)
    BY <1>0, <1>7 DEF Check, Mark
  <2>3. OneWorker /\ \A v \in Worker \ {w} : pc[v] = "dead" /\ pc'[v] = "dead"
    BY <1>0, <1>7, <2>1 DEF DueInv, OneWorker, Check, Mark
  <2>4. OneWorker' /\ DueInHeap'
    BY <2>2, <2>3 DEF OneWorker, DueInHeap
  <2>5. DueInHand'
    BY <2>1, <2>2, <2>3 DEF DueInv, DueInHand
  <2> QED BY <2>4, <2>5 DEF DueInv
<1>8. ASSUME NEW w \in Worker, Finish(w) \/ Rearm(w) \/ Repush(w) PROVE DueInv'
  <2>1. pc[w] \in {"run", "rearm", "repush"} /\ doubled' = doubled
    BY <1>8 DEF Finish, Rearm, Repush, control
  <2>2. pc'[w] \in {"loop", "rearm", "repush"}
    BY <1>0, <1>8 DEF Finish, Rearm, Repush
  <2>3. OneWorker /\ \A v \in Worker \ {w} : pc[v] = "dead" /\ pc'[v] = "dead"
    BY <1>0, <1>8, <2>1 DEF DueInv, OneWorker, Finish, Rearm, Repush
  <2> QED BY <2>2, <2>3 DEF DueInv, OneWorker, DueInHeap, DueInHand
<1> QED
  BY <1>1, <1>2, <1>3, <1>4, <1>5, <1>6, <1>7, <1>8 DEF Next, WorkerStep

(* A job function is entered in its time, in one place and, for a one-shot,
   once, for any number of jobs, priorities and workers. *)
THEOREM RunsAreDisciplined == Spec => []RunDiscipline
<1>1. Init => DueInv
  BY SchedulerAssumption DEF Init, DueInv, OneWorker, DueInHeap, DueInHand
<1>2. DueInv => NeverEarly
  BY DEF DueInv, DueInHand, NeverEarly
<1>3. Spec => []NeverEarly
  BY <1>1, <1>2, DueInvStep, HeapInvAlways, TypeCorrect, PTL DEF Spec
<1>4. NeverEarly /\ HeldOnce /\ OneShotRunsOnce => RunDiscipline
  BY DEF RunDiscipline
<1> QED BY <1>3, <1>4, JobsAreHeldOnce, OneShotsRunOnce, PTL

-----------------------------------------------------------------------------
(* The scheduler implements JobService: what a step does to the phase of a
   job depends on the heap and the hands only through HeapInv. *)

Phase(j) == IF status[j] = "new" THEN "absent"
            ELSE IF Executing(j) THEN "active"
            ELSE IF Waiting(j) THEN "waiting" ELSE "over"

Phases == [j \in Job |-> Phase(j)]

\* A job is held by one worker only, so where a hand is decides its phase.
LEMMA HandDecides ==
  ASSUME TypeOK, HeapInv, NEW w \in Worker, hand[w] # NoJob
  PROVE  Phase(hand[w]) = IF pc[w] = "run" THEN "active" ELSE "waiting"
<1>1. hand[w] \in Job /\ pc[w] \in Holding
  BY SchedulerAssumption DEF TypeOK
<1>2. status[hand[w]] # "new"
  BY <1>1 DEF HeapInv, Unscheduled
<1>3. \A v \in Worker : v # w => hand[v] # hand[w]
  BY DEF HeapInv, HeldOnce
<1> QED BY <1>1, <1>2, <1>3 DEF Phase, Executing, Waiting

\* A job in the heap waits.
LEMMA HeapWaits ==
  ASSUME TypeOK, HeapInv, NEW j \in Job, copies[j] > 0 PROVE Phase(j) = "waiting"
<1>1. status[j] # "new"
  BY DEF HeapInv, Unscheduled, TypeOK
<1>2. \A w \in Worker : hand[w] # j
  BY SchedulerAssumption DEF HeapInv, HeldOnce, TypeOK
<1> QED BY <1>1, <1>2 DEF Phase, Executing, Waiting

\* A step that leaves the heap, the hands, the functions entered and the set of
\* submitted jobs alone for a job leaves its phase alone.
LEMMA PhaseFrame ==
  ASSUME NEW j \in Job,
         status[j] = "new" <=> status'[j] = "new",
         copies[j] > 0 <=> copies'[j] > 0,
         \A w \in Worker : hand[w] = j <=> hand'[w] = j,
         \A w \in Worker : hand[w] = j => (pc[w] = "run" <=> pc'[w] = "run")
  PROVE  Phase(j)' = Phase(j)
  BY DEF Phase, Executing, Waiting

LEMMA ServiceStep ==
  TypeOK /\ TypeOK' /\ HeapInv /\ HeapInv' /\ RunStatus /\ [Next]_vars
    => [Service!Next]_Phases
<1> SUFFICES ASSUME TypeOK, TypeOK', HeapInv, HeapInv', RunStatus, [Next]_vars
             PROVE  Service!Next \/ Phases' = Phases
  OBVIOUS
<1> USE SchedulerAssumption
<1>0. /\ copies \in [Job -> Nat] /\ status \in [Job -> Status]
      /\ pc \in [Worker -> Stage] /\ hand \in [Worker -> Job \cup {NoJob}]
      /\ \A w \in Worker : hand[w] = NoJob <=> pc[w] \notin Holding
  BY DEF TypeOK
<1>m. ASSUME NEW j \in Job, \A k \in Job \ {j} : Phase(k)' = Phase(k),
             \/ Phase(j) = "absent" /\ Phase(j)' = "waiting"
             \/ Phase(j) = "waiting" /\ Phase(j)' = "active"
             \/ Phase(j) = "active" /\ Phase(j)' = IF j \in Periodic THEN "waiting" ELSE "over"
             \/ Phase(j) = "waiting" /\ Phase(j)' = "over"
      PROVE  Service!Next
  <2>1. Phases' = [Phases EXCEPT ![j] = Phase(j)']
    BY <1>m DEF Phases
  <2>2. Phases[j] = Phase(j)
    BY DEF Phases
  <2>3. ASSUME Phase(j) = "absent", Phase(j)' = "waiting" PROVE Service!Submit(j)
    BY <2>1, <2>2, <2>3 DEF Service!Submit, Service!Move, Phases, Phase
  <2>4. ASSUME Phase(j) = "waiting", Phase(j)' = "active" PROVE Service!Begin(j)
    BY <2>1, <2>2, <2>4 DEF Service!Begin, Service!Move, Phases, Phase
  <2>5. ASSUME Phase(j) = "active", Phase(j)' = IF j \in Periodic THEN "waiting" ELSE "over"
        PROVE  Service!End(j)
    BY <2>1, <2>2, <2>5 DEF Service!End, Service!Move, Phases, Phase
  <2>6. ASSUME Phase(j) = "waiting", Phase(j)' = "over" PROVE Service!Drop({j})
    BY <1>m, <2>6 DEF Service!Drop, Phases, Phase
  <2> QED BY <1>m, <2>3, <2>4, <2>5, <2>6 DEF Service!Next
<1>s. ASSUME \A k \in Job : Phase(k)' = Phase(k) PROVE Phases' = Phases
  BY <1>s DEF Phases
<1>1. CASE Tick \/ Stop \/ StopReturns \/ UNCHANGED vars
  <2>1. status' = status /\ copies' = copies /\ hand' = hand /\ pc' = pc
    BY <1>1 DEF Tick, Stop, StopReturns, vars
  <2> QED BY <2>1, PhaseFrame, <1>s
<1>2. ASSUME NEW w \in Worker, Start(w) PROVE Phases' = Phases
  <2>1. hand[w] = NoJob /\ \A v \in Worker \ {w} : pc'[v] = pc[v]
    BY <1>0, <1>2 DEF Start, Holding
  <2> QED BY <1>2, <2>1, PhaseFrame, <1>s DEF Start
<1>3. ASSUME NEW j \in Job, NEW d \in 0 .. MaxDelay, Schedule(j, d) PROVE Service!Next
  <2>1. status[j] = "new" /\ Phase(j) = "absent"
    BY <1>3 DEF Schedule, Phase
  <2>2. copies'[j] > 0
    BY <1>0, <1>3 DEF Schedule, Push
  <2>3. Phase(j)' = "waiting"
    <3>1. status'[j] # "new"
      BY <1>0, <1>3 DEF Schedule
    <3>2. \A w \in Worker : hand'[w] # j
      BY <1>3, <2>1 DEF HeapInv, Unscheduled, Schedule
    <3> QED BY <2>2, <3>1, <3>2 DEF Phase, Executing, Waiting
  <2>4. \A k \in Job \ {j} : Phase(k)' = Phase(k)
    <3>1. \A k \in Job \ {j} : status'[k] = status[k] /\ copies'[k] = copies[k]
      BY <1>0, <1>3 DEF Schedule, Push
    <3>2. hand' = hand /\ pc' = pc
      BY <1>3 DEF Schedule
    <3> QED BY <3>1, <3>2, PhaseFrame
  <2> QED BY <2>1, <2>3, <2>4, <1>m
<1>4. ASSUME NEW j \in Job, Cancel(j) \/ Remove(j) PROVE Phases' = Phases
  <2>1. \A k \in Job : status[k] = "new" <=> status'[k] = "new"
    BY <1>0, <1>4 DEF Cancel, Remove
  <2>2. copies' = copies /\ hand' = hand /\ pc' = pc
    BY <1>4 DEF Cancel, Remove
  <2> QED BY <2>1, <2>2, PhaseFrame, <1>s
<1>5. ASSUME NEW w \in Worker, Loop(w) PROVE Service!Next \/ Phases' = Phases
  <2>1. hand[w] = NoJob /\ (\A v \in Worker \ {w} : pc'[v] = pc[v]) /\ status' = status /\ hand' = hand
    BY <1>0, <1>5 DEF Loop, Holding
  <2>2. CASE ~running
    <3>1. copies' = copies
      BY <1>5, <2>2 DEF Loop
    <3> QED BY <2>1, <3>1, PhaseFrame, <1>s
  <2>3. CASE running
    <3>1. copies' = [j \in Job |-> IF j \in Expired THEN 0 ELSE copies[j]]
      BY <1>5, <2>3 DEF Loop
    <3>2. \A j \in Job \ Expired : Phase(j)' = Phase(j)
      BY <2>1, <3>1, PhaseFrame
    <3>3. \A j \in Expired : j \in Job /\ copies[j] > 0 /\ Phase(j) = "waiting"
      BY HeapWaits DEF Expired, InHeap
    <3>4. \A j \in Expired : Phase(j)' = "over"
      <4> SUFFICES ASSUME NEW j \in Expired PROVE Phase(j)' = "over"
        OBVIOUS
      <4>1. copies'[j] = 0 /\ status'[j] # "new"
        BY <2>1, <3>1, <3>3 DEF HeapInv, Unscheduled
      <4>2. \A v \in Worker : hand'[v] # j
        BY <1>0, <2>1, <3>3 DEF HeapInv, HeldOnce
      <4> QED BY <4>1, <4>2 DEF Phase, Executing, Waiting
    <3>5. CASE Expired = {}
      BY <3>2, <3>5, <1>s
    <3>6. CASE Expired # {}
      <4>1. \A j \in Expired : [k \in Job |-> Phase(k)][j] = "waiting"
        BY <3>3
      <4>2. Phases' = [j \in Job |-> IF j \in Expired THEN "over" ELSE [k \in Job |-> Phase(k)][j]]
        BY <3>2, <3>4 DEF Phases
      <4>3. PICK J \in SUBSET Job : J = Expired
        BY <3>3
      <4>4. Service!Drop(J)
        BY <3>6, <4>1, <4>2, <4>3 DEF Service!Drop, Phases, Phase
      <4> QED BY <4>4 DEF Service!Next
    <3> QED BY <3>5, <3>6
  <2> QED BY <2>2, <2>3
<1>6. ASSUME NEW w \in Worker, Pop(w) PROVE Phases' = Phases
  <2>1. CASE InHeap = {}
    BY <1>0, <1>6, <2>1, PhaseFrame, <1>s DEF Pop, Holding
  <2>2. CASE InHeap # {}
    <3>1. PICK j \in InHeap : /\ copies' = [copies EXCEPT ![j] = @ - 1]
                              /\ hand' = [hand EXCEPT ![w] = j]
                              /\ pc' = [pc EXCEPT ![w] = "check"]
      BY <1>6, <2>2 DEF Pop
    <3>2. j \in Job /\ copies[j] > 0 /\ hand[w] = NoJob /\ status' = status
      BY <1>0, <1>6 DEF InHeap, Pop, Holding
    <3>3. Phase(j) = "waiting"
      BY <3>2, HeapWaits
    <3>4. Phase(j)' = "waiting"
      <4>1. hand'[w] = j /\ pc'[w] = "check" /\ status'[j] # "new"
        BY <1>0, <3>1, <3>2 DEF HeapInv, Unscheduled
      <4>2. \A v \in Worker \ {w} : hand'[v] # j
        BY <1>0, <3>1, <3>2 DEF HeapInv, HeldOnce
      <4> QED BY <4>1, <4>2 DEF Phase, Executing, Waiting
    <3>5. \A k \in Job \ {j} : Phase(k)' = Phase(k)
      BY <1>0, <3>1, <3>2, PhaseFrame
    <3> QED BY <3>3, <3>4, <3>5, <1>s
  <2> QED BY <2>1, <2>2
<1>7. ASSUME NEW w \in Worker, pc[w] \in Holding,
             Check(w) \/ Mark(w) \/ Finish(w) \/ Rearm(w) \/ Repush(w)
      PROVE  Service!Next \/ Phases' = Phases
  <2>h. PICK h \in Job : h = hand[w]
    BY <1>0, <1>7
  <2>1. h # NoJob /\ Phase(h) = IF pc[w] = "run" THEN "active" ELSE "waiting"
    BY <2>h, HandDecides
  <2>2. \A v \in Worker \ {w} : hand[v] # h /\ hand'[v] = hand[v] /\ pc'[v] = pc[v]
    BY <1>0, <1>7, <2>h, <2>1 DEF HeapInv, HeldOnce, Check, Mark, Finish, Rearm, Repush
  <2>3. \A k \in Job \ {h} : copies'[k] = copies[k] /\ status'[k] = status[k]
    BY <1>0, <1>7, <2>h DEF Check, Mark, Finish, Rearm, Repush, Push
  <2>4. hand'[w] \in {h, NoJob}
    BY <1>0, <1>7, <2>h DEF Check, Mark, Finish, Rearm, Repush
  <2>5. \A k \in Job \ {h} : Phase(k)' = Phase(k)
    <3> TAKE k \in Job \ {h}
    <3>1. \A v \in Worker : hand[v] = k <=> hand'[v] = k
      BY <2>h, <2>1, <2>2, <2>4, SchedulerAssumption
    <3>2. \A v \in Worker : hand[v] = k => pc'[v] = pc[v]
      BY <2>h, <2>2
    <3> QED BY <2>3, <3>1, <3>2, PhaseFrame
  <2>6. copies[h] = 0 /\ status[h] # "new" /\ status'[h] # "new"
    BY <1>0, <1>7, <2>h, <2>1 DEF HeapInv, HeldOnce, Unscheduled, Check, Mark, Finish, Rearm, Repush
  <2>7. ASSUME hand'[w] = h, pc'[w] \in Holding, copies'[h] = 0
        PROVE  Phase(h)' = IF pc'[w] = "run" THEN "active" ELSE "waiting"
    BY <2>1, <2>2, <2>6, <2>7 DEF Phase, Executing, Waiting, Holding
  <2>8. ASSUME hand'[w] = NoJob
        PROVE  Phase(h)' = IF copies'[h] > 0 THEN "waiting" ELSE "over"
    BY <2>1, <2>2, <2>6, <2>8 DEF Phase, Executing, Waiting
  <2>9. CASE Check(w)
    <3>1. pc[w] # "run" /\ copies' = copies
      BY <2>9 DEF Check
    <3>2. \/ hand'[w] = h /\ pc'[w] = "mark"
          \/ hand'[w] = NoJob
      BY <1>0, <2>h, <2>9 DEF Check
    <3> QED BY <2>1, <2>5, <2>6, <2>7, <2>8, <3>1, <3>2, <1>m, <1>s DEF Holding
  <2>10. CASE Mark(w)
    <3>1. pc[w] = "mark" /\ copies' = copies /\ hand'[w] = h /\ pc'[w] = "run"
      BY <1>0, <2>h, <2>10 DEF Mark
    <3> QED BY <2>1, <2>5, <2>6, <2>7, <3>1, <1>m DEF Holding
  <2>11. CASE Finish(w)
    <3>1. pc[w] = "run" /\ copies' = copies
      BY <2>11 DEF Finish
    <3>2. \/ h \in Periodic /\ hand'[w] = h /\ pc'[w] = "rearm"
          \/ h \notin Periodic /\ hand'[w] = NoJob
      BY <1>0, <2>h, <2>11 DEF Finish
    <3> QED BY <2>1, <2>5, <2>6, <2>7, <2>8, <3>1, <3>2, <1>m DEF Holding
  <2>12. CASE Rearm(w)
    <3>1. pc[w] = "rearm" /\ copies' = copies /\ hand'[w] = h /\ pc'[w] = "repush"
      BY <1>0, <2>h, <2>12 DEF Rearm
    <3> QED BY <2>1, <2>5, <2>6, <2>7, <3>1, <1>s DEF Holding
  <2>13. CASE Repush(w)
    <3>1. pc[w] = "repush" /\ copies'[h] > 0 /\ hand'[w] = NoJob
      BY <1>0, <2>h, <2>13 DEF Repush, Push
    <3> QED BY <2>1, <2>5, <2>8, <3>1, <1>s
  <2> QED BY <1>7, <2>9, <2>10, <2>11, <2>12, <2>13
<1>8. ASSUME NEW w \in Worker, Check(w) \/ Mark(w) \/ Finish(w) \/ Rearm(w) \/ Repush(w)
      PROVE  pc[w] \in Holding
  BY <1>8 DEF Check, Mark, Finish, Rearm, Repush, Holding
<1> QED
  BY <1>1, <1>2, <1>3, <1>4, <1>5, <1>6, <1>7, <1>8 DEF Next, WorkerStep

(* Heap, lock and threads are invisible to a caller: the scheduler implements
   the service of JobService for any number of jobs and workers. *)
THEOREM SchedulerIsAService == Spec => ServiceSpec
<1>1. Init => RunStatus
  BY SchedulerAssumption DEF Init, RunStatus
<1>2. Init => Service!Init
  BY DEF Init, Service!Init
<1>3. TypeOK /\ TypeOK' /\ HeapInv /\ HeapInv' /\ RunStatus /\ [Next]_vars
        => [Service!Next]_[j \in Job |-> IF status[j] = "new" THEN "absent"
                          ELSE IF Executing(j) THEN "active"
                          ELSE IF Waiting(j) THEN "waiting" ELSE "over"]
  BY ServiceStep DEF Phases, Phase
<1> QED
  BY <1>1, <1>2, <1>3, RunStatusStep, HeapInvAlways, TypeCorrect, PTL
     DEF Spec, ServiceSpec, Service!Spec
=============================================================================
