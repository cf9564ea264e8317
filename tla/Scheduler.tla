------------------------------ MODULE Scheduler ------------------------------
(***************************************************************************)
(* The kernel's job scheduler, buster/kernel/scheduler.py: a heap of jobs  *)
(* drained by a worker thread, while other threads schedule, cancel and    *)
(* remove jobs and one thread starts and stops the scheduler.              *)
(*                                                                         *)
(* The grain is the critical section: what the code does under self._lock  *)
(* is one step, and so is every unlocked write of job.status, because      *)
(* cancel() reads and writes the same field under the lock.  The `_wake`   *)
(* event and the waits (at most 0.5 s) only delay the worker; a wait is a  *)
(* return to the head of the loop.  `result`, names and logging are left   *)
(* out.                                                                    *)
(***************************************************************************)
EXTENDS Integers, FiniteSets

CONSTANTS
  Job,            \* job objects; schedule() makes each of them once (uuid ids)
  Periodic,       \* those scheduled with every > 0
  Worker,         \* thread objects start() may create
  NoJob,          \* "no job in hand"
  NoWorker,       \* self._thread before the first start()
  Rank,           \* the (priority, id) part of a heap entry
  Interval,       \* the period of a periodic job, in clock ticks
  MaxDelay,       \* bound on the delay given to schedule()
  MaxTime,        \* bound on the clock
  LongJobs        \* TRUE when a job may outlast stop()'s join(timeout=5.0)

ASSUME SchedulerAssumption ==
  /\ IsFiniteSet(Job) /\ Periodic \subseteq Job /\ NoJob \notin Job
  /\ NoWorker \notin Worker
  /\ Rank \in [Job -> Nat]
  /\ \A j, k \in Job : Rank[j] = Rank[k] => j = k
  /\ Interval \in Nat \ {0}
  /\ MaxDelay \in Nat /\ MaxTime \in Nat
  /\ LongJobs \in BOOLEAN

VARIABLES
  now,         \* time.monotonic()
  running,     \* self._running
  thread,      \* self._thread
  stopping,    \* the caller of stop() is inside join()
  doubled,     \* history: a worker was started while another one lived
  copies,      \* copies[j]: heap entries that hold job j
  registry,    \* keys of self._jobs
  status,      \* job.status, "new" before schedule()
  runAt,       \* job.run_at
  pc,          \* where each worker thread is in _run_loop / _execute
  hand,        \* the local variable `job` of _execute
  runs         \* history: how often job.func was entered

control == <<running, thread, stopping, doubled>>
vars == <<now, running, thread, stopping, doubled, copies, registry, status, runAt,
          pc, hand, runs>>

Status == {"new", "pending", "running", "completed", "cancelled", "failed"}

\* "loop" is the head of _run_loop with its locked scan, "pop" the locked pop
\* of _execute, "check" the unlocked status test, "mark" the assignment of
\* RUNNING, "run" the job function, "rearm" and "repush" the periodic tail.
Holding == {"check", "mark", "run", "rearm", "repush"}
Stage == {"dead", "loop", "pop"} \cup Holding

Init ==
  /\ now = 0
  /\ running = FALSE /\ thread = NoWorker /\ stopping = FALSE
  /\ doubled = FALSE
  /\ copies = [j \in Job |-> 0]
  /\ registry = {}
  /\ status = [j \in Job |-> "new"]
  /\ runAt = [j \in Job |-> 0]
  /\ pc = [w \in Worker |-> "dead"]
  /\ hand = [w \in Worker |-> NoJob]
  /\ runs = [j \in Job |-> 0]

-----------------------------------------------------------------------------
(* The heap.  Entries are ordered by (run_at, priority, id).               *)

InHeap == {j \in Job : copies[j] > 0}

Before(j, k) == \/ runAt[j] < runAt[k]
                \/ runAt[j] = runAt[k] /\ Rank[j] < Rank[k]

IsHead(j) == j \in InHeap /\ \A k \in InHeap \ {j} : Before(j, k)

\* The entries the scan pops: those ahead of every pending one.
Expired == {j \in InHeap : \A k \in InHeap :
                             status[k] = "pending" => Before(j, k)}

-----------------------------------------------------------------------------
(* Callers.                                                                *)

Tick ==
  /\ now < MaxTime
  /\ now' = now + 1
  /\ UNCHANGED <<control, copies, registry, status, runAt,
                 pc, hand, runs>>

\* start(): a fresh thread enters _run_loop.  start() and stop() are called
\* by one thread, so start() does not overlap a stop() that is in join().
Start(w) ==
  /\ ~running /\ ~stopping
  /\ pc[w] = "dead"
  /\ running' = TRUE /\ thread' = w
  /\ doubled' = (doubled \/ \E v \in Worker : pc[v] # "dead")
  /\ pc' = [pc EXCEPT ![w] = "loop"]
  /\ UNCHANGED <<now, stopping, copies, registry, status, runAt, hand, runs>>

Stop ==
  /\ running
  /\ running' = FALSE /\ stopping' = TRUE
  /\ UNCHANGED <<now, thread, doubled, copies, registry, status, runAt, pc, hand, runs>>

\* join(timeout=5.0) returns when the thread has ended, or gives up while it
\* is inside a job that takes longer.
StopReturns ==
  /\ stopping
  /\ pc[thread] = "dead" \/ (LongJobs /\ pc[thread] = "run")
  /\ stopping' = FALSE
  /\ UNCHANGED <<now, running, thread, doubled, copies, registry, status, runAt, pc,
                 hand, runs>>

Push(j) == /\ copies' = [copies EXCEPT ![j] = @ + 1]
           /\ registry' = registry \cup {j}

Schedule(j, delay) ==
  /\ status[j] = "new"
  /\ status' = [status EXCEPT ![j] = "pending"]
  /\ runAt' = [runAt EXCEPT ![j] = now + delay]
  /\ Push(j)
  /\ UNCHANGED <<now, control, pc, hand, runs>>

\* cancel() returning True; it returns False, changing nothing, otherwise.
Cancel(j) ==
  /\ j \in registry /\ status[j] = "pending"
  /\ status' = [status EXCEPT ![j] = "cancelled"]
  /\ UNCHANGED <<now, control, copies, registry, runAt, pc, hand, runs>>

\* remove() forgets the id and leaves the heap entry where it is.
Remove(j) ==
  /\ j \in registry
  /\ registry' = registry \ {j}
  /\ UNCHANGED <<now, control, copies, status, runAt, pc, hand, runs>>

-----------------------------------------------------------------------------
(* The worker.                                                             *)

\* Mutated form: the head is executed whether or not it is due.
LoopIgnoresDue(w) ==
  /\ pc[w] = "loop"
  /\ pc' = [pc EXCEPT ![w] = IF ~running THEN "dead"
                             ELSE IF InHeap = {} THEN "loop" ELSE "pop"]
  /\ UNCHANGED <<now, control, copies, registry, status, runAt, hand, runs>>

\* while self._running: drop the expired head entries and decide whether the
\* head is due.
Loop(w) ==
  /\ pc[w] = "loop"
  /\ IF ~running
     THEN /\ pc' = [pc EXCEPT ![w] = "dead"]
          /\ UNCHANGED <<copies, registry>>
     ELSE /\ copies' = [j \in Job |-> IF j \in Expired THEN 0 ELSE copies[j]]
          /\ registry' = registry \ Expired
          /\ pc' = [pc EXCEPT ![w] =
                     IF \E j \in InHeap \ Expired : runAt[j] <= now
                     THEN "pop" ELSE "loop"]
  /\ UNCHANGED <<now, control, status, runAt, hand, runs>>

Pop(w) ==
  /\ pc[w] = "pop"
  /\ \/ /\ InHeap = {}
        /\ pc' = [pc EXCEPT ![w] = "loop"]
        /\ UNCHANGED <<copies, hand>>
     \/ \E j \in InHeap :
          /\ IsHead(j)
          /\ copies' = [copies EXCEPT ![j] = @ - 1]
          /\ hand' = [hand EXCEPT ![w] = j]
          /\ pc' = [pc EXCEPT ![w] = "check"]
  /\ UNCHANGED <<now, control, registry, status, runAt, runs>>

Check(w) ==
  /\ pc[w] = "check"
  /\ IF status[hand[w]] = "pending"
     THEN pc' = [pc EXCEPT ![w] = "mark"] /\ UNCHANGED hand
     ELSE /\ pc' = [pc EXCEPT ![w] = "loop"]
          /\ hand' = [hand EXCEPT ![w] = NoJob]
  /\ UNCHANGED <<now, control, copies, registry, status, runAt, runs>>

\* job.status = RUNNING, then job.func(job) is entered.
Mark(w) ==
  /\ pc[w] = "mark"
  /\ status' = [status EXCEPT ![hand[w]] = "running"]
  /\ runs' = [runs EXCEPT ![hand[w]] = @ + 1]
  /\ pc' = [pc EXCEPT ![w] = "run"]
  /\ UNCHANGED <<now, control, copies, registry, runAt, hand>>

\* Mutated form: the interval test is lost, every job is re-armed.
FinishRearmsAll(w) ==
  /\ pc[w] = "run"
  /\ status' = [status EXCEPT ![hand[w]] = "completed"]
  /\ pc' = [pc EXCEPT ![w] = "rearm"]
  /\ UNCHANGED <<now, control, copies, registry, runAt, hand, runs>>

\* Mutated form: the exception of a failing job ends the worker thread.
FinishDiesOnFailure(w) ==
  /\ pc[w] = "run"
  /\ \/ /\ status' = [status EXCEPT ![hand[w]] = "completed"]
        /\ pc' = [pc EXCEPT ![w] = "loop"]
     \/ /\ status' = [status EXCEPT ![hand[w]] = "failed"]
        /\ pc' = [pc EXCEPT ![w] = "dead"]
  /\ hand' = [hand EXCEPT ![w] = NoJob]
  /\ UNCHANGED <<now, control, copies, registry, runAt, runs>>

\* job.func returns or raises; either way the worker goes on.
Finish(w) ==
  /\ pc[w] = "run"
  /\ \E outcome \in {"completed", "failed"} :
       status' = [status EXCEPT ![hand[w]] = outcome]
  /\ IF hand[w] \in Periodic
     THEN pc' = [pc EXCEPT ![w] = "rearm"] /\ UNCHANGED hand
     ELSE /\ pc' = [pc EXCEPT ![w] = "loop"]
          /\ hand' = [hand EXCEPT ![w] = NoJob]
  /\ UNCHANGED <<now, control, copies, registry, runAt, runs>>

\* The test `job.status is not CANCELLED` in front of this never fails:
\* cancel() needs PENDING and the status is still the outcome of the run.
Rearm(w) ==
  /\ pc[w] = "rearm"
  /\ runAt' = [runAt EXCEPT ![hand[w]] = now + Interval]
  /\ status' = [status EXCEPT ![hand[w]] = "pending"]
  /\ pc' = [pc EXCEPT ![w] = "repush"]
  /\ UNCHANGED <<now, control, copies, registry, hand, runs>>

\* Mutated form: the status is reset by the locked push instead.
RepushResetsStatus(w) ==
  /\ pc[w] = "repush"
  /\ Push(hand[w])
  /\ status' = [status EXCEPT ![hand[w]] = "pending"]
  /\ pc' = [pc EXCEPT ![w] = "loop"]
  /\ hand' = [hand EXCEPT ![w] = NoJob]
  /\ UNCHANGED <<now, control, runAt, runs>>

Repush(w) ==
  /\ pc[w] = "repush"
  /\ Push(hand[w])
  /\ pc' = [pc EXCEPT ![w] = "loop"]
  /\ hand' = [hand EXCEPT ![w] = NoJob]
  /\ UNCHANGED <<now, control, status, runAt, runs>>

WorkerStep(w) == \/ Loop(w) \/ Pop(w) \/ Check(w) \/ Mark(w) \/ Finish(w)
                 \/ Rearm(w) \/ Repush(w)

Next ==
  \/ Tick \/ Stop \/ StopReturns
  \/ \E w \in Worker : Start(w) \/ WorkerStep(w)
  \/ \E j \in Job : Cancel(j) \/ Remove(j)
                    \/ \E d \in 0 .. MaxDelay : Schedule(j, d)

Spec == Init /\ [][Next]_vars

\* The worker threads are scheduled by the operating system and their waits
\* are bounded; job functions return; the clock advances up to its bound.
\* Nobody is obliged to start, stop, schedule, cancel or remove.
Fairness == /\ WF_vars(Tick) /\ WF_vars(StopReturns)
            /\ \A w \in Worker : WF_vars(WorkerStep(w))

FairSpec == Spec /\ Fairness

-----------------------------------------------------------------------------
(* Properties.                                                             *)

TypeOK ==
  /\ now \in Nat
  /\ running \in BOOLEAN /\ stopping \in BOOLEAN /\ doubled \in BOOLEAN
  /\ thread \in Worker \cup {NoWorker}
  /\ copies \in [Job -> Nat]
  /\ registry \subseteq Job
  /\ status \in [Job -> Status]
  /\ runAt \in [Job -> Nat]
  /\ pc \in [Worker -> Stage]
  /\ hand \in [Worker -> Job \cup {NoJob}]
  /\ \A w \in Worker : hand[w] = NoJob <=> pc[w] \notin Holding
  /\ runs \in [Job -> Nat]

\* A job object is in one place: one heap entry, or one worker's hand, or
\* neither.  With a second worker (a stop() that timed out, then start()) this
\* is what keeps a job function from being entered twice at the same time.
HeldOnce ==
  /\ \A j \in Job : copies[j] <= 1
  /\ \A w \in Worker : hand[w] # NoJob => copies[hand[w]] = 0
  /\ \A v, w \in Worker : v # w /\ hand[v] # NoJob => hand[v] # hand[w]

\* A one-shot job's function is entered at most once, whatever start, stop,
\* cancel and remove calls surround it and however many workers are alive.
OneShotRunsOnce == \A j \in Job \ Periodic : runs[j] <= 1

\* cancel() wins every race but one: the only step that takes a cancelled job
\* out of CANCELLED is the worker's `job.status = RUNNING` after its unlocked
\* status test had already passed.
CancelledStaysUnlessMarked ==
  [][\A j \in Job : status[j] = "cancelled" /\ status'[j] # "cancelled"
       => \E w \in Worker : pc[w] = "mark" /\ hand[w] = j]_vars

\* Until a second worker was started beside a living one, no job function is
\* entered before the job's run_at, even though the due test and the pop are
\* separate critical sections and jobs are scheduled in between.
NeverEarly ==
  ~doubled => \A w \in Worker : pc[w] = "run" => runAt[hand[w]] <= now

\* So a job function is entered in its time, in one place and, for a one-shot, once.
RunDiscipline == NeverEarly /\ HeldOnce /\ OneShotRunsOnce

\* A due entry leaves the heap (it is run or dropped) unless the scheduler is
\* stopped: no cancelled, failed or rescheduled job starves another one.
DueJobLeavesHeap ==
  \A j \in Job : (copies[j] > 0 /\ runAt[j] <= now /\ running)
                   ~> (copies[j] = 0 \/ ~running)

\* After stop() the workers end, unless the scheduler is started again.
StopQuiesces == ~running ~> (running \/ \A w \in Worker : pc[w] = "dead")

\* The workers get on, and end.
Progress == DueJobLeavesHeap /\ StopQuiesces

-----------------------------------------------------------------------------
(* The promise of a scheduler without its heap and threads.                *)

Executing(j) == \E w \in Worker : pc[w] = "run" /\ hand[w] = j
Waiting(j)   == \/ copies[j] > 0
                \/ \E w \in Worker : hand[w] = j /\ pc[w] # "run"

Service == INSTANCE JobService WITH
  phase <- [j \in Job |-> IF status[j] = "new" THEN "absent"
                          ELSE IF Executing(j) THEN "active"
                          ELSE IF Waiting(j) THEN "waiting" ELSE "over"]

ServiceSpec == Service!Spec
=============================================================================
