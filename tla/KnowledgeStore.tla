---------------------------- MODULE KnowledgeStore ----------------------------
(***************************************************************************)
(* What the node learns: the experience log (memory/experience.py), the    *)
(* knowledge it distils (memory/knowledge.py), the reflection hooks        *)
(* (memory/reflection.py), the reflection pass (intelligence/reflection.py)*)
(* and consolidation (intelligence/memory.py).                             *)
(*                                                                         *)
(* Two threads work on them without a lock: the serve loop, which records  *)
(* and reflects for every goal, and the scheduler's worker, whose tick     *)
(* reflects and consolidates.  A thread has a list of operations to do;    *)
(* an operation that writes a file does so in the steps of its system      *)
(* calls: open(.., "w") truncates, what is to be written is collected, and *)
(* close() flushes it at offset 0, whatever is in the file by then.        *)
(* Learning and recalling touch no file and are one step each.             *)
(***************************************************************************)
EXTENDS Integers, FiniteSets, SequencesExt

CONSTANTS
  Goal, Target, Text, \* goals; their texts; Text[g] of goal g
  Capacity,           \* of the experience log (2000)
  Episodes            \* capacity of the episodic log (2000)

ASSUME StoreAssumption ==
  /\ Text \in [Goal -> Target]
  /\ Capacity \in Nat \ {0} /\ Episodes \in Nat \ {0}

VARIABLES
  log,      \* the rows of experience.jsonl
  facts,    \* KnowledgeMemory._entries
  disk,     \* knowledge.json: the entries in it, or Torn
  episodes, \* episodic.jsonl
  todo,     \* what each thread has still to do
  at,       \* where each thread is in the first of these operations
  buffer,   \* what it has collected for a file
  size,     \* of the dict when it began to collect
  passes,   \* the worker's ticks so far
  recorded, \* history: every row ever recorded
  torn,     \* history: a crash hit the log while it was rewritten
  crossed,  \* history: a save since the last clean one met another or raised
  opened    \* history: the threads whose save has met no other so far

files == <<log, disk, episodes>>
history == <<recorded, torn, crossed, opened>>
storeVars == <<files, facts, todo, at, buffer, size, passes, history>>

Thread == {"serve", "worker"}
Torn == [whole |-> FALSE, entries |-> <<>>]
Whole(entries) == [whole |-> TRUE, entries |-> entries]
Other(t) == CHOOSE u \in Thread : u # t
LastOf(s, n) == SubSeq(s, IF Len(s) > n THEN Len(s) - n + 1 ELSE 1, Len(s))

\* confidence, in tenths
Confidence(kind) ==
  CASE kind = "contradiction" -> 9
    [] kind \in {"avoid_repeat", "pattern"} -> 6 [] kind = "hypothesis" -> 5
    [] kind \in {"agent_working", "question"} -> 4 [] kind = "goal_seen" -> 3

-----------------------------------------------------------------------------
(* What a row teaches: the hooks, in their order. *)

Learning(kinds, row) == [op |-> "learn", kinds |-> kinds, row |-> row]

\* The hooks that have something to learn from a row.
Hooks(row) ==
  Learning((IF row.failed THEN <<"avoid_repeat", "goal_seen">> ELSE <<"goal_seen", "pattern">>)
             \o (IF row.agent /\ ~row.failed THEN <<"agent_working">> ELSE <<>>), row)

\* What is left of an operation when its first entry has been learnt.
Remaining(op) ==
  IF op.op = "learn" /\ Len(op.kinds) > 1 THEN <<[op EXCEPT !.kinds = Tail(@)]>> ELSE <<>>

\* The numbers of S from the least on.
InOrder(S) == [n \in 1..Cardinality(S) |-> CHOOSE i \in S : Cardinality({j \in S : j < i}) = n - 1]

\* _hypotheses_from_failures() and _unresolved_questions(); no row has a lesson.
Hypotheses(rows) ==
  LET failed == {i \in DOMAIN rows : rows[i].failed}
      first == InOrder({i \in failed :
                 /\ \A j \in failed : j < i => rows[j].target # rows[i].target
                 /\ \E j \in failed : j > i /\ rows[j].target = rows[i].target})
  IN  [n \in DOMAIN first |-> Learning(<<"hypothesis">>, rows[first[n]])]

Questions(rows) ==
  LET recent == LastOf(rows, 10)
      failed == InOrder({i \in DOMAIN recent : recent[i].failed})
  IN  [n \in DOMAIN failed |-> [Learning(<<"question">>, recent[failed[n]]) EXCEPT !.op = "ask"]]

\* ReflectionEngine.reflect()
Distil(rows) == [i \in DOMAIN rows |-> Hooks(rows[i])]

Do(op) == [op |-> op]
Record(row) == [op |-> "record", row |-> row]

\* What process_goal() asks of the stores: the planner's run, which records and
\* reflects inside a try; the fixer's, if it failed; a pass; the learning cycle.
\* What is left of "return" tells an answer from an exception.
GoalOps(g, failed, fixed) ==
  LET row == [goal |-> g, target |-> <<Text[g]>>, failed |-> failed, agent |-> TRUE]
      fix == [row EXCEPT !.target = <<"fix", Text[g]>>, !.failed = ~fixed]
      tried(r) == <<Record(r), Hooks(r), Do("tried")>>
  IN  tried(row) \o (IF failed THEN tried(fix) ELSE <<>>)
      \o <<Do("reflect"), Record([row EXCEPT !.agent = FALSE]), Do("return")>>

-----------------------------------------------------------------------------
(* Steps of a thread *)

Turn(t, op) == at[t] = "next" /\ todo[t] # <<>> /\ Head(todo[t]).op = op
Advance(t, ops) == /\ todo' = [todo EXCEPT ![t] = ops \o Tail(@)]
                   /\ at' = [at EXCEPT ![t] = "next"]

\* An exception leaves the try of _learnt_from(), or the whole goal or tick.
Raise(t) ==
  LET ends == {i \in DOMAIN todo[t] : todo[t][i].op = "tried"}
      after == IF ends = {} THEN Len(todo[t])
               ELSE CHOOSE i \in ends : \A j \in ends : i <= j
  IN  /\ todo' = [todo EXCEPT ![t] = SubSeq(@, after + 1, Len(@))]
      /\ at' = [at EXCEPT ![t] = "next"]

Tried(t) ==
  /\ Turn(t, "tried") /\ Advance(t, <<>>)
  /\ UNCHANGED <<files, facts, buffer, size, passes, history>>

\* record(): the row is appended; then the log is read and, if too long, rewritten.
AppendRow(t) ==
  /\ Turn(t, "record")
  /\ LET row == Head(todo[t]).row
         long == Len(log) >= Capacity IN
     /\ log' = Append(log, row)
     /\ recorded' = Append(recorded, row)
     /\ IF long THEN at' = [at EXCEPT ![t] = "trim"] /\ UNCHANGED todo ELSE Advance(t, <<>>)
  /\ UNCHANGED <<disk, episodes, facts, buffer, size, passes, torn, crossed, opened>>

Truncate(t) ==
  /\ at[t] = "trim"
  /\ buffer' = [buffer EXCEPT ![t] = LastOf(log, Capacity)]
  /\ log' = <<>>
  /\ at' = [at EXCEPT ![t] = "trimmed"]
  /\ UNCHANGED <<disk, episodes, facts, todo, size, passes, history>>

Rewrite(t) ==
  /\ at[t] = "trimmed"
  /\ log' = buffer[t]
  /\ Advance(t, <<>>) /\ buffer' = [buffer EXCEPT ![t] = <<>>]
  /\ UNCHANGED <<disk, episodes, facts, size, passes, history>>

\* Mutated form: the entries of the next save are collected before this entry is in.
SaveFirst(t, entries) ==
  /\ facts' = entries /\ disk' = Torn
  /\ buffer' = [buffer EXCEPT ![t] = facts]
  /\ at' = [at EXCEPT ![t] = "flush"]
  /\ opened' = opened \cup {t}
  /\ UNCHANGED <<log, episodes, todo, size, passes, recorded, torn, crossed>>

\* _save(): the file is truncated; the size of the dict is that at the iteration's start.
Opens(t, entries) ==
  LET alone == at[Other(t)] \notin {"collect", "flush"} IN
  /\ facts' = entries /\ disk' = Torn
  /\ size' = [size EXCEPT ![t] = Cardinality(DOMAIN entries)]
  /\ at' = [at EXCEPT ![t] = "collect"]
  /\ opened' = IF alone THEN opened \cup {t} ELSE {}
  /\ crossed' = (crossed \/ ~alone)
  /\ UNCHANGED <<log, episodes, todo, buffer, passes, recorded, torn>>

FirstKey(t) == LET op == Head(todo[t]) IN <<Head(op.kinds), op.row.target>>

\* learn(): an entry is replaced by one of at least its confidence; then the save.
Learn(t) ==
  /\ \/ Turn(t, "learn")
     \/ Turn(t, "ask") /\ FirstKey(t) \notin DOMAIN facts
  /\ LET key == FirstKey(t)
         entry == [confidence |-> Confidence(key[1]), row |-> Head(todo[t]).row, stale |-> FALSE] IN
     Opens(t, IF key \in DOMAIN facts /\ facts[key].confidence > entry.confidence THEN facts
              ELSE [k \in DOMAIN facts \cup {key} |-> IF k = key THEN entry ELSE facts[k]])

Known(t) ==
  /\ Turn(t, "ask") /\ FirstKey(t) \in DOMAIN facts
  /\ Advance(t, <<>>)
  /\ UNCHANGED <<files, facts, buffer, size, passes, history>>

\* The entries are collected, unless one was added since: RuntimeError.
Collect(t) ==
  /\ at[t] = "collect"
  /\ \/ /\ buffer' = [buffer EXCEPT ![t] = facts]
        /\ at' = [at EXCEPT ![t] = "flush"]
        /\ UNCHANGED <<todo, crossed, opened>>
     \/ /\ Cardinality(DOMAIN facts) # size[t]
        /\ Raise(t) /\ UNCHANGED buffer
        /\ crossed' = TRUE /\ opened' = opened \ {t}
  /\ UNCHANGED <<files, facts, size, passes, recorded, torn>>

\* Written over what another save left meanwhile; the longer text shows at the end.
Flush(t) ==
  /\ at[t] = "flush"
  /\ LET mine == Cardinality(DOMAIN buffer[t])
         there == Cardinality(DOMAIN disk.entries) IN
     \/ mine >= there /\ disk' = Whole(buffer[t])
     \/ disk.whole /\ mine <= there /\ disk' = Torn
  /\ Advance(t, Remaining(Head(todo[t])))
  /\ buffer' = [buffer EXCEPT ![t] = <<>>]
  /\ crossed' = (crossed /\ t \notin opened)
  /\ opened' = opened \ {t}
  /\ UNCHANGED <<log, episodes, facts, size, passes, recorded, torn>>

\* recall(): while the log is being rewritten a reader finds a first part of it,
\* or a broken line and raises.
Rewriting(t) == at[Other(t)] = "trimmed"
Recall(t) ==
  IF Rewriting(t) THEN {SubSeq(buffer[Other(t)], 1, n) : n \in 0..Len(buffer[Other(t)])}
  ELSE {log}
BrokenLine(t) == Rewriting(t) /\ Raise(t)

\* reflect_now(), and Kernel.stop()'s last reflection ("distil")
Reflect(t) ==
  /\ Turn(t, "reflect") \/ Turn(t, "distil")
  /\ \/ \E rows \in Recall(t) :
          LET recent == LastOf(rows, 30) IN
          Advance(t, IF Turn(t, "distil") THEN Distil(LastOf(rows, 20))
                     ELSE Distil(recent) \o Hypotheses(recent) \o Questions(recent))
     \/ BrokenLine(t)
  /\ UNCHANGED <<files, facts, buffer, size, passes, history>>

\* consolidate(): a summary of every target met twice, the stale facts, the
\* contradictions.  failures holds failed rows only, so the test for one that is
\* "done" never holds and every pattern with a recent failure is contradicted.
Summaries(rows) ==
  {<<r.target, Cardinality({i \in DOMAIN rows : rows[i].target = r.target})>> :
     r \in {q \in ToSet(rows) : \E i, j \in DOMAIN rows :
              i # j /\ rows[i].target = q.target /\ rows[j].target = q.target}}

Consolidate(t) ==
  /\ Turn(t, "consolidate")
  /\ \/ \E rows \in Recall(t) :
          Advance(t, <<[op |-> "summarize", all |-> LastOf(rows, 50)],
                       Do("prune"), Do("contradict")>>)
     \/ BrokenLine(t)
  /\ UNCHANGED <<files, facts, buffer, size, passes, history>>

\* EpisodicMemory.record() and its _trim()
Trimmed(rows) == LastOf(rows, Episodes)
Remember(rows, row) == Trimmed(Append(rows, row))

Summarize(t) ==
  /\ Turn(t, "summarize")
  /\ episodes' = FoldLeft(Remember, episodes, SetToSeq(Summaries(Head(todo[t]).all)))
  /\ Advance(t, <<>>)
  /\ UNCHANGED <<log, disk, facts, buffer, size, passes, history>>

LowValue == {k \in DOMAIN facts : facts[k].stale /\ \/ k[1] = "goal_seen" /\ facts[k].confidence < 4
                                                    \/ k[1] = "avoid_repeat" /\ facts[k].confidence < 3}

Prune(t) ==
  /\ Turn(t, "prune")
  /\ \/ /\ LowValue = {} /\ Advance(t, <<>>)
        /\ UNCHANGED <<files, facts, buffer, size, passes, history>>
     \/ LowValue # {} /\ Opens(t, [k \in DOMAIN facts \ LowValue |-> facts[k]])

Contradict(t) ==
  /\ Turn(t, "contradict")
  /\ \/ \E rows \in Recall(t) :
          LET patterns == {k[2] : k \in {k \in DOMAIN facts : k[1] = "pattern"}}
              failed == SetToSeq({r \in ToSet(rows) : r.failed /\ r.target \in patterns})
          IN  Advance(t, [i \in DOMAIN failed |-> Learning(<<"contradiction">>, failed[i])])
     \/ BrokenLine(t)
  /\ UNCHANGED <<files, facts, buffer, size, passes, history>>

\* The worker's tick, as the rhythm of the moment has it; a running goal keeps it active.
Pass ==
  /\ todo["worker"] = <<>> /\ at["worker"] = "next"
  /\ \E ops \in {<<Do("reflect")>>, <<Do("consolidate")>>, <<Do("consolidate"), Do("reflect")>>} :
       todo' = [todo EXCEPT !["worker"] = ops]
  /\ passes' = passes + 1
  /\ UNCHANGED <<files, facts, at, buffer, size, history>>

\* The process ends, at any moment; the stores of the next one load the files.
Reload ==
  /\ facts' = disk.entries
  /\ todo' = [t \in Thread |-> <<>>] /\ at' = [t \in Thread |-> "next"]
  /\ buffer' = [t \in Thread |-> <<>>] /\ size' = [t \in Thread |-> 0]
  /\ torn' = (torn \/ \E t \in Thread : at[t] \in {"trim", "trimmed"})
  /\ crossed' = ~disk.whole /\ opened' = {}
  /\ UNCHANGED <<files, passes, recorded>>

\* What an earlier process has left: facts older than thirty days.
Earlier ==
  [k \in {"goal_seen", "pattern"} \X {<<t>> : t \in Target} |->
     [confidence |-> Confidence(k[1]), row |-> [target |-> k[2]], stale |-> TRUE]]

\* Each store as its constructor leaves it; the logs stay in their files.
ExperienceInit == log = <<>> /\ recorded = <<>> /\ torn = FALSE
KnowledgeInit == facts = Earlier /\ disk = Whole(facts) /\ crossed = FALSE /\ opened = {}
EpisodicInit == episodes = <<>>

StoreInit ==
  /\ ExperienceInit /\ KnowledgeInit /\ EpisodicInit
  /\ todo = [t \in Thread |-> <<>>] /\ at = [t \in Thread |-> "next"]
  /\ buffer = [t \in Thread |-> <<>>] /\ size = [t \in Thread |-> 0] /\ passes = 0

Step(t) ==
  \/ Tried(t) \/ AppendRow(t) \/ Truncate(t) \/ Rewrite(t) \/ Learn(t) \/ Known(t) \/ Collect(t) \/ Flush(t)
  \/ Reflect(t) \/ Consolidate(t) \/ Summarize(t) \/ Prune(t) \/ Contradict(t)
=============================================================================
