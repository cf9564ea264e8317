------------------------------ MODULE Cognition ------------------------------
(***************************************************************************)
(* The cognition tick (intelligence/orchestration.py) on the scheduler's   *)
(* worker, with the parts it drives: nervous.py (samples become signals),  *)
(* rhythm.py (signals become a mode), attention.py (signals become notes)  *)
(* and proactive.py (patterns become suggestions).  Two other threads take *)
(* part: the one that boots the kernel, whose first heed() races with the  *)
(* first tick, and the router's dispatch thread, whose handler of          *)
(* "intel.signal" notes every signal a second time.                        *)
(*                                                                         *)
(* The attention queue is a Python list that both note into.  list.sort()  *)
(* empties the list while it computes the keys and afterwards puts back    *)
(* what it took, raising ValueError if the list was touched meanwhile.     *)
(***************************************************************************)
EXTENDS Integers, FiniteSets, SequencesExt

CONSTANTS
  Observation,  \* what perception, kernel status and the stores may report
  Starts,       \* ... and what they may report at boot
  Goal, About,  \* goals; About[g]: kinds of signal whose message shares a word with g
  Capacity,     \* of the attention queue (32)
  Window, Keep, \* of the suggestions: compared (20) and kept (50)
  MaxChanges    \* bound on what happens outside (Change, Use, Touch)

ASSUME CognitionAssumption ==
  /\ Starts \subseteq Observation
  /\ Capacity \in Nat \ {0} /\ Window \in Nat \ {0} /\ Keep \in Nat /\ Window <= Keep
  /\ MaxChanges \in Nat
  /\ IsFiniteSet(Goal)
  /\ \A o \in Observation : IsFiniteSet(DOMAIN o.rows) /\ IsFiniteSet(o.actions)

VARIABLES
  env,          \* what a snapshot would return now
  quiet,        \* NervousSystem.activity_state()
  goals,        \* the active goals
  sampled,      \* _last_battery_pct and _last_connectivity
  seen, latest, \* _last_seen, _latest
  mode, due,    \* CognitiveRhythm.current; the opportunities whose interval has passed
  rested,       \* a minute has passed since _last_recovery
  queue,        \* the list object under Attention._queue, as a reader finds it
  untouched,    \* nothing was appended to it since its contents were taken for a sort
  known,        \* _seen_messages
  events,       \* queued intel.signal events
  suggestions,
  at,           \* each thread's step
  work,         \* the signals it has still to handle
  fresh,        \* what its evaluate() returned
  held,         \* what its sort took out of the list
  changes,
  taken, clashed  \* history: two threads were ever inside note_signal; the notes taken in before

nervousVars == <<sampled, seen, latest>>
rhythmVars == <<mode, due, rested>>
noteVars == <<queue, untouched, known, held, taken, clashed>>
outside == <<env, quiet, goals>>
vars == <<outside, nervousVars, rhythmVars, noteVars, events, suggestions, at, work, fresh, changes>>

Thread == {"boot", "worker", "router"}
None == -1
Quiet == [level |-> "none", text |-> <<>>]
Opportunities == {"maintenance", "reflection"}  \* each has an interval of its own
Kind == {"battery", "thermal", "storage", "cpu", "memory", "network", "capability",
         "provider", "job", "host"}
Rank(level) == CASE level = "critical" -> 4 [] level = "warning" -> 3 [] level = "info" -> 2
                 [] level = "ok" -> 1 [] OTHER -> 0

\* The elements of S from the first to the last, as the pairs in before have them.
Ranked(S, before) ==
  [n \in 1..Cardinality(S) |-> CHOOSE i \in S : Cardinality({j \in S : <<j, i>> \in before}) = n - 1]

-----------------------------------------------------------------------------
(* Nervous system *)

When(cond, kind, level, text) ==
  IF cond THEN <<[kind |-> kind, level |-> level, text |-> text]>> ELSE <<>>

\* evaluate(): the signals of one sample, in the order of the code.
Evaluate(o, last) ==
  LET charge == IF o.pct < 10 THEN "critical" ELSE IF o.pct < 20 THEN "warning" ELSE "ok"
  IN  When(last.pct # None /\ o.pct < last.pct - 5, "battery", "info", <<"draining">>)
   \o When(charge # "ok" \/ last.pct = None, "battery", charge, <<"at", o.pct>>)
   \o When(o.temp > 45, "thermal", "warning", <<"at", o.temp>>)
   \o When(o.freeMb < 1024, "storage", IF o.freeMb < 256 THEN "critical" ELSE "warning", <<"low">>)
   \o When(o.load > 9 * o.cpus, "cpu", "warning", <<"load", o.load>>)
   \o When(10 * o.availMb < o.totalMb, "memory", "critical", <<"low available">>)
   \o When(~o.ips /\ last.net # "offline", "network", "info", <<"no interface">>)
   \o When(o.missing # {}, "capability", "warning", <<"missing", o.missing>>)
   \o When(o.providers = {}, "provider", "warning", <<"none registered">>)
   \o When(o.failed > 0, "job", "warning", <<"failed", o.failed>>)
   \o When(o.keys > 2000, "memory", "info", <<"store is large">>)
   \o When(o.foreign, "host", "info", <<"non-phone host">>)

\* heed(): deduplicate against the last signal of the kind; the last one stands.
Heed(signals, last) ==
  FoldLeft(LAMBDA acc, s :
    LET now == [level |-> s.level, text |-> s.text]
    IN  [seen |-> [acc.seen EXCEPT ![s.kind] = now],
         surfaced |-> IF acc.seen[s.kind] = now THEN acc.surfaced ELSE Append(acc.surfaced, s)],
    [seen |-> last, surfaced |-> <<>>], signals)

Standing(signals, before) ==
  [k \in Kind |->
     LET own == {i \in DOMAIN signals : signals[i].kind = k}
     IN  IF own = {} THEN before[k]
         ELSE LET i == CHOOSE i \in own : \A j \in own : j <= i
              IN  [level |-> signals[i].level, text |-> signals[i].text]]

Health == IF \E k \in Kind : latest[k].level = "critical" THEN "critical"
          ELSE IF \E k \in Kind : latest[k].level = "warning" THEN "attention"
          ELSE "healthy"

\* snapshot() and evaluate(), which remembers charge and connectivity.
Sample(t) ==
  /\ at[t] = "sample"
  /\ fresh' = [fresh EXCEPT ![t] = Evaluate(env, sampled)]
  /\ sampled' = [pct |-> env.pct, net |-> IF env.ips THEN "online" ELSE "offline"]
  /\ at' = [at EXCEPT ![t] = "surface"]
  /\ UNCHANGED <<outside, seen, latest, rhythmVars, noteVars, events, suggestions, work, changes>>

\* Mutated form: only what surfaces becomes the standing signal of its kind.
SurfaceOnlyNew(t) ==
  /\ at[t] = "surface"
  /\ LET heard == Heed(fresh[t], seen) IN
     /\ seen' = heard.seen
     /\ latest' = [k \in Kind |-> IF \E i \in DOMAIN fresh[t] : fresh[t][i].kind = k
                                  THEN latest[k] ELSE Quiet]
     /\ events' = events \o heard.surfaced
     /\ work' = [work EXCEPT ![t] = heard.surfaced]
  /\ fresh' = [fresh EXCEPT ![t] = <<>>]
  /\ at' = [at EXCEPT ![t] = IF t = "worker" THEN "transition" ELSE "off"]
  /\ UNCHANGED <<outside, sampled, rhythmVars, noteVars, suggestions, changes>>

\* heed(): what is new is emitted from "info" upwards, and returned to the tick.
Surface(t) ==
  /\ at[t] = "surface"
  /\ LET heard == Heed(fresh[t], seen) IN
     /\ seen' = heard.seen
     /\ latest' = Standing(fresh[t], latest)
     /\ events' = events \o SelectSeq(heard.surfaced, LAMBDA s : Rank(s.level) >= 2)
     /\ work' = [work EXCEPT ![t] = IF t = "worker" THEN heard.surfaced ELSE <<>>]
  /\ fresh' = [fresh EXCEPT ![t] = <<>>]
  /\ at' = [at EXCEPT ![t] = IF t = "worker" THEN "transition" ELSE "off"]
  /\ UNCHANGED <<outside, sampled, rhythmVars, noteVars, suggestions, changes>>

-----------------------------------------------------------------------------
(* Rhythm *)

\* Mutated form: the tick does not count itself.
ActiveJobsOthers == 0

\* _active_job_count(): pending or running jobs, the tick that counts among them.
ActiveJobs == 1

Target ==
  IF Health = "critical" THEN "constrained"
  ELSE IF Health = "attention" THEN "degraded"
  ELSE IF quiet = "active" \/ goals # {} THEN "active"
  ELSE IF ActiveJobs > 0 THEN "background"
  ELSE IF quiet = "sleep" THEN "sleep"
  ELSE IF "maintenance" \in due THEN "maintenance"
  ELSE IF "reflection" \in due THEN "reflection"
  ELSE "idle"

Transition ==
  /\ at["worker"] = "transition"
  /\ LET recovers == mode = "constrained" /\ Target # "constrained" IN
     /\ mode' = IF ~recovers THEN Target ELSE IF rested THEN "recovery" ELSE "idle"
     /\ rested' = (rested /\ ~recovers)
     /\ due' = IF Target \in {"active", "background"} THEN {} ELSE due
  /\ at' = [at EXCEPT !["worker"] = "note"]
  /\ UNCHANGED <<outside, nervousVars, noteVars, events, suggestions, work, fresh, changes>>

-----------------------------------------------------------------------------
(* Attention *)

\* score(), in tenths.
Score(s) ==
  (CASE s.level = "critical" -> 40 [] s.level = "warning" -> 30 [] s.level = "info" -> 15 [] OTHER -> 5)
  + (IF s.text \in known THEN 0 ELSE 20)
  + (IF \E g \in goals : s.kind \in About[g] THEN 10 ELSE 0)
  - (IF s.kind \in {"host", "battery"} /\ s.level \in {"info", "ok"} THEN 20 ELSE 0)
  - (CASE mode = "sleep" -> 20 [] mode = "constrained" -> 10 [] OTHER -> 0)

Nothing == [items |-> <<>>, mark |-> FALSE, gone |-> FALSE]
Inside == {t \in Thread : at[t] \in {"sort", "sorting", "trim", "cut"}}

\* note_signal() up to the append; noise is dropped.
Note(t) ==
  /\ at[t] = "note" /\ work[t] # <<>>
  /\ LET s == Head(work[t])
         note == [id |-> Len(taken) + 1, kind |-> s.kind, score |-> Score(s)]
         meets == clashed \/ Inside # {} IN
     IF note.score < 15
     THEN UNCHANGED <<noteVars, at>>
     ELSE /\ known' = known \cup {s.text}
          /\ queue' = Append(queue, note)
          /\ untouched' = FALSE
          /\ taken' = (IF meets THEN <<>> ELSE Append(taken, note))
          /\ clashed' = meets
          /\ at' = [at EXCEPT ![t] = "sort"]
          /\ UNCHANGED held
  /\ work' = [work EXCEPT ![t] = Tail(@)]
  /\ UNCHANGED <<outside, nervousVars, rhythmVars, events, suggestions, fresh, changes>>

\* sort(): the list is emptied while its keys are computed ...
SortBegins(t) ==
  /\ at[t] = "sort"
  /\ held' = [held EXCEPT ![t] = [items |-> queue, mark |-> untouched, gone |-> FALSE]]
  /\ queue' = <<>> /\ untouched' = TRUE
  /\ at' = [at EXCEPT ![t] = "sorting"]
  /\ UNCHANGED <<outside, nervousVars, rhythmVars, known, taken, clashed, events, suggestions,
                 work, fresh, changes>>

\* by score, the highest first; the sort is stable.
ByScore(q) ==
  LET before == {p \in (DOMAIN q) \X (DOMAIN q) :
                   \/ q[p[1]].score > q[p[2]].score
                   \/ q[p[1]].score = q[p[2]].score /\ p[1] < p[2]}
      order == Ranked(DOMAIN q, before)
  IN  [i \in DOMAIN q |-> q[order[i]]]

\* ... and filled again.  If it is no longer the empty list that was left, the
\* sort raises: the tick fails, the handler's exception is logged.
SortEnds(t) ==
  /\ at[t] = "sorting"
  /\ LET raises == ~held[t].gone /\ ~untouched IN
     /\ at' = [at EXCEPT ![t] = IF ~raises THEN "trim" ELSE IF t = "worker" THEN "rest" ELSE "note"]
     /\ work' = [work EXCEPT ![t] = IF raises THEN <<>> ELSE @]
  /\ IF held[t].gone THEN UNCHANGED <<queue, untouched>>
     ELSE queue' = ByScore(held[t].items) /\ untouched' = held[t].mark
  /\ held' = [held EXCEPT ![t] = Nothing]
  /\ UNCHANGED <<outside, nervousVars, rhythmVars, known, taken, clashed, events, suggestions,
                 fresh, changes>>

\* The length is tested, and the list replaced by its first part.
Trim(t) ==
  /\ at[t] = "trim"
  /\ at' = [at EXCEPT ![t] = IF Len(queue) > Capacity THEN "cut" ELSE "note"]
  /\ UNCHANGED <<outside, nervousVars, rhythmVars, noteVars, events, suggestions, work, fresh, changes>>

FirstOf(q, n) == SubSeq(q, 1, IF Len(q) < n THEN Len(q) ELSE n)
LastOf(q, n) == SubSeq(q, IF Len(q) < n THEN 1 ELSE Len(q) - n + 1, Len(q))

\* Mutated form: the newest notes are kept, whatever their score.
CutKeepsLast(t) ==
  /\ at[t] = "cut"
  /\ queue' = LastOf(queue, Capacity)
  /\ at' = [at EXCEPT ![t] = "note"]
  /\ UNCHANGED <<outside, nervousVars, rhythmVars, untouched, known, held, taken, clashed, events,
                 suggestions, work, fresh, changes>>

Cut(t) ==
  /\ at[t] = "cut"
  /\ queue' = FirstOf(queue, Capacity)
  /\ untouched' = FALSE
  /\ held' = [u \in Thread |-> IF at[u] = "sorting" THEN [held[u] EXCEPT !.gone = TRUE] ELSE held[u]]
  /\ at' = [at EXCEPT ![t] = "note"]
  /\ UNCHANGED <<outside, nervousVars, rhythmVars, known, taken, clashed, events, suggestions,
                 work, fresh, changes>>

\* The dispatch thread takes an intel.signal event: _on_signal().
OnSignal ==
  /\ at["router"] = "note" /\ work["router"] = <<>> /\ events # <<>>
  /\ work' = [work EXCEPT !["router"] = <<Head(events)>>]
  /\ events' = Tail(events)
  /\ UNCHANGED <<outside, nervousVars, rhythmVars, noteVars, suggestions, at, fresh, changes>>

-----------------------------------------------------------------------------
(* Proactive suggestions, and the end of the tick *)

\* CuriosityEngine.questions(): failures that repeat (nothing ever stores a lesson),
\* goals without progress, the provider, actions never used; by rank, the first few.
Questions(o, limit) ==
  LET failures(x) == {i \in DOMAIN o.rows : o.rows[i].failed /\ o.rows[i].target = x}
      ask(kind, subjects) == SetToSeq({<<kind, x>> : x \in subjects})
  IN  FirstOf(
           ask("repeated_problem", {r.target : r \in {q \in ToSet(o.rows) : Cardinality(failures(q.target)) > 1}})
        \o ask("stalled_goal", {g \in goals : o.age[g] > 60 /\ g \in o.stuck})
        \o ask("provider", IF o.remote = "unreachable" THEN {"remote"} ELSE {})
        \o ask("untested_capability", o.actions \ {r.action : r \in ToSet(o.rows)}), limit)

\* tick(): failures that repeat, standing resource problems, old goals (the text has
\* their age in minutes), stores that are large, a provider that can be reached.
Proposals ==
  LET pressing == {k \in {"storage", "memory", "cpu", "thermal"} :
                     latest[k].level \in {"warning", "critical"}}
      old == {g \in goals : env.age[g] > 60}
      if(cond, text) == IF cond THEN <<<<text>>>> ELSE <<>>
      asked == Questions(env, 4)
      repeated == {i \in DOMAIN asked : asked[i][1] = "repeated_problem"}  \* they rank first
  IN  FirstOf(asked, Cardinality(repeated))
      \o SetToSeq({<<k, latest[k].text>> : k \in pressing})
      \o SetToSeq({<<"active for", g, env.age[g]>> : g \in old})
      \o if(env.experiences > 200, "experience store is large")
      \o if(env.keys > 500, "store is large")
      \o if(env.remote = "reachable", "provider is reachable")

\* _merge(): new against the last Window, then the last Keep are kept.
Merge(old, new) ==
  LET near == ToSet(LastOf(old, Window))
      first == {i \in DOMAIN new : new[i] \notin near /\ \A j \in DOMAIN new : j < i => new[j] # new[i]}
      order == Ranked(first, {p \in first \X first : p[1] < p[2]})
  IN  LastOf(old \o [n \in DOMAIN order |-> new[order[n]]], Keep)

\* When every surfaced signal is noted: proactive.tick(), then consolidation and
\* reflection as the mode allows, which change only the memory stores.
Suggest ==
  /\ at["worker"] = "note" /\ work["worker"] = <<>>
  /\ \E new \in {Proposals} : suggestions' = Merge(suggestions, new)
  /\ at' = [at EXCEPT !["worker"] = "rest"]
  /\ UNCHANGED <<outside, nervousVars, rhythmVars, noteVars, events, work, fresh, changes>>

\* The scheduler runs the job again, whether or not the last tick failed.
Tick ==
  /\ at["worker"] = "rest"
  /\ at' = [at EXCEPT !["worker"] = "sample"]
  /\ UNCHANGED <<outside, nervousVars, rhythmVars, noteVars, events, suggestions, work, fresh, changes>>

-----------------------------------------------------------------------------
(* The rest of the node *)

\* The world changes.  A failed one-shot job stays in the scheduler's registry.
Change ==
  /\ changes < MaxChanges /\ changes' = changes + 1
  /\ \E o \in Observation : o # env /\ o.failed >= env.failed /\ env' = o
  /\ UNCHANGED <<quiet, goals, nervousVars, rhythmVars, noteVars, events, suggestions, at, work,
                 fresh>>

\* Somebody uses the node: a goal begins or ends, a capability returns (touch()).
Use ==
  /\ changes < MaxChanges /\ changes' = changes + 1
  /\ \E g \in Goal : goals' = (goals \ {g}) \cup ({g} \ goals)
  /\ quiet' = "active"
  /\ UNCHANGED <<env, nervousVars, rhythmVars, noteVars, events, suggestions, at, work, fresh>>

\* A capability has succeeded or failed: either event is an activity.  (Nobody
\* subscribes to the note that goes with a failure.)
Touch ==
  /\ changes < MaxChanges /\ changes' = changes + 1
  /\ quiet # "active" /\ quiet' = "active"
  /\ UNCHANGED <<env, goals, nervousVars, rhythmVars, noteVars, events, suggestions, at, work, fresh>>

\* Time passes over an untouched node: idle_after, then sleep_after and the intervals.
\* Only a transition looks at a clock, so it may as well pass between the ticks.
Pass ==
  /\ at["worker"] = "rest"
  /\ \/ quiet = "active" /\ quiet' = "idle" /\ rested' = TRUE /\ UNCHANGED due
     \/ (quiet = "idle" \/ due = {}) /\ quiet # "active" /\ quiet' = "sleep"
        /\ due' = Opportunities /\ UNCHANGED rested
  /\ UNCHANGED <<env, goals, nervousVars, mode, noteVars, events, suggestions, at, work, fresh, changes>>

\* Each part as it is constructed.
NervousInit == /\ quiet = "active" /\ sampled = [pct |-> None, net |-> "unknown"]
               /\ seen = [k \in Kind |-> Quiet] /\ latest = [k \in Kind |-> Quiet]
RhythmInit == mode = "idle" /\ due = {} /\ rested = TRUE
AttentionInit == /\ queue = <<>> /\ untouched = FALSE /\ known = {} /\ taken = <<>>
                 /\ held = [t \in Thread |-> Nothing] /\ clashed = FALSE
ProactiveInit == suggestions = <<>>

\* intel.start(): the job is scheduled at once, before the first awareness pass.
Init ==
  /\ NervousInit /\ RhythmInit /\ AttentionInit /\ ProactiveInit
  /\ env \in Starts /\ goals = {} /\ events = <<>> /\ changes = 0
  /\ at = [boot |-> "sample", worker |-> "rest", router |-> "note"]
  /\ work = [t \in Thread |-> <<>>] /\ fresh = [t \in Thread |-> <<>>]

Noting(t) == Note(t) \/ SortBegins(t) \/ SortEnds(t) \/ Trim(t) \/ Cut(t)
Next == \/ Tick \/ Transition \/ Suggest \/ OnSignal
        \/ \E t \in Thread : Sample(t) \/ Surface(t) \/ Noting(t)
        \/ Change \/ Use \/ Touch \/ Pass

\* Each thread keeps running; nothing outside has to happen.
Own(t) == Sample(t) \/ Surface(t) \/ Noting(t)
Fairness == /\ WF_vars(Own("boot"))
            /\ WF_vars(Tick \/ Transition \/ Suggest \/ Own("worker"))
            /\ WF_vars(OnSignal \/ Own("router"))

Spec == Init /\ [][Next]_vars /\ Fairness

-----------------------------------------------------------------------------
(* What the tick promises. *)

\* A note that was taken in leaves the queue only for better ones, as long as the
\* tick and the dispatch thread never met inside note_signal() (attention.py:62).
QueueKeepsTheBest ==
  ~clashed /\ Inside = {} =>
    \A i \in DOMAIN taken :
      \/ taken[i] \in ToSet(queue)
      \/ Len(queue) = Capacity /\ \A j \in DOMAIN queue : queue[j].score >= taken[i].score

\* The tick counts itself as an active job (orchestration.py:88), so the modes
\* that open maintenance, reflection and sleep are never entered, however quiet
\* the node is; "idle" is entered only on the way out of resource pressure.
TickKeepsNodeBusy ==
  [][mode' # mode => /\ mode' \notin {"sleep", "maintenance", "reflection"}
                     /\ (mode' = "idle" => mode = "constrained")]_vars

\* Two equal suggestions are more than the window apart (proactive.py:109).
RepeatsAreFarApart ==
  \A i, j \in DOMAIN suggestions : i < j /\ suggestions[i] = suggestions[j] => j - i > Window

\* So the two bounded lists that outlive a tick hold what they should.
ListsHold == QueueKeepsTheBest /\ RepeatsAreFarApart

\* Resource pressure that stays is noticed for good, whatever other signals,
\* failing ticks and races with the boot's first pass do (rhythm.py:59).
Pressing(o) == o.pct < 10 \/ o.freeMb < 256 \/ (10 * o.availMb < o.totalMb /\ o.keys <= 2000)
PressureIsNoticed == <>[]Pressing(env) => <>[](mode = "constrained")
=============================================================================
