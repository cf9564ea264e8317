--------------------------- MODULE PermissionProofs ---------------------------
(***************************************************************************)
(* Guarantees of the dispatcher, for any number of calls, actions, scopes  *)
(* and rules: a deny is final; capabilities are not used after they are    *)
(* closed unless the stop left a job behind; events and audit trail follow *)
(* the lifecycle of a call.  And of the file the rules are kept in, for    *)
(* any number of rules, settings, `buster config` commands, restarts,      *)
(* deaths and failing saves.                                               *)
(***************************************************************************)
EXTENDS CapabilityDispatch, PolicyStore, FiniteSetTheorems, TLAPS

CallOK == call \in [Calls -> [at : Step, by : {Serve, Worker}, act : Action,
                              scope : Scopes, result : Result]]

\* Rules are only added, so a deny that applied goes on applying: a barred
\* call can still be refused, and nothing else.
BarredStays ==
  /\ barred \subseteq Calls
  /\ \A i \in barred :
       /\ Denied(rules, call[i].act, call[i].scope)
       /\ ~Elevated(call[i].act)
       /\ call[i].at \notin {"unused", "queued", "run"}
       /\ call[i].result \notin {"ok", "error"}

\* Only sensitive actions are put before the approver.
SensitiveOnly == \A i \in Calls : call[i].at = "elevate" => call[i].act \in Sensitive

DenyInv == CallOK /\ BarredStays /\ SensitiveOnly

LEMMA DenyInvInit == Init => DenyInv
<1>1. (CHOOSE a \in Action : TRUE) \in Action
  BY DispatchAssumption
<1>2. Unused \in [at : Step, by : {Serve, Worker}, act : Action,
                  scope : Scopes, result : Result]
  BY <1>1 DEF Unused, Step, Scopes, Result
<1>3. Unused.at = "unused"
  BY DEF Unused
<1> QED BY <1>2, <1>3 DEF Init, DenyInv, CallOK, BarredStays, SensitiveOnly

\* A deny that applies is not undone by further rules.
LEMMA DenyIsMonotone ==
  ASSUME NEW R, NEW S, R \subseteq S, NEW a, NEW s, Denied(R, a, s)
  PROVE  Denied(S, a, s) /\ ~Allowed(S, a, s)
  BY DEF Denied, Allowed

LEMMA BeginKeepsDeny ==
  ASSUME DenyInv, NEW i \in Calls, NEW t \in {Serve, Worker}, NEW a \in Action,
         NEW s \in Scopes, call[i].at \in {"unused", "queued"}, Begin(i, t, a, s)
  PROVE  DenyInv'
<1>1. \A j \in Calls \ {i} : call'[j] = call[j]
  BY DEF Begin, DenyInv, CallOK
<1>2. /\ call'[i].act = a /\ call'[i].scope = s
      /\ call'[i].at \in {"gate", "done"} /\ call'[i].result \in {"none", "unknown"}
  BY DEF Begin, DenyInv, CallOK
<1>3. CallOK'
  BY DEF Begin, DenyInv, CallOK, Step, Busy, Result
<1>4. i \notin barred
  BY DEF DenyInv, BarredStays
<1>5. barred' \subseteq barred \cup {i} /\ (i \in barred' => Denied(rules, a, s) /\ ~Elevated(a))
  BY <1>4 DEF Begin
<1>6. rules' = rules
  BY DEF Begin
<1>7. BarredStays'
  <2> SUFFICES ASSUME NEW j \in barred'
               PROVE  /\ j \in Calls
                      /\ Denied(rules, call'[j].act, call'[j].scope)
                      /\ ~Elevated(call'[j].act)
                      /\ call'[j].at \notin {"unused", "queued", "run"}
                      /\ call'[j].result \notin {"ok", "error"}
    BY <1>6 DEF BarredStays
  <2>1. CASE j = i
    BY <1>2, <1>5, <2>1
  <2>2. CASE j # i
    BY <1>1, <1>5, <2>2 DEF DenyInv, BarredStays
  <2> QED BY <2>1, <2>2
<1>8. SensitiveOnly'
  BY <1>1, <1>2 DEF DenyInv, SensitiveOnly
<1> QED BY <1>3, <1>7, <1>8 DEF DenyInv

\* A step of one call at a fixed policy keeps the invariant when the call does
\* not start over, and a barred one neither runs nor succeeds.
LEMMA MoveKeepsDeny ==
  ASSUME DenyInv, NEW i \in Calls, NEW c,
         c \in [at : Step, by : {Serve, Worker}, act : Action, scope : Scopes, result : Result],
         call' = [call EXCEPT ![i] = c],
         c.act = call[i].act, c.scope = call[i].scope,
         c.at = "elevate" => c.act \in Sensitive,
         i \in barred => c.at \notin {"unused", "queued", "run"} /\ c.result \notin {"ok", "error"},
         rules' = rules, barred' = barred
  PROVE  DenyInv'
<1>1. call \in [Calls -> [at : Step, by : {Serve, Worker}, act : Action,
                         scope : Scopes, result : Result]]
  BY DEF DenyInv, CallOK
<1>2. call'[i] = c /\ \A j \in Calls \ {i} : call'[j] = call[j]
  BY <1>1
<1>3. CallOK'
  BY <1>1 DEF CallOK
<1>4. BarredStays'
  <2> SUFFICES ASSUME NEW j \in barred
               PROVE  /\ j \in Calls
                      /\ Denied(rules, call'[j].act, call'[j].scope)
                      /\ ~Elevated(call'[j].act)
                      /\ call'[j].at \notin {"unused", "queued", "run"}
                      /\ call'[j].result \notin {"ok", "error"}
    BY DEF BarredStays
  <2>1. CASE j = i
    BY <1>2, <2>1 DEF DenyInv, BarredStays
  <2>2. CASE j # i
    BY <1>2, <2>2 DEF DenyInv, BarredStays
  <2> QED BY <2>1, <2>2
<1>5. SensitiveOnly'
  <2> SUFFICES ASSUME NEW j \in Calls, call'[j].at = "elevate" PROVE call'[j].act \in Sensitive
    BY DEF SensitiveOnly
  <2> QED BY <1>2 DEF DenyInv, SensitiveOnly
<1> QED BY <1>3, <1>4, <1>5 DEF DenyInv

LEMMA DenyInvStep == DenyInv /\ [Next]_vars => DenyInv'
<1> SUFFICES ASSUME DenyInv, [Next]_vars PROVE DenyInv'
  OBVIOUS
<1>0. \A i \in Calls : call[i] \in [at : Step, by : {Serve, Worker}, act : Action,
                                    scope : Scopes, result : Result]
  BY DEF DenyInv, CallOK
<1>1. ASSUME NEW i \in Calls, NEW a \in Action, NEW s \in Scopes, Call(i, a, s)
      PROVE  DenyInv'
  BY <1>1, BeginKeepsDeny DEF Call, NextCall
<1>2. ASSUME NEW i \in Calls, NEW a \in Action, NEW s \in Scopes, RunAsync(i, a, s)
      PROVE  DenyInv'
  BY <1>2 DEF RunAsync, NextCall, DenyInv, CallOK, BarredStays, SensitiveOnly, Step, Result
<1>3. ASSUME NEW i \in Calls, JobBegins(i) PROVE DenyInv'
  <2>1. call[i].act \in Action /\ call[i].scope \in Scopes
    BY DEF DenyInv, CallOK
  <2> QED BY <1>3, <2>1, BeginKeepsDeny DEF JobBegins
<1>4. ASSUME NEW i \in Calls, Gate(i) PROVE DenyInv'
  <2> DEFINE c == call[i]
             d == IF Allowed(rules, c.act, c.scope) THEN [c EXCEPT !.at = "run"]
                  ELSE IF c.act \in Sensitive THEN [c EXCEPT !.at = "elevate"]
                  ELSE [c EXCEPT !.at = "emit", !.result = "refused"]
  <2>1. i \in barred => ~Allowed(rules, c.act, c.scope)
    BY DenyIsMonotone DEF DenyInv, BarredStays
  <2>2. call' = [call EXCEPT ![i] = d] /\ rules' = rules /\ barred' = barred
    BY <1>4 DEF Gate
  <2>3. i \in barred => c.result \notin {"ok", "error"}
    BY DEF DenyInv, BarredStays
  <2>4. d \in [at : Step, by : {Serve, Worker}, act : Action, scope : Scopes, result : Result]
    BY <1>0 DEF Step, Busy, Result
  <2>5. d.act = c.act /\ d.scope = c.scope
    BY <1>0
  <2>6. d.at = "elevate" => d.act \in Sensitive
    BY <1>0
  <2>7. i \in barred => d.at \notin {"unused", "queued", "run"} /\ d.result \notin {"ok", "error"}
    BY <1>0, <2>1, <2>3
  <2> HIDE DEF d
  <2> QED BY <2>2, <2>4, <2>5, <2>6, <2>7, MoveKeepsDeny
<1>5. ASSUME NEW i \in Calls, Elevate(i) PROVE DenyInv'
  <2> DEFINE c == call[i]
             d == IF Approved(c.act) THEN [c EXCEPT !.at = "run"]
                  ELSE [c EXCEPT !.at = "emit", !.result = "refused"]
  <2>1. i \in barred => ~Approved(c.act)
    BY <1>5 DEF Elevate, DenyInv, BarredStays, SensitiveOnly, Elevated
  <2>2. call' = [call EXCEPT ![i] = d] /\ rules' = rules /\ barred' = barred
    BY <1>0, <1>5 DEF Elevate, DenyInv, CallOK
  <2>3. i \in barred => c.result \notin {"ok", "error"}
    BY DEF DenyInv, BarredStays
  <2>4. d \in [at : Step, by : {Serve, Worker}, act : Action, scope : Scopes, result : Result]
    BY <1>0 DEF Step, Busy, Result
  <2>5. d.act = c.act /\ d.scope = c.scope /\ d.at # "elevate"
    BY <1>0
  <2>6. i \in barred => d.at \notin {"unused", "queued", "run"} /\ d.result \notin {"ok", "error"}
    BY <1>0, <2>1, <2>3
  <2> HIDE DEF d
  <2> QED BY <2>2, <2>4, <2>5, <2>6, MoveKeepsDeny
<1>6. ASSUME NEW i \in Calls, Return(i) \/ Unwind(i) \/ Emit(i) \/ Record(i) PROVE DenyInv'
  BY <1>6 DEF Return, Unwind, Emit, Record, DenyInv, CallOK, BarredStays, SensitiveOnly, Step, Busy, Result
<1>7. ASSUME NEW r \in PolicyRules, SetPolicy(r) PROVE DenyInv'
  BY <1>7, DenyIsMonotone DEF SetPolicy, DenyInv, CallOK, BarredStays, SensitiveOnly
<1>8. CASE Stop \/ Join \/ Exit \/ (\E a \in Action : Close(a)) \/ UNCHANGED vars
  BY <1>8 DEF Stop, Join, Exit, Close, vars, DenyInv, CallOK, BarredStays, SensitiveOnly
<1> QED
  BY <1>1, <1>2, <1>3, <1>4, <1>5, <1>6, <1>7, <1>8 DEF Next, Dispatch

\* A call that begins after a deny of its action never reaches a capability,
\* whatever grants come before or after, unless the elevation list has it.
THEOREM DenyIsFinal == Spec => []DenyHonoured
<1>1. DenyInv => DenyHonoured
  BY DEF DenyInv, BarredStays, DenyHonoured
<1> QED BY <1>1, DenyInvInit, DenyInvStep, PTL DEF Spec

-----------------------------------------------------------------------------
(* Capabilities and the stop. *)

IsBusy(i) == call[i].at \in Busy

\* A thread has one call at a time, and every step of a call has its thread.
OneEach == \A i, j \in Calls : IsBusy(i) /\ IsBusy(j) /\ call[i].by = call[j].by => i = j
QueuedForWorker == \A i \in Calls : call[i].at = "queued" => call[i].by = Worker

\* The serve loop stops the kernel between its own calls.
ServeStops == life # "up" => Free(Serve)

\* Before the first close everything is registered, and once closing starts
\* nothing runs, unless the join gave up.
AllRegistered == life \in {"up", "joining"} => registered = Provided
NothingRuns == life \in {"closing", "gone"} => gaveUp \/ \A i \in Calls : ~IsBusy(i)
LocatedIsProvided == \A i \in Calls : IsBusy(i) => call[i].act \in Provided

CloseInv ==
  /\ CallOK /\ registered \subseteq Provided
  /\ life \in {"up", "joining", "closing", "gone"}
  /\ OneEach /\ QueuedForWorker /\ ServeStops
  /\ AllRegistered /\ NothingRuns /\ LocatedIsProvided

LEMMA CloseInvInit == Init => CloseInv
<1>1. (CHOOSE a \in Action : TRUE) \in Action
  BY DispatchAssumption
<1>2. Unused \in [at : Step, by : {Serve, Worker}, act : Action,
                  scope : Scopes, result : Result]
  BY <1>1 DEF Unused, Step, Scopes, Result
<1>3. Unused.at = "unused"
  BY DEF Unused
<1> QED BY <1>2, <1>3 DEF Init, CloseInv, CallOK, OneEach, QueuedForWorker, ServeStops,
      AllRegistered, NothingRuns, LocatedIsProvided, IsBusy, Busy

\* Both ways into call(): by a free thread of a running kernel.
LEMMA BeginKeepsClose ==
  ASSUME CloseInv, NEW i \in Calls, NEW t \in {Serve, Worker}, NEW a \in Action,
         NEW s \in Scopes, life = "up", Free(t), Begin(i, t, a, s)
  PROVE  CloseInv'
<1>1. \A j \in Calls \ {i} : call'[j] = call[j]
  BY DEF Begin, CloseInv, CallOK
<1>2. /\ call'[i].by = t /\ call'[i].act = a /\ call'[i].at \in {"gate", "done"}
      /\ call'[i].at = "gate" => a \in registered
  BY DEF Begin, CloseInv, CallOK
<1>3. CallOK' /\ registered' = registered /\ life' = life /\ gaveUp' = gaveUp
  BY DEF Begin, CloseInv, CallOK, Step, Busy, Result
<1>4. OneEach'
  BY <1>1, <1>2 DEF CloseInv, OneEach, IsBusy, Free, Busy
<1>5. QueuedForWorker' /\ LocatedIsProvided'
  BY <1>1, <1>2 DEF CloseInv, QueuedForWorker, LocatedIsProvided, IsBusy, Busy
<1> QED
  BY <1>3, <1>4, <1>5 DEF CloseInv, ServeStops, AllRegistered, NothingRuns

\* A busy call takes a step of its own, to another busy step or to its end.
LEMMA MoveKeepsClose ==
  ASSUME CloseInv, NEW i \in Calls, IsBusy(i), CallOK',
         \A j \in Calls \ {i} : call'[j] = call[j],
         call'[i].by = call[i].by, call'[i].act = call[i].act, call'[i].at # "queued",
         UNCHANGED <<registered, life, gaveUp>>
  PROVE  CloseInv'
<1>1. \A j \in Calls : call'[j].by = call[j].by /\ call'[j].act = call[j].act
  OBVIOUS
<1>2. \A j \in Calls : IsBusy(j)' => IsBusy(j)
  BY DEF IsBusy
<1>3. OneEach' /\ QueuedForWorker' /\ LocatedIsProvided'
  BY <1>1, <1>2 DEF CloseInv, OneEach, QueuedForWorker, LocatedIsProvided
<1>4. ServeStops'
  BY <1>1, <1>2 DEF CloseInv, ServeStops, Free, IsBusy
<1> QED BY <1>2, <1>3, <1>4 DEF CloseInv, AllRegistered, NothingRuns

LEMMA CloseInvStep == CloseInv /\ [Next]_vars => CloseInv'
<1> SUFFICES ASSUME CloseInv, [Next]_vars PROVE CloseInv'
  OBVIOUS
<1> USE DEF CloseInv, CallOK, OneEach, QueuedForWorker, ServeStops, AllRegistered,
      NothingRuns, LocatedIsProvided, IsBusy, Busy, Free
<1>1. ASSUME NEW i \in Calls, NEW a \in Action, NEW s \in Scopes, Call(i, a, s)
      PROVE  CloseInv'
  BY <1>1, BeginKeepsClose DEF Call
<1>2. ASSUME NEW i \in Calls, NEW a \in Action, NEW s \in Scopes, RunAsync(i, a, s)
      PROVE  CloseInv'
  BY <1>2 DEF RunAsync, NextCall, Step, Result
<1>3. ASSUME NEW i \in Calls, JobBegins(i) PROVE CloseInv'
  BY <1>3, BeginKeepsClose DEF JobBegins
<1>4. ASSUME NEW i \in Calls, Gate(i) PROVE CloseInv'
  <2>1. \A j \in Calls \ {i} : call'[j] = call[j]
    BY <1>4 DEF Gate
  <2>2. /\ call'[i].by = call[i].by /\ call'[i].act = call[i].act /\ call'[i].at # "queued"
    BY <1>4 DEF Gate
  <2>3. CallOK'
    <3>1. /\ call[i] \in [at : Step, by : {Serve, Worker}, act : Action,
                           scope : Scopes, result : Result]
          /\ {"run", "elevate", "emit"} \subseteq Step /\ "refused" \in Result
      BY DEF Step, Result
    <3> DEFINE c == call[i]
               new == IF Allowed(rules, c.act, c.scope) THEN [c EXCEPT !.at = "run"]
                      ELSE IF c.act \in Sensitive THEN [c EXCEPT !.at = "elevate"]
                      ELSE [c EXCEPT !.at = "emit", !.result = "refused"]
               T == [at : Step, by : {Serve, Worker}, act : Action,
                     scope : Scopes, result : Result]
    <3>2. /\ [c EXCEPT !.at = "run"] \in T /\ [c EXCEPT !.at = "elevate"] \in T
          /\ [c EXCEPT !.at = "emit", !.result = "refused"] \in T
      BY <3>1
    <3>3. new \in T
      BY <3>2
    <3>4. call' = [call EXCEPT ![i] = new]
      BY <1>4 DEF Gate
    <3>5. call \in [Calls -> T]
      OBVIOUS
    <3> HIDE DEF new, T
    <3>6. call' \in [Calls -> T]
      BY <3>3, <3>4, <3>5
    <3> QED BY <3>6 DEF T
  <2> QED BY <1>4, <2>1, <2>2, <2>3, MoveKeepsClose DEF Gate
<1>5. ASSUME NEW i \in Calls, Elevate(i) PROVE CloseInv'
  <2>1. \A j \in Calls \ {i} : call'[j] = call[j]
    BY <1>5 DEF Elevate
  <2>2. /\ call'[i].by = call[i].by /\ call'[i].act = call[i].act /\ call'[i].at # "queued"
        /\ CallOK'
    BY <1>5 DEF Elevate, Step, Result
  <2> QED BY <1>5, <2>1, <2>2, MoveKeepsClose DEF Elevate
<1>6. ASSUME NEW i \in Calls, Return(i) PROVE CloseInv'
  <2>1. \A j \in Calls \ {i} : call'[j] = call[j]
    BY <1>6 DEF Return
  <2>2. /\ call'[i].by = call[i].by /\ call'[i].act = call[i].act /\ call'[i].at # "queued"
    BY <1>6 DEF Return
  <2>3. CallOK'
    <3>1. PICK r \in {"ok", "error"} :
            call' = [call EXCEPT ![i].at = "emit", ![i].result = r]
      BY <1>6 DEF Return
    <3>2. "emit" \in Step /\ r \in Result
      BY DEF Step, Result
    <3>3. [call[i] EXCEPT !.at = "emit", !.result = r]
            \in [at : Step, by : {Serve, Worker}, act : Action, scope : Scopes, result : Result]
      BY <3>2
    <3>4. call' = [call EXCEPT ![i] = [call[i] EXCEPT !.at = "emit", !.result = r]]
      BY <3>1
    <3> QED BY <3>3, <3>4
  <2> QED BY <1>6, <2>1, <2>2, <2>3, MoveKeepsClose DEF Return
<1>7. ASSUME NEW i \in Calls, Unwind(i) PROVE CloseInv'
  BY <1>7 DEF Unwind, Step, Running
<1>8. ASSUME NEW i \in Calls, Emit(i) PROVE CloseInv'
  BY <1>8 DEF Emit, Step
<1>9. ASSUME NEW i \in Calls, Record(i) PROVE CloseInv'
  BY <1>9 DEF Record, Step
<1>10. CASE Join
  BY <1>10 DEF Join
<1>11. CASE Stop \/ Exit \/ (\E r \in PolicyRules : SetPolicy(r))
  BY <1>11 DEF Stop, Exit, SetPolicy
<1>12. CASE (\E a \in Action : Close(a)) \/ UNCHANGED vars
  BY <1>12 DEF Close, vars
<1> QED
  BY <1>1, <1>2, <1>3, <1>4, <1>5, <1>6, <1>7, <1>8, <1>9, <1>10, <1>11, <1>12
     DEF Next, Dispatch

\* No capability runs once it is closed, unless the join of the stop gave up on
\* a job.
THEOREM ClosedIsUnused == Spec => []NoUseAfterClose
<1>1. CloseInv => NoUseAfterClose
  BY DEF CloseInv, NoUseAfterClose, AllRegistered, NothingRuns, LocatedIsProvided, IsBusy, Busy
<1> QED BY <1>1, CloseInvInit, CloseInvStep, PTL DEF Spec

-----------------------------------------------------------------------------
(* The lifecycle of a call. *)

Entry == {"approved", "denied", "succeeded", "failed"}

\* Only a call that found no capability has the result "unknown", and only one
\* that is to be recorded has another; every call has its own event log.
LifeTypes ==
  /\ CallOK /\ faults \in Nat
  /\ events \in [Calls -> Seq({"calling", "succeeded", "failed"})]
  /\ trail \in [Calls -> Seq(Entry)]
UnknownIsDone == \A i \in Calls : call[i].result = "unknown" => call[i].at = "done"

LifeInv == LifeTypes /\ UnknownIsDone /\ LifecycleInOrder

LEMMA LifeInvInit == Init => LifeInv
<1>1. (CHOOSE a \in Action : TRUE) \in Action
  BY DispatchAssumption
<1>2. Unused \in [at : Step, by : {Serve, Worker}, act : Action, scope : Scopes, result : Result]
      /\ Unused.at = "unused" /\ Unused.result = "none"
  BY <1>1 DEF Unused, Step, Scopes, Result
<1> QED BY <1>2 DEF Init, LifeInv, LifeTypes, CallOK, UnknownIsDone, LifecycleInOrder

\* The second element of a sequence is appended to the first.
LEMMA AppendToOne ==
  ASSUME NEW S, NEW a \in S, NEW b \in S
  PROVE  Append(<<a>>, b) = <<a, b>>
<1>1. <<a>> \in Seq(S)
  OBVIOUS
<1>2. PICK p \in Seq(S) : p = <<a>>
  BY <1>1
<1>3. PICK q : q = Append(p, b)
  OBVIOUS
<1>4. q \in Seq(S) /\ Len(q) = 2 /\ q[1] = a /\ q[2] = b
  BY <1>2, <1>3
<1>5. q = <<q[1], q[2]>>
  BY <1>4
<1> QED BY <1>2, <1>3, <1>4, <1>5

CallRecord == [at : Step, by : {Serve, Worker}, act : Action, scope : Scopes, result : Result]

\* One call is rewritten, the others stay.
LEMMA CallIsReplaced ==
  ASSUME CallOK, NEW i \in Calls, NEW c \in CallRecord, call' = [call EXCEPT ![i] = c]
  PROVE  CallOK' /\ call'[i] = c /\ \A j \in Calls \ {i} : call'[j] = call[j]
<1>1. call \in [Calls -> CallRecord]
  BY DEF CallOK, CallRecord
<1>2. call' \in [Calls -> CallRecord]
  BY <1>1
<1> QED BY <1>1, <1>2 DEF CallOK, CallRecord

\* ... in its step and perhaps its result.
LEMMA CallGoesTo ==
  ASSUME CallOK, NEW i \in Calls, NEW a \in Step, NEW r \in Result,
         \/ call' = [call EXCEPT ![i] = [call[i] EXCEPT !.at = a, !.result = r]]
         \/ call' = [call EXCEPT ![i] = [call[i] EXCEPT !.at = a]] /\ r = call[i].result
  PROVE  /\ CallOK' /\ call'[i].at = a /\ call'[i].result = r
         /\ \A j \in Calls \ {i} : call'[j] = call[j]
<1>1. call[i] \in CallRecord
  BY DEF CallOK, CallRecord
<1>2. CASE call' = [call EXCEPT ![i] = [call[i] EXCEPT !.at = a, !.result = r]]
  <2>1. PICK c : c = [call[i] EXCEPT !.at = a, !.result = r]
    OBVIOUS
  <2>2. c \in CallRecord /\ c.at = a /\ c.result = r
    BY <1>1, <2>1 DEF CallRecord
  <2> QED BY <1>2, <2>1, <2>2, CallIsReplaced
<1>3. CASE call' = [call EXCEPT ![i] = [call[i] EXCEPT !.at = a]] /\ r = call[i].result
  <2>1. PICK c : c = [call[i] EXCEPT !.at = a]
    OBVIOUS
  <2>2. c \in CallRecord /\ c.at = a /\ c.result = r
    BY <1>1, <1>3, <2>1 DEF CallRecord
  <2> QED BY <1>3, <2>1, <2>2, CallIsReplaced
<1> QED BY <1>2, <1>3

\* A call that has had no step yet begins.
LEMMA BeginKeepsLife ==
  ASSUME LifeInv, NEW i \in Calls, NEW t \in {Serve, Worker}, NEW a \in Action,
         NEW s \in Scopes, call[i].at \in {"unused", "queued"}, Begin(i, t, a, s)
  PROVE  LifeInv'
<1>1. CallOK'
  <2>1. CallOK /\ {"gate", "done"} \subseteq Step /\ {"none", "unknown"} \subseteq Result
    BY DEF LifeInv, LifeTypes, Step, Busy, Result
  <2>2. PICK k \in {"gate", "done"}, r \in {"none", "unknown"} :
          call' = [call EXCEPT ![i] = [at |-> k, by |-> t, act |-> a, scope |-> s, result |-> r]]
    BY DEF Begin
  <2>3. PICK c : c = [at |-> k, by |-> t, act |-> a, scope |-> s, result |-> r]
    OBVIOUS
  <2>4. c \in CallRecord
    BY <2>1, <2>3 DEF CallRecord
  <2> QED BY <2>1, <2>2, <2>3, <2>4, CallIsReplaced
<1>2. events[i] = <<>> /\ trail[i] = <<>>
  BY DEF LifeInv, LifecycleInOrder
<1>3. \A j \in Calls \ {i} : call'[j] = call[j] /\ events'[j] = events[j]
  BY DEF Begin, LifeInv, LifeTypes, CallOK
<1>4. trail' = trail /\ faults' = faults
  BY DEF Begin
<1>5. CASE a \in registered
  <2>1. /\ call'[i].at = "gate" /\ call'[i].result = "none"
        /\ events'[i] = Append(events[i], "calling") /\ events' = [events EXCEPT ![i] = Append(@, "calling")]
    BY <1>5 DEF Begin, LifeInv, LifeTypes, CallOK
  <2>2. LifeTypes'
    BY <1>1, <1>4, <2>1 DEF LifeInv, LifeTypes
  <2>3. UnknownIsDone'
    BY <1>3, <2>1 DEF LifeInv, UnknownIsDone
  <2>4. events'[i] = <<"calling">> /\ Outcomes(i)' = {}
    BY <1>2, <1>4, <2>1 DEF Outcomes
  <2>5. LifecycleInOrder'
    BY <1>3, <1>4, <2>1, <2>4 DEF LifeInv, LifecycleInOrder, Outcomes
  <2> QED BY <2>2, <2>3, <2>5 DEF LifeInv
<1>6. CASE a \notin registered
  <2>1. call'[i].at = "done" /\ call'[i].result = "unknown" /\ events' = events
    BY <1>6 DEF Begin, LifeInv, LifeTypes, CallOK
  <2> QED BY <1>1, <1>2, <1>3, <1>4, <2>1 DEF LifeInv, LifeTypes, UnknownIsDone, LifecycleInOrder, Outcomes
<1> QED BY <1>5, <1>6

\* One call moves on; its two logs are what they should be afterwards.
LEMMA MoveKeepsLife ==
  ASSUME LifeInv, NEW i \in Calls, LifeTypes', faults' >= faults,
         \A j \in Calls \ {i} : call'[j] = call[j] /\ events'[j] = events[j] /\ trail'[j] = trail[j],
         call'[i].result # "unknown", call'[i].at \notin {"unused", "queued"},
         call'[i].at \notin {"record", "done"} => events'[i] = <<"calling">> /\ Outcomes(i)' = {},
         call'[i].at \in {"record", "done"}
           => events'[i] = <<"calling", OutcomeOf(call'[i].result)>>,
         call'[i].at = "record" => Outcomes(i)' = {},
         call'[i].at = "done" =>
           \/ Outcomes(i)' = {Len(trail'[i])} /\ trail'[i][Len(trail'[i])] = OutcomeOf(call'[i].result)
           \/ faults' > 0 /\ Outcomes(i)' = {}
  PROVE  LifeInv'
<1>1. UnknownIsDone'
  BY DEF LifeInv, UnknownIsDone
<1>2. faults \in Nat /\ faults' \in Nat
  BY DEF LifeInv, LifeTypes
<1>3. LifecycleInOrder'
  BY <1>2 DEF LifeInv, LifecycleInOrder, Outcomes
<1> QED BY <1>1, <1>3 DEF LifeInv

\* A step before the outcome leaves both logs alone.
LEMMA MoveKeepsQuiet ==
  ASSUME LifeInv, NEW i \in Calls, CallOK', UNCHANGED <<events, trail, faults>>,
         \A j \in Calls \ {i} : call'[j] = call[j],
         events[i] = <<"calling">>, Outcomes(i) = {},
         call'[i].at \in {"elevate", "run", "unwound", "emit"}, call'[i].result # "unknown"
  PROVE  LifeInv'
<1>1. LifeTypes' /\ faults' >= faults /\ Outcomes(i)' = {}
  BY DEF LifeInv, LifeTypes, Outcomes
<1>2. \A j \in Calls \ {i} : call'[j] = call[j] /\ events'[j] = events[j] /\ trail'[j] = trail[j]
  OBVIOUS
<1> QED BY <1>1, <1>2, MoveKeepsLife

\* What record() leaves on the trail of a call that has no outcome there yet.
LEMMA AuditedOnce ==
  ASSUME LifeTypes, NEW i \in Calls, Outcomes(i) = {}, NEW e \in Entry, Audited(i, e)
  PROVE  /\ trail' \in [Calls -> Seq(Entry)] /\ faults' \in Nat /\ faults' >= faults
         /\ \A j \in Calls \ {i} : trail'[j] = trail[j]
         /\ \/ /\ trail'[i] = Append(trail[i], e)
               /\ Outcomes(i)' = IF e \in {"succeeded", "failed"} THEN {Len(trail'[i])} ELSE {}
               /\ trail'[i][Len(trail'[i])] = e
            \/ trail'[i] = trail[i] /\ faults' > 0 /\ Outcomes(i)' = {}
<1>1. CASE trail' = [trail EXCEPT ![i] = Append(@, e)] /\ UNCHANGED faults
  <2>1. trail[i] \in Seq(Entry) /\ trail'[i] = Append(trail[i], e)
    BY <1>1 DEF LifeTypes
  <2>2. /\ Len(trail'[i]) = Len(trail[i]) + 1 /\ DOMAIN trail'[i] = 1..(Len(trail[i]) + 1)
        /\ trail'[i][Len(trail[i]) + 1] = e
        /\ \A k \in DOMAIN trail[i] : trail'[i][k] = trail[i][k]
        /\ DOMAIN trail[i] = 1..Len(trail[i])
    BY <2>1
  <2>3. Outcomes(i)' = IF e \in {"succeeded", "failed"} THEN {Len(trail[i]) + 1} ELSE {}
    <3>1. Len(trail[i]) \in Nat
      BY <2>1
    <3>2. \A k \in DOMAIN trail[i] : trail'[i][k] \notin {"succeeded", "failed"}
      BY <2>2 DEF Outcomes
    <3>3. DOMAIN trail'[i] = DOMAIN trail[i] \cup {Len(trail[i]) + 1}
      BY <2>2, <3>1
    <3> QED BY <2>2, <3>2, <3>3 DEF Outcomes
  <2>4. trail' \in [Calls -> Seq(Entry)]
    <3>1. trail \in [Calls -> Seq(Entry)]
      BY DEF LifeTypes
    <3>2. PICK q : q = Append(trail[i], e)
      OBVIOUS
    <3>3. q \in Seq(Entry) /\ trail' = [trail EXCEPT ![i] = q]
      BY <1>1, <2>1, <3>2
    <3> QED BY <3>1, <3>3
  <2>5. faults' \in Nat /\ faults' >= faults
    BY <1>1 DEF LifeTypes
  <2>6. \A j \in Calls \ {i} : trail'[j] = trail[j]
    BY <1>1
  <2>7. Len(trail'[i]) = Len(trail[i]) + 1 /\ trail'[i][Len(trail'[i])] = e
    BY <2>2
  <2> QED BY <2>1, <2>3, <2>4, <2>5, <2>6, <2>7
<1>2. CASE faults < MaxFaults /\ faults' = faults + 1 /\ UNCHANGED trail
  BY <1>2 DEF LifeTypes, Outcomes
<1> QED BY <1>1, <1>2 DEF Audited

LEMMA LifeInvStep == LifeInv /\ [Next]_vars => LifeInv'
<1> SUFFICES ASSUME LifeInv, [Next]_vars PROVE LifeInv'
  OBVIOUS
<1>0. \A i \in Calls : call[i] \in [at : Step, by : {Serve, Worker}, act : Action,
                                    scope : Scopes, result : Result]
  BY DEF LifeInv, LifeTypes, CallOK
<1>1. ASSUME NEW i \in Calls, NEW a \in Action, NEW s \in Scopes, Call(i, a, s)
      PROVE  LifeInv'
  BY <1>1, BeginKeepsLife DEF Call, NextCall
<1>2. ASSUME NEW i \in Calls, NEW a \in Action, NEW s \in Scopes, RunAsync(i, a, s)
      PROVE  LifeInv'
  <2>1. /\ call'[i].at = "queued" /\ call'[i].result = "none" /\ CallOK'
        /\ \A j \in Calls \ {i} : call'[j] = call[j]
    BY <1>2 DEF RunAsync, LifeInv, LifeTypes, CallOK, Step, Result
  <2>2. events[i] = <<>> /\ trail[i] = <<>>
    BY <1>2 DEF RunAsync, NextCall, LifeInv, LifecycleInOrder
  <2> QED BY <1>2, <2>1, <2>2 DEF RunAsync, LifeInv, LifeTypes, UnknownIsDone, LifecycleInOrder, Outcomes
<1>3. ASSUME NEW i \in Calls, JobBegins(i) PROVE LifeInv'
  BY <1>0, <1>3, BeginKeepsLife DEF JobBegins
<1>4. ASSUME NEW i \in Calls, Gate(i) PROVE LifeInv'
  <2>1. call[i].result # "unknown" /\ events[i] = <<"calling">> /\ Outcomes(i) = {}
    BY <1>4 DEF Gate, LifeInv, UnknownIsDone, LifecycleInOrder
  <2>2. /\ UNCHANGED <<events, trail, faults>> /\ CallOK /\ call[i].result \in Result
        /\ {"run", "elevate", "emit"} \subseteq Step /\ "refused" \in Result
    BY <1>0, <1>4 DEF Gate, LifeInv, LifeTypes, Step, Busy, Result
  <2>3. PICK k \in {"run", "elevate", "emit"}, r \in {call[i].result, "refused"} :
          \/ call' = [call EXCEPT ![i] = [call[i] EXCEPT !.at = k, !.result = r]]
          \/ call' = [call EXCEPT ![i] = [call[i] EXCEPT !.at = k]] /\ r = call[i].result
    BY <1>4 DEF Gate
  <2>4. /\ CallOK' /\ call'[i].at = k /\ call'[i].result = r
        /\ \A j \in Calls \ {i} : call'[j] = call[j]
    <3>1. k \in Step /\ r \in Result
      BY <2>2
    <3> QED BY <2>2, <2>3, <3>1, CallGoesTo
  <2> QED BY <2>1, <2>2, <2>4, MoveKeepsQuiet
<1>5. ASSUME NEW i \in Calls, Elevate(i) PROVE LifeInv'
  <2>1. call[i].result # "unknown" /\ events[i] = <<"calling">> /\ Outcomes(i) = {}
    BY <1>5 DEF Elevate, LifeInv, UnknownIsDone, LifecycleInOrder
  <2>2. /\ UNCHANGED events /\ CallOK /\ call[i].result \in Result
        /\ {"run", "emit"} \subseteq Step /\ "refused" \in Result
    BY <1>0, <1>5 DEF Elevate, LifeInv, LifeTypes, Step, Busy, Result
  <2>3. PICK k \in {"run", "emit"}, r \in {call[i].result, "refused"} :
          \/ call' = [call EXCEPT ![i] = [call[i] EXCEPT !.at = k, !.result = r]]
          \/ call' = [call EXCEPT ![i] = [call[i] EXCEPT !.at = k]] /\ r = call[i].result
    BY <1>5 DEF Elevate
  <2>4. /\ CallOK' /\ call'[i].at = k /\ call'[i].result = r
        /\ \A j \in Calls \ {i} : call'[j] = call[j]
    <3>1. k \in Step /\ r \in Result
      BY <2>2
    <3> QED BY <2>2, <2>3, <3>1, CallGoesTo
  <2>5. PICK e \in {"approved", "denied"} : Audited(i, e)
    BY <1>5 DEF Elevate
  <2>6. e \in Entry /\ e \notin {"succeeded", "failed"}
    BY DEF Entry
  <2>7. /\ trail' \in [Calls -> Seq(Entry)] /\ faults' \in Nat /\ faults' >= faults
        /\ \A j \in Calls \ {i} : trail'[j] = trail[j]
        /\ Outcomes(i)' = {}
    BY <2>1, <2>5, <2>6, AuditedOnce DEF LifeInv
  <2>8. LifeTypes'
    BY <2>2, <2>4, <2>7 DEF LifeInv, LifeTypes
  <2> QED BY <2>1, <2>2, <2>4, <2>7, <2>8, MoveKeepsLife
<1>6. ASSUME NEW i \in Calls, Return(i) \/ Unwind(i) PROVE LifeInv'
  <2>1. call[i].result # "unknown" /\ events[i] = <<"calling">> /\ Outcomes(i) = {}
    BY <1>6 DEF Return, Unwind, LifeInv, UnknownIsDone, LifecycleInOrder
  <2>2. /\ UNCHANGED <<events, trail, faults>> /\ CallOK /\ call[i].result \in Result
        /\ {"emit", "unwound"} \subseteq Step /\ {"ok", "error"} \subseteq Result
    BY <1>0, <1>6 DEF Return, Unwind, LifeInv, LifeTypes, Step, Busy, Result
  <2>3. PICK k \in {"emit", "unwound"}, r \in {call[i].result, "ok", "error"} :
          \/ call' = [call EXCEPT ![i] = [call[i] EXCEPT !.at = k, !.result = r]]
          \/ call' = [call EXCEPT ![i] = [call[i] EXCEPT !.at = k]] /\ r = call[i].result
    BY <1>6 DEF Return, Unwind
  <2>4. /\ CallOK' /\ call'[i].at = k /\ call'[i].result = r
        /\ \A j \in Calls \ {i} : call'[j] = call[j]
    <3>1. k \in Step /\ r \in Result
      BY <2>2
    <3> QED BY <2>2, <2>3, <3>1, CallGoesTo
  <2> QED BY <2>1, <2>2, <2>4, MoveKeepsQuiet
<1>7. ASSUME NEW i \in Calls, Emit(i) PROVE LifeInv'
  <2>1. call[i].result # "unknown" /\ events[i] = <<"calling">> /\ Outcomes(i) = {}
    BY <1>7 DEF Emit, LifeInv, UnknownIsDone, LifecycleInOrder
  <2>2. /\ UNCHANGED <<trail, faults>> /\ CallOK /\ call[i].result \in Result /\ "record" \in Step
    BY <1>0, <1>7 DEF Emit, LifeInv, LifeTypes, Step, Busy
  <2>3. call' = [call EXCEPT ![i] = [call[i] EXCEPT !.at = "record"]]
    BY <1>7 DEF Emit
  <2>4. /\ CallOK' /\ call'[i].at = "record" /\ call'[i].result = call[i].result
        /\ \A j \in Calls \ {i} : call'[j] = call[j]
    BY <2>2, <2>3, CallGoesTo
  <2>5. PICK o \in {"succeeded", "failed"} :
          o = OutcomeOf(call[i].result) /\ events' = [events EXCEPT ![i] = Append(events[i], o)]
    BY <1>7 DEF Emit, OutcomeOf
  <2>6. PICK q : q = Append(events[i], o)
    OBVIOUS
  <2>7. events \in [Calls -> Seq({"calling", "succeeded", "failed"})]
    BY DEF LifeInv, LifeTypes
  <2>8. q \in Seq({"calling", "succeeded", "failed"}) /\ q = <<"calling", o>>
    <3>1. q = Append(<<"calling">>, o) /\ o \in {"calling", "succeeded", "failed"}
      BY <2>1, <2>6
    <3>2. <<"calling">> \in Seq({"calling", "succeeded", "failed"})
      OBVIOUS
    <3>3. q \in Seq({"calling", "succeeded", "failed"})
      BY <3>1, <3>2
    <3>4. Append(<<"calling">>, o) = <<"calling", o>>
      BY <3>1, AppendToOne
    <3> QED BY <3>1, <3>3, <3>4
  <2>9. /\ events' \in [Calls -> Seq({"calling", "succeeded", "failed"})]
        /\ events'[i] = q /\ \A j \in Calls \ {i} : events'[j] = events[j]
    BY <2>5, <2>6, <2>7, <2>8
  <2>10. LifeTypes' /\ Outcomes(i)' = {} /\ \A j \in Calls \ {i} : trail'[j] = trail[j]
    BY <2>1, <2>2, <2>4, <2>9 DEF LifeInv, LifeTypes, Outcomes
  <2>11. faults' >= faults
    BY <2>2 DEF LifeInv, LifeTypes
  <2> QED BY <2>1, <2>4, <2>5, <2>8, <2>9, <2>10, <2>11, MoveKeepsLife
<1>8. ASSUME NEW i \in Calls, Record(i) PROVE LifeInv'
  <2>1. /\ call[i].result # "unknown" /\ events[i] = <<"calling", OutcomeOf(call[i].result)>>
        /\ Outcomes(i) = {}
    BY <1>8 DEF Record, LifeInv, UnknownIsDone, LifecycleInOrder
  <2>2. /\ call'[i].at = "done" /\ call'[i].result = call[i].result
        /\ CallOK' /\ \A j \in Calls \ {i} : call'[j] = call[j]
    <3>1. CallOK /\ call[i].result \in Result /\ "done" \in Step
      BY <1>0 DEF LifeInv, LifeTypes, Step
    <3>2. call' = [call EXCEPT ![i] = [call[i] EXCEPT !.at = "done"]]
      BY <1>8 DEF Record
    <3> QED BY <3>1, <3>2, CallGoesTo
  <2> DEFINE e == OutcomeOf(call[i].result)
  <2>3. e \in {"succeeded", "failed"} /\ e \in Entry /\ Audited(i, e)
    BY <1>8 DEF Record, OutcomeOf, Entry
  <2>4. /\ trail' \in [Calls -> Seq(Entry)] /\ faults' \in Nat /\ faults' >= faults
        /\ \A j \in Calls \ {i} : trail'[j] = trail[j]
        /\ \/ Outcomes(i)' = {Len(trail'[i])} /\ trail'[i][Len(trail'[i])] = e
           \/ faults' > 0 /\ Outcomes(i)' = {}
    BY <2>1, <2>3, AuditedOnce DEF LifeInv
  <2>5. LifeTypes' /\ events' = events
    BY <1>8, <2>2, <2>4 DEF Record, LifeInv, LifeTypes
  <2> QED BY <2>1, <2>2, <2>4, <2>5, MoveKeepsLife
<1>9. CASE \/ \E r \in PolicyRules : SetPolicy(r)
           \/ Stop \/ Join \/ Exit \/ (\E a \in Action : Close(a)) \/ UNCHANGED vars
  <2>1. UNCHANGED <<call, events, trail, faults>>
    BY <1>9 DEF SetPolicy, Stop, Join, Exit, Close, vars
  <2> QED BY <2>1 DEF LifeInv, LifeTypes, CallOK, UnknownIsDone, LifecycleInOrder, Outcomes
<1> QED
  BY <1>1, <1>2, <1>3, <1>4, <1>5, <1>6, <1>7, <1>8, <1>9 DEF Next, Dispatch

\* Events and audit trail of every call follow the lifecycle, for any number of
\* concurrent calls, failing disks and exceptions that end a thread.
THEOREM LifecycleIsKept == Spec => []LifecycleInOrder
<1>1. LifeInv => LifecycleInOrder
  BY DEF LifeInv
<1> QED BY <1>1, LifeInvInit, LifeInvStep, PTL DEF Spec

-----------------------------------------------------------------------------
(* config.json, which the rules come from and go to *)

Quiet == ~blind /\ failures = 0

\* The memory of a running daemon is in the document it will save.
InDocument == daemon # "down" => cache.rules = policy

\* Whoever holds the last document holds what was acknowledged: the file, the
\* daemon, and -- but for the setting it is about to change -- a writer.
FileKeeps == Quiet /\ file.valid => Acknowledged(file.text)
DaemonKeeps == Quiet /\ daemon # "down" /\ Daemon \in fresh => Acknowledged(cache)
WritersKeep ==
    Quiet => \A w \in Writers :
        writer[w].at # "idle" /\ w \in fresh => acked \subseteq writer[w].doc.rules

\* A fresh process that has truncated the file finds it still empty.
StillEmpty ==
    /\ Quiet /\ daemon = "truncated" /\ Daemon \in fresh => file.length = 0
    /\ Quiet => \A w \in Writers :
         writer[w].at = "truncated" /\ w \in fresh => file.length = 0

StoreInv ==
    /\ TypeOK /\ InDocument
    /\ FileKeeps /\ DaemonKeeps /\ WritersKeep
    /\ StillEmpty /\ UnreadableHasACause

-----------------------------------------------------------------------------
\* The length of every document fits in Sizes.
LEMMA SizeBounded ==
    ASSUME NEW d \in Document
    PROVE  Size(d) \in Sizes /\ Size(d) # 0
<1>1. d.rules \subseteq Rules
  BY DEF Document
<1>2. Cardinality(Rules) \in Nat /\ Cardinality(d.rules) \in Nat
      /\ Cardinality(d.rules) <= Cardinality(Rules)
  BY <1>1, PolicyAssumption, FS_Subset, FS_CardinalityType
<1> QED
  BY <1>2 DEF Size, Sizes

\* What Written() leaves: a file, whose text, if it parses, is the document.
LEMMA WrittenIsFile ==
    ASSUME NEW f \in File, NEW d \in Document
    PROVE  /\ Written(f, d) \in File
           /\ Written(f, d).valid => Written(f, d).text = d
           /\ f.length = 0 => Written(f, d).valid
<1>1. Size(d) \in Sizes /\ f.length \in Sizes /\ Default \in Document
  BY SizeBounded, PolicyAssumption DEF File, Default, Document
<1>2. Cardinality(Rules) \in Nat
  BY PolicyAssumption, FS_CardinalityType
<1>3. CASE f.length <= Size(d)
  BY <1>1, <1>3 DEF Written, Whole, File
<1>4. CASE ~(f.length <= Size(d))
  <2>1. f.length # 0
    BY <1>1, <1>2, <1>4 DEF Sizes
  <2> QED BY <1>1, <1>4, <2>1 DEF Written, Garbage, File
<1> QED BY <1>3, <1>4

LEMMA TruncatedIsFile == Truncated \in File /\ Truncated.length = 0 /\ ~Truncated.valid
<1>1. 0 \in Sizes /\ Default \in Document
  BY PolicyAssumption, FS_CardinalityType DEF Sizes, Default, Document
<1> QED BY <1>1 DEF Truncated, Garbage, File

-----------------------------------------------------------------------------
LEMMA StoreInvInit == PolicyInit => StoreInv
<1> SUFFICES ASSUME PolicyInit PROVE StoreInv
  OBVIOUS
<1>1. Default \in Document
  BY PolicyAssumption DEF Default, Document
<1>2. Whole(Default) \in File /\ Whole(Default).valid /\ Whole(Default).text = Default
  BY <1>1, SizeBounded DEF Whole, File
<1>3. TypeOK
  <2>1. writer \in [Writers -> [at : {"idle", "edited", "truncated"}, doc : Document]]
    BY <1>1 DEF PolicyInit, Idle
  <2>2. kept \in Settings /\ crashes \in 0..MaxCrashes /\ failures \in 0..MaxFailures
    BY PolicyAssumption DEF PolicyInit
  <2> QED BY <1>1, <1>2, <2>1, <2>2 DEF PolicyInit, TypeOK
<1>4. FileKeeps
  BY <1>2 DEF PolicyInit, FileKeeps, Acknowledged, Default
<1> QED
  BY <1>2, <1>3, <1>4 DEF PolicyInit, StoreInv, InDocument, DaemonKeeps, WritersKeep,
     StillEmpty, UnreadableHasACause

-----------------------------------------------------------------------------
\* TypeOK is inductive with InDocument; one case per action.
LEMMA TypeStep == TypeOK /\ InDocument /\ [PolicyNext]_policyVars => TypeOK' /\ InDocument'
<1> SUFFICES ASSUME TypeOK, InDocument, [PolicyNext]_policyVars PROVE TypeOK' /\ InDocument'
  OBVIOUS
<1> USE PolicyAssumption DEF TypeOK, InDocument
<1>0. \A v \in Settings : [file.text EXCEPT !.setting = v] \in Document
  BY DEF File, Document
<1>1. CASE Boot
  BY <1>1 DEF Boot, File, Document, Process, Daemon
<1>2. ASSUME NEW r \in Rules, Add(r) PROVE TypeOK' /\ InDocument'
  BY <1>2 DEF Add, Document
<1>3. CASE DaemonTruncates
  BY <1>3, TruncatedIsFile DEF DaemonTruncates
<1>4. CASE DaemonWrites
  BY <1>4, WrittenIsFile DEF DaemonWrites, Saves, Process, Daemon
<1>5. CASE SaveFails
  BY <1>5 DEF SaveFails
<1>6. CASE StopDaemon
  BY <1>6 DEF StopDaemon
<1>7. CASE Crash
  BY <1>7 DEF Crash
<1>8. ASSUME NEW w \in Writers, NEW v \in Settings, Edit(w, v)
      PROVE  TypeOK' /\ InDocument'
  <2>1. fresh' \in SUBSET Process
    BY <1>8 DEF Edit, Process
  <2>2. writer' \in [Writers -> [at : {"idle", "edited", "truncated"}, doc : Document]]
    BY <1>0, <1>8 DEF Edit
  <2> QED BY <1>8, <2>1, <2>2 DEF Edit
<1>9. ASSUME NEW w \in Writers, WriterTruncates(w) PROVE TypeOK' /\ InDocument'
  BY <1>9, TruncatedIsFile DEF WriterTruncates
<1>10. ASSUME NEW w \in Writers, WriterWrites(w) PROVE TypeOK' /\ InDocument'
  <2>1. writer[w].doc \in Document /\ Idle \in [at : {"idle", "edited", "truncated"}, doc : Document]
    BY DEF Idle, Default, Document
  <2> QED BY <1>10, <2>1, WrittenIsFile DEF WriterWrites, Saves, Process, Document
<1>11. ASSUME NEW w \in Writers, WriterDies(w) PROVE TypeOK' /\ InDocument'
  <2>1. Idle \in [at : {"idle", "edited", "truncated"}, doc : Document]
    BY DEF Idle, Default, Document
  <2> QED BY <1>11, <2>1 DEF WriterDies
<1>12. CASE UNCHANGED policyVars
  BY <1>12 DEF policyVars
<1> QED
  BY <1>1, <1>2, <1>3, <1>4, <1>5, <1>6, <1>7, <1>8, <1>9, <1>10, <1>11, <1>12 DEF PolicyNext

LEMMA StoreInvStep == StoreInv /\ [PolicyNext]_policyVars => StoreInv'
<1> SUFFICES ASSUME StoreInv, [PolicyNext]_policyVars PROVE StoreInv'
  OBVIOUS
<1>0. TypeOK' /\ InDocument'
  BY TypeStep DEF StoreInv
<1> DEFINE Kept == /\ FileKeeps' /\ DaemonKeeps' /\ WritersKeep'
                   /\ StillEmpty' /\ UnreadableHasACause'
<1> USE PolicyAssumption DEF StoreInv, TypeOK, InDocument, Quiet, FileKeeps, DaemonKeeps,
      WritersKeep, StillEmpty, UnreadableHasACause, Saving, Acknowledged
<1>1. ASSUME Boot PROVE Kept
  <2>1. FileKeeps' /\ DaemonKeeps'
    BY <1>1 DEF Boot
  <2>2. WritersKeep'
    <3>1. Daemon \notin Writers
      BY DEF Daemon
    <3> QED BY <1>1, <3>1 DEF Boot
  <2>3. StillEmpty' /\ UnreadableHasACause'
    BY <1>1 DEF Boot, Daemon
  <2> QED BY <2>1, <2>2, <2>3
<1>2. ASSUME NEW r \in Rules, Add(r) PROVE Kept
  BY <1>2 DEF Add, Document
<1>3. ASSUME DaemonTruncates PROVE Kept
  BY <1>3, TruncatedIsFile DEF DaemonTruncates
<1>4. ASSUME DaemonWrites PROVE Kept
  <2>1. Daemon \notin Writers
    BY DEF Daemon
  <2>2. /\ file'.valid => file'.text = cache
        /\ file.length = 0 => file'.valid
    BY <1>4, WrittenIsFile DEF DaemonWrites
  <2>3. FileKeeps' /\ DaemonKeeps'
    BY <1>4, <2>1, <2>2 DEF DaemonWrites, Saves
  <2>4. WritersKeep' /\ StillEmpty'
    BY <1>4, <2>1 DEF DaemonWrites, Saves
  <2>5. UnreadableHasACause'
    <3>1. ~blind' /\ failures' = 0 => file.length = 0
      BY <1>4 DEF DaemonWrites, Saves
    <3>2. failures' = failures /\ failures \in Nat
      BY <1>4 DEF DaemonWrites
    <3> QED BY <2>2, <3>1, <3>2 DEF DaemonWrites, Saves
  <2> QED BY <2>3, <2>4, <2>5
<1>5. ASSUME SaveFails PROVE Kept
  BY <1>5 DEF SaveFails
<1>6. ASSUME StopDaemon PROVE Kept
  BY <1>6 DEF StopDaemon
<1>7. ASSUME Crash PROVE Kept
  BY <1>7 DEF Crash
<1>8. ASSUME NEW w \in Writers, NEW v \in Settings, Edit(w, v) PROVE Kept
  BY <1>8 DEF Edit, File, Document, Daemon
<1>9. ASSUME NEW w \in Writers, WriterTruncates(w) PROVE Kept
  BY <1>9, TruncatedIsFile DEF WriterTruncates
<1>10. ASSUME NEW w \in Writers, WriterWrites(w) PROVE Kept
  <2>1. writer[w].doc \in Document /\ w # Daemon
    BY DEF Daemon
  <2>2. /\ file'.valid => file'.text = writer[w].doc
        /\ file.length = 0 => file'.valid
    BY <1>10, <2>1, WrittenIsFile DEF WriterWrites
  <2>3. writer'[w].at = "idle" /\ \A u \in Writers \ {w} : writer'[u] = writer[u]
    BY <1>10 DEF WriterWrites, Idle
  <2>4. FileKeeps' /\ DaemonKeeps'
    BY <1>10, <2>1, <2>2 DEF WriterWrites, Saves
  <2>5. WritersKeep' /\ StillEmpty'
    BY <1>10, <2>1, <2>3 DEF WriterWrites, Saves
  <2>6. UnreadableHasACause'
    <3>1. ~blind' /\ failures' = 0 => file.length = 0
      BY <1>10 DEF WriterWrites, Saves
    <3>2. failures' = failures /\ failures \in Nat
      BY <1>10 DEF WriterWrites
    <3> QED BY <2>2, <3>1, <3>2 DEF WriterWrites, Saves
  <2> QED BY <2>4, <2>5, <2>6
<1>11. ASSUME NEW w \in Writers, WriterDies(w) PROVE Kept
  BY <1>11 DEF WriterDies, Idle
<1>12. ASSUME UNCHANGED policyVars PROVE Kept
  BY <1>12 DEF policyVars
<1> QED
  BY <1>0, <1>1, <1>2, <1>3, <1>4, <1>5, <1>6, <1>7, <1>8, <1>9, <1>10, <1>11, <1>12 DEF PolicyNext

LEMMA StoreInvAlways == PolicySpec => []StoreInv
  BY StoreInvInit, StoreInvStep, PTL DEF PolicySpec

\* Every variable keeps its type: documents, file lengths, process steps.
THEOREM TypeCorrect == PolicySpec => []TypeOK
<1>1. StoreInv => TypeOK
  BY DEF StoreInv
<1> QED BY <1>1, StoreInvAlways, PTL

\* Serial, successful saves lose no acknowledged rule and no setting, whatever
\* restarts and deaths come between: what config.json yields has them all.
THEOREM SerialSavesKeepAll == PolicySpec => []ReadableKeepsAll
<1>1. StoreInv => ReadableKeepsAll
  BY DEF StoreInv, FileKeeps, Quiet, ReadableKeepsAll
<1> QED BY <1>1, StoreInvAlways, PTL

\* config.json never stops parsing but by a death or failure inside a save or
\* by a save of a document older than the file.
THEOREM UnreadableByCause == PolicySpec => []UnreadableHasACause
<1>1. StoreInv => UnreadableHasACause
  BY DEF StoreInv
<1> QED BY <1>1, StoreInvAlways, PTL
=============================================================================
