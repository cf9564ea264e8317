------------------------------ MODULE SignalProofs ------------------------------
(***************************************************************************)
(* Proofs about the event bus and about the tick whose notes arrive on it. *)
(*                                                                         *)
(* EventRouter: any events, handlers and dispatch threads, however often   *)
(* the router is stopped and started again.                                *)
(*                                                                         *)
(* Cognition: what the tick's two lists hold, and the modes it can enter,  *)
(* whatever the node observes, for every capacity and window.  The queue   *)
(* is followed through the steps of note_signal(): the note just taken in  *)
(* makes it one too long until the sorted list is cut.  Where two threads  *)
(* have met inside note_signal() nothing is claimed, as in                 *)
(* QueueKeepsTheBest itself.                                               *)
(***************************************************************************)
EXTENDS EventRouter, Cognition, SequenceTheorems, FiniteSetTheorems, TLAPS

-----------------------------------------------------------------------------
(* EventRouter: the inductive invariant.                                   *)

\* Where an event is: queued once, or in one thread's hands, as its stage says.
QueueHolds ==
  /\ \A e \in Event : stage[e] = "queued" => \E i \in 1 .. Len(inbox) : inbox[i] = e
  /\ \A i \in 1 .. Len(inbox) : inbox[i] \in Event => stage[inbox[i]] = "queued"
  /\ \A i, k \in 1 .. Len(inbox) : inbox[i] \in Event /\ inbox[i] = inbox[k] => i = k
HandsHold ==
  /\ \A w \in Worker : hand[w] \in Event => stage[hand[w]] = "taken"
  /\ \A v, w \in Worker : hand[v] \in Event /\ hand[v] = hand[w] => v = w
  /\ \A e \in Event : stage[e] = "taken" => \E w \in Worker : hand[w] = e

\* Before the handlers are copied none was called, and after the last call
\* none is left.
Untouched(e) == todo[e] = {} /\ \A h \in Handler : calls[e][h] = 0
Undelivered ==
  /\ \A e \in Event : stage[e] \in {"new", "checked", "queued", "dropped"} => Untouched(e)
  /\ \A w \in Worker : pc[w] = "copy" => Untouched(hand[w])
Delivered == \A e \in Event : stage[e] \in {"handled", "returned"} => todo[e] = {}

\* Who is still to be called has not been called.
CalledOnce ==
  \A e \in Event, h \in Handler :
    calls[e][h] <= 1 /\ (h \in todo[e] => calls[e][h] = 0)

\* A handler the event is owed to is subscribed until the copy, and afterwards
\* it is in the copy until it is called.
Served(e) == \A h \in owed[e] : h \in todo[e] \/ calls[e][h] > 0
Owing ==
  /\ \A e \in Event : /\ stage[e] \in {"new", "checked", "dropped"} => owed[e] = {}
                      /\ stage[e] = "queued" => owed[e] \subseteq subs
                      /\ stage[e] \in {"sync", "handled", "returned"} => Served(e)
  /\ \A w \in Worker : /\ pc[w] = "copy" => owed[hand[w]] \subseteq subs
                       /\ pc[w] = "deliver" => Served(hand[w])

RouterInv ==
  TypeOK /\ QueueHolds /\ HandsHold /\ Undelivered /\ Delivered /\ CalledOnce /\ Owing

LEMMA InitRouter == RouterInit => RouterInv
  <1> SUFFICES ASSUME RouterInit PROVE RouterInv
    OBVIOUS
  <1>1. TypeOK
    <2>1. inbox \in Seq(Event \cup {STOP}) /\ calls \in [Event -> [Handler -> Nat]]
      BY DEF RouterInit
    <2>2. \A w \in Worker : hand[w] = NoEvent /\ pc[w] = "dead"
      BY DEF RouterInit
    <2>3. /\ hand \in [Worker -> Event \cup {NoEvent}] /\ starts \in Nat
          /\ pc \in [Worker -> {"dead", "loop", "get", "copy", "deliver"}]
      BY DEF RouterInit
    <2>4. /\ stage \in [Event -> Stages] /\ todo \in [Event -> SUBSET Handler]
          /\ owed \in [Event -> SUBSET Handler]
      BY DEF RouterInit, Stages
    <2> QED BY <2>1, <2>2, <2>3, <2>4 DEF RouterInit, TypeOK
  <1>2. QueueHolds /\ HandsHold
    BY RouterAssumption DEF RouterInit, QueueHolds, HandsHold
  <1>3. Undelivered /\ Delivered /\ CalledOnce /\ Owing
    BY DEF RouterInit, Undelivered, Untouched, Delivered, CalledOnce, Owing, Served
  <1> QED BY <1>1, <1>2, <1>3 DEF RouterInv

-----------------------------------------------------------------------------
(* Sequences.                                                              *)

LEMMA AppendAt ==
  ASSUME NEW S, NEW q \in Seq(S), NEW x \in S
  PROVE  /\ Append(q, x) \in Seq(S) /\ Len(Append(q, x)) = Len(q) + 1 /\ Len(q) \in Nat
         /\ \A i \in 1 .. Len(q) : Append(q, x)[i] = q[i]
         /\ Append(q, x)[Len(q) + 1] = x
  OBVIOUS

LEMMA TailAt ==
  ASSUME NEW S, NEW q \in Seq(S), q # <<>>
  PROVE  /\ Tail(q) \in Seq(S) /\ Len(Tail(q)) = Len(q) - 1 /\ Len(q) \in Nat /\ Len(q) >= 1
         /\ \A i \in 1 .. Len(q) - 1 : Tail(q)[i] = q[i + 1]
         /\ Head(q) = q[1] /\ Head(q) \in S
  OBVIOUS

-----------------------------------------------------------------------------
(* Steps that touch no event.                                              *)

LEMMA ControlKeeps ==
  ASSUME RouterInv,
         \/ Stop \/ StopReturns \/ UNCHANGED routerVars
         \/ \E w \in Worker : Start(w) \/ Loop(w)
  PROVE  RouterInv'
  <1>0. /\ UNCHANGED <<inbox, subs, hand, stage, todo, calls, owed>>
        /\ pc' \in [Worker -> {"dead", "loop", "get", "copy", "deliver"}]
        /\ \A w \in Worker : pc[w] \in {"copy", "deliver"} \/ pc'[w] \in {"copy", "deliver"}
             => pc'[w] = pc[w]
    BY DEF RouterInv, TypeOK, Stop, StopReturns, Start, Loop, routerVars, hands, control
  <1>1. /\ running' \in BOOLEAN /\ thread' \in Worker \cup {NoWorker} /\ starts' \in Nat
        /\ stopper' \in {"none", "put", "join"}
    <2>1. CASE Stop \/ StopReturns
      BY <2>1 DEF RouterInv, TypeOK, Stop, StopReturns
    <2>2. CASE \E w \in Worker : Start(w)
      BY <2>2 DEF RouterInv, TypeOK, Start
    <2>3. CASE UNCHANGED control
      BY <2>3 DEF RouterInv, TypeOK, control
    <2> QED BY <2>1, <2>2, <2>3 DEF Loop, routerVars
  <1>2. TypeOK'
    BY <1>0, <1>1 DEF RouterInv, TypeOK
  <1>3. QueueHolds' /\ HandsHold' /\ Delivered' /\ CalledOnce'
    BY <1>0 DEF RouterInv, QueueHolds, HandsHold, Delivered, CalledOnce
  <1>4. Undelivered' /\ Owing'
    BY <1>0 DEF RouterInv, Undelivered, Untouched, Owing, Served
  <1> QED BY <1>2, <1>3, <1>4 DEF RouterInv

\* The sentinel is no event.
LEMMA StopPutKeeps == ASSUME RouterInv, StopPut PROVE RouterInv'
  <1>0. /\ inbox' = Append(inbox, STOP) /\ stopper' = "join" /\ inbox \in Seq(Event \cup {STOP})
        /\ UNCHANGED <<running, thread, starts, subs, pc, hand, stage, todo, calls, owed>>
    BY DEF StopPut, RouterInv, TypeOK, hands
  <1>1. /\ inbox' \in Seq(Event \cup {STOP}) /\ Len(inbox') = Len(inbox) + 1 /\ Len(inbox) \in Nat
        /\ \A i \in 1 .. Len(inbox) : inbox'[i] = inbox[i]
        /\ inbox'[Len(inbox) + 1] = STOP
    BY <1>0, AppendAt, STOP \in Event \cup {STOP}
  <1>2. TypeOK'
    BY <1>0, <1>1 DEF RouterInv, TypeOK
  <1>3. QueueHolds'
    BY <1>0, <1>1, RouterAssumption DEF RouterInv, QueueHolds
  <1>4. HandsHold' /\ Delivered' /\ CalledOnce' /\ Undelivered' /\ Owing'
    BY <1>0 DEF RouterInv, HandsHold, Delivered, CalledOnce, Undelivered, Untouched, Owing, Served
  <1> QED BY <1>2, <1>3, <1>4 DEF RouterInv

LEMMA SubscribersKeep ==
  ASSUME RouterInv, \E h \in Handler : Subscribe(h) \/ Unsubscribe(h)
  PROVE  RouterInv'
  <1> PICK h \in Handler : Subscribe(h) \/ Unsubscribe(h)
    OBVIOUS
  <1>0. /\ UNCHANGED <<running, thread, stopper, starts, inbox, pc, hand, stage, todo, calls>>
        /\ subs' \subseteq Handler /\ owed' \in [Event -> SUBSET Handler]
        /\ \A e \in Event : owed'[e] \subseteq owed[e] /\ (owed[e] \subseteq subs => owed'[e] \subseteq subs')
    BY DEF Subscribe, Unsubscribe, RouterInv, TypeOK, control, hands
  <1>1. TypeOK'
    BY <1>0 DEF RouterInv, TypeOK
  <1>2. QueueHolds' /\ HandsHold' /\ Delivered' /\ CalledOnce' /\ Undelivered'
    BY <1>0 DEF RouterInv, QueueHolds, HandsHold, Delivered, CalledOnce, Undelivered, Untouched
  <1>3. \A w \in Worker : pc[w] \in {"copy", "deliver"} => hand[w] \in Event
    BY DEF RouterInv, TypeOK
  <1>4. Owing'
    BY <1>0, <1>3 DEF RouterInv, Owing, Served
  <1> QED BY <1>1, <1>2, <1>4 DEF RouterInv

-----------------------------------------------------------------------------
(* Steps of an event in its publisher's hands.                             *)

\* What a step of the event e leaves of the others.
Elsewhere(e) ==
  /\ \A f \in Event \ {e} : /\ stage'[f] = stage[f] /\ todo'[f] = todo[f]
                            /\ calls'[f] = calls[f] /\ owed'[f] = owed[f]
  /\ stage' \in [Event -> Stages] /\ todo' \in [Event -> SUBSET Handler]
  /\ calls' \in [Event -> [Handler -> Nat]] /\ owed' \in [Event -> SUBSET Handler]

\* No thread holds the event before and after, and neither does the queue.
LEMMA PublisherKeeps ==
  ASSUME RouterInv, NEW e \in Event, Elsewhere(e),
         UNCHANGED <<running, thread, stopper, starts, inbox, subs, pc, hand>>,
         stage[e] \in {"new", "checked", "sync"},
         stage'[e] \in {"checked", "dropped", "sync", "returned"},
         stage'[e] \in {"checked", "dropped"} => Untouched(e)' /\ owed'[e] = {},
         stage'[e] = "returned" => todo'[e] = {},
         stage'[e] \in {"sync", "returned"} => Served(e)',
         \A h \in Handler : calls'[e][h] <= 1 /\ (h \in todo'[e] => calls'[e][h] = 0)
  PROVE  RouterInv'
  <1>0. \A w \in Worker : hand[w] # e /\ (pc[w] \in {"copy", "deliver"} => hand[w] \in Event \ {e})
    BY DEF RouterInv, TypeOK, HandsHold
  <1>1. TypeOK'
    BY DEF RouterInv, TypeOK, Elsewhere
  <1>2. QueueHolds'
    <2>1. \A f \in Event : stage'[f] = "queued" <=> stage[f] = "queued"
      BY DEF Elsewhere
    <2> QED BY <2>1 DEF RouterInv, QueueHolds
  <1>3. HandsHold'
    <2>1. \A f \in Event : stage'[f] = "taken" <=> stage[f] = "taken"
      BY DEF Elsewhere
    <2> QED BY <2>1 DEF RouterInv, HandsHold
  <1>4. Undelivered'
    <2>1. \A f \in Event \ {e} : Untouched(f) => Untouched(f)'
      BY DEF Untouched, Elsewhere
    <2>2. \A f \in Event : stage'[f] \in {"new", "checked", "queued", "dropped"} => Untouched(f)'
      BY <2>1 DEF RouterInv, Undelivered, Elsewhere
    <2>3. \A w \in Worker : pc[w] = "copy" => Untouched(hand[w])'
      BY <1>0, <2>1 DEF RouterInv, Undelivered
    <2> QED BY <2>2, <2>3 DEF Undelivered, Untouched
  <1>5. Delivered' /\ CalledOnce'
    <2>1. Delivered'
      BY DEF RouterInv, Delivered, Elsewhere
    <2>2. CalledOnce'
      BY DEF RouterInv, CalledOnce, Elsewhere
    <2> QED BY <2>1, <2>2
  <1>6. Owing'
    BY <1>0 DEF RouterInv, Owing, Served, Elsewhere
  <1> QED BY <1>1, <1>2, <1>3, <1>4, <1>5, <1>6 DEF RouterInv

\* A call takes the handler off the list and counts it.
LEMMA CallCounts ==
  ASSUME RouterInv, NEW e \in Event, NEW h \in Handler, CallHandler(e, h), UNCHANGED <<stage, owed>>
  PROVE  /\ Elsewhere(e) /\ (Served(e) => Served(e)')
         /\ \A k \in Handler : calls'[e][k] <= 1 /\ (k \in todo'[e] => calls'[e][k] = 0)
  <1>0. /\ todo \in [Event -> SUBSET Handler] /\ calls \in [Event -> [Handler -> Nat]]
        /\ stage \in [Event -> Stages] /\ owed \in [Event -> SUBSET Handler]
        /\ h \in todo[e] /\ calls[e][h] = 0
    BY DEF RouterInv, TypeOK, CallHandler, CalledOnce
  <1>1. todo' \in [Event -> SUBSET Handler] /\ todo'[e] = todo[e] \ {h}
        /\ \A f \in Event \ {e} : todo'[f] = todo[f]
    BY <1>0 DEF CallHandler
  <1> DEFINE row == [calls[e] EXCEPT ![h] = calls[e][h] + 1]
  <1>2. row \in [Handler -> Nat] /\ row[h] = 1 /\ \A k \in Handler \ {h} : row[k] = calls[e][k]
    BY <1>0
  <1>3. calls' = [calls EXCEPT ![e] = row]
    BY <1>0 DEF CallHandler
  <1> HIDE DEF row
  <1>4. calls' \in [Event -> [Handler -> Nat]] /\ calls'[e] = row
        /\ \A f \in Event \ {e} : calls'[f] = calls[f]
    BY <1>0, <1>2, <1>3
  <1>5. \A k \in Handler : calls[e][k] <= 1 /\ (k \in todo[e] => calls[e][k] = 0)
    BY DEF RouterInv, CalledOnce
  <1>6. Elsewhere(e)
    BY <1>0, <1>1, <1>4 DEF Elsewhere
  <1>7. Served(e) => Served(e)'
    BY <1>0, <1>1, <1>2, <1>4 DEF Served
  <1> QED BY <1>1, <1>2, <1>4, <1>5, <1>6, <1>7

LEMMA PublishersKeep ==
  ASSUME RouterInv, NEW e \in Event, EmitCheck(e) \/ EmitSync(e) \/ SyncCall(e) \/ SyncReturn(e)
  PROVE  RouterInv'
  <1>0. /\ stage \in [Event -> Stages] /\ todo \in [Event -> SUBSET Handler] /\ subs \subseteq Handler
        /\ calls \in [Event -> [Handler -> Nat]] /\ owed \in [Event -> SUBSET Handler]
    BY DEF RouterInv, TypeOK
  <1>1. \A h \in Handler : calls[e][h] <= 1 /\ (h \in todo[e] => calls[e][h] = 0)
    BY DEF RouterInv, CalledOnce
  <1>2. CASE EmitCheck(e)
    <2>1. /\ stage[e] = "new" /\ stage' = [stage EXCEPT ![e] = IF running THEN "checked" ELSE "dropped"]
          /\ UNCHANGED <<running, thread, stopper, starts, inbox, subs, pc, hand, todo, calls, owed>>
      BY <1>2 DEF EmitCheck, control, hands
    <2>2. stage'[e] \in {"checked", "dropped"} /\ Elsewhere(e)
      BY <1>0, <2>1 DEF Elsewhere, Stages
    <2>3. Untouched(e)' /\ owed'[e] = {}
      BY <2>1 DEF RouterInv, Undelivered, Untouched, Owing
    <2> QED BY <1>1, <2>1, <2>2, <2>3, PublisherKeeps
  <1>3. CASE EmitSync(e)
    <2>1. /\ stage[e] = "new" /\ stage' = [stage EXCEPT ![e] = "sync"]
          /\ todo' = [todo EXCEPT ![e] = subs] /\ owed' = [owed EXCEPT ![e] = subs]
          /\ UNCHANGED <<running, thread, stopper, starts, inbox, subs, pc, hand, calls>>
      BY <1>3 DEF EmitSync, control, hands
    <2>2. /\ stage'[e] = "sync" /\ Elsewhere(e) /\ todo'[e] = subs /\ owed'[e] = subs
      BY <1>0, <2>1 DEF Elsewhere, Stages
    <2>3. \A h \in Handler : calls'[e][h] = 0
      BY <2>1 DEF RouterInv, Undelivered, Untouched
    <2>4. Served(e)'
      BY <2>2 DEF Served
    <2> QED BY <2>1, <2>2, <2>3, <2>4, PublisherKeeps
  <1>4. CASE SyncCall(e)
    <2>1. /\ stage[e] = "sync" /\ UNCHANGED <<stage, owed>>
          /\ UNCHANGED <<running, thread, stopper, starts, inbox, subs, pc, hand>>
      BY <1>4 DEF SyncCall, control, hands
    <2>2. PICK h \in Handler : CallHandler(e, h)
      BY <1>4 DEF SyncCall
    <2>3. Served(e)
      BY <2>1 DEF RouterInv, Owing
    <2> QED BY <2>1, <2>2, <2>3, CallCounts, PublisherKeeps
  <1>5. CASE SyncReturn(e)
    <2>1. /\ stage[e] = "sync" /\ todo[e] = {} /\ stage' = [stage EXCEPT ![e] = "returned"]
          /\ UNCHANGED <<running, thread, stopper, starts, inbox, subs, pc, hand, todo, calls, owed>>
      BY <1>5 DEF SyncReturn, control, hands
    <2>2. stage'[e] = "returned" /\ Elsewhere(e)
      BY <1>0, <2>1 DEF Elsewhere, Stages
    <2>3. Served(e)'
      BY <2>1 DEF RouterInv, Owing, Served
    <2> QED BY <1>1, <2>1, <2>2, <2>3, PublisherKeeps
  <1> QED BY <1>2, <1>3, <1>4, <1>5

\* emit() puts the event behind all others; it was in no hand.
LEMMA EmitPutKeeps == ASSUME RouterInv, NEW e \in Event, EmitPut(e) PROVE RouterInv'
  <1>0. /\ stage[e] = "checked" /\ stage' = [stage EXCEPT ![e] = "queued"]
        /\ inbox' = Append(inbox, e) /\ owed' = [owed EXCEPT ![e] = subs]
        /\ UNCHANGED <<running, thread, stopper, starts, subs, pc, hand, todo, calls>>
    BY DEF EmitPut, control, hands
  <1>1. /\ stage \in [Event -> Stages] /\ owed \in [Event -> SUBSET Handler] /\ subs \subseteq Handler
        /\ inbox \in Seq(Event \cup {STOP})
    BY DEF RouterInv, TypeOK
  <1>2. /\ inbox' \in Seq(Event \cup {STOP}) /\ Len(inbox') = Len(inbox) + 1 /\ Len(inbox) \in Nat
        /\ \A i \in 1 .. Len(inbox) : inbox'[i] = inbox[i]
        /\ inbox'[Len(inbox) + 1] = e
    BY <1>0, <1>1, AppendAt
  <1>3. /\ stage' \in [Event -> Stages] /\ stage'[e] = "queued" /\ owed'[e] = subs
        /\ owed' \in [Event -> SUBSET Handler]
        /\ \A f \in Event \ {e} : stage'[f] = stage[f] /\ owed'[f] = owed[f]
    BY <1>0, <1>1 DEF Stages
  <1>4. \A w \in Worker : hand[w] # e /\ (pc[w] \in {"copy", "deliver"} => hand[w] \in Event \ {e})
    BY <1>0 DEF RouterInv, TypeOK, HandsHold
  <1>5. TypeOK'
    BY <1>0, <1>2, <1>3 DEF RouterInv, TypeOK
  <1>6. QueueHolds'
    <2>1. \A i \in 1 .. Len(inbox) : inbox[i] # e
      BY <1>0 DEF RouterInv, QueueHolds
    <2>2. \A f \in Event : stage'[f] = "queued" => \E i \in 1 .. Len(inbox') : inbox'[i] = f
      <3> SUFFICES ASSUME NEW f \in Event, stage'[f] = "queued"
                   PROVE  \E i \in 1 .. Len(inbox') : inbox'[i] = f
        OBVIOUS
      <3>1. CASE f = e
        BY <1>2, <3>1
      <3>2. CASE f # e
        <4> PICK i \in 1 .. Len(inbox) : inbox[i] = f
          BY <1>3, <3>2 DEF RouterInv, QueueHolds
        <4> QED BY <1>2
      <3> QED BY <3>1, <3>2
    <2>3. \A i \in 1 .. Len(inbox') : inbox'[i] \in Event => stage'[inbox'[i]] = "queued"
      BY <1>2, <1>3, <2>1 DEF RouterInv, QueueHolds
    <2>4. \A i, k \in 1 .. Len(inbox') : inbox'[i] \in Event /\ inbox'[i] = inbox'[k] => i = k
      BY <1>2, <2>1 DEF RouterInv, QueueHolds
    <2> QED BY <2>2, <2>3, <2>4 DEF QueueHolds
  <1>7. HandsHold'
    BY <1>0, <1>3, <1>4 DEF RouterInv, HandsHold
  <1>8. Undelivered' /\ Delivered' /\ CalledOnce'
    BY <1>0, <1>3 DEF RouterInv, Undelivered, Untouched, Delivered, CalledOnce
  <1>9. Owing'
    BY <1>0, <1>3, <1>4 DEF RouterInv, Owing, Served
  <1> QED BY <1>5, <1>6, <1>7, <1>8, <1>9 DEF RouterInv

-----------------------------------------------------------------------------
(* Steps of a dispatch thread.                                             *)

\* Taking the head leaves the rest of the queue in order.
LEMMA TakenOut ==
  ASSUME RouterInv, inbox # <<>>, inbox' = Tail(inbox), NEW f \in Event \cup {STOP}, Head(inbox) = f,
         stage' = IF f = STOP THEN stage ELSE [stage EXCEPT ![f] = "taken"]
  PROVE  QueueHolds' /\ inbox' \in Seq(Event \cup {STOP})
  <1>0. stage \in [Event -> Stages] /\ inbox \in Seq(Event \cup {STOP}) /\ STOP \notin Event
    BY RouterAssumption DEF RouterInv, TypeOK
  <1>1. /\ inbox' \in Seq(Event \cup {STOP}) /\ Len(inbox') = Len(inbox) - 1
        /\ Len(inbox) \in Nat /\ Len(inbox) >= 1 /\ inbox[1] = f
        /\ \A i \in 1 .. Len(inbox) - 1 : inbox'[i] = inbox[i + 1]
    BY <1>0, TailAt
  <1>2. \A g \in Event \ {f} : stage'[g] = stage[g]
    BY <1>0
  <1>3. f \in Event => stage'[f] = "taken"
    BY <1>0
  <1>4. \A i \in 1 .. Len(inbox') : inbox'[i] \in Event => inbox'[i] # f /\ stage[inbox'[i]] = "queued"
    <2> SUFFICES ASSUME NEW i \in 1 .. Len(inbox'), inbox'[i] \in Event
                 PROVE  inbox'[i] # f /\ stage[inbox'[i]] = "queued"
      OBVIOUS
    <2>1. i + 1 \in 1 .. Len(inbox) /\ inbox'[i] = inbox[i + 1] /\ 1 \in 1 .. Len(inbox) /\ i + 1 # 1
      BY <1>1
    <2> QED BY <1>1, <2>1 DEF RouterInv, QueueHolds
  <1>5. \A g \in Event : stage'[g] = "queued" => \E i \in 1 .. Len(inbox') : inbox'[i] = g
    <2> SUFFICES ASSUME NEW g \in Event, stage'[g] = "queued"
                 PROVE  \E i \in 1 .. Len(inbox') : inbox'[i] = g
      OBVIOUS
    <2>1. g # f /\ stage[g] = "queued"
      BY <1>2, <1>3
    <2> PICK i \in 1 .. Len(inbox) : inbox[i] = g
      BY <2>1 DEF RouterInv, QueueHolds
    <2>2. i - 1 \in 1 .. Len(inbox') /\ inbox'[i - 1] = g
      BY <1>1, <2>1
    <2> QED BY <2>2
  <1>6. \A i, k \in 1 .. Len(inbox') : inbox'[i] \in Event /\ inbox'[i] = inbox'[k] => i = k
    <2> SUFFICES ASSUME NEW i \in 1 .. Len(inbox'), NEW k \in 1 .. Len(inbox'),
                        inbox'[i] \in Event, inbox'[i] = inbox'[k]
                 PROVE  i = k
      OBVIOUS
    <2>1. /\ i + 1 \in 1 .. Len(inbox) /\ inbox'[i] = inbox[i + 1]
          /\ k + 1 \in 1 .. Len(inbox) /\ inbox'[k] = inbox[k + 1]
      BY <1>1
    <2>2. i + 1 = k + 1
      BY <2>1 DEF RouterInv, QueueHolds
    <2> QED BY <2>2, <1>1
  <1>7. \A i \in 1 .. Len(inbox') : inbox'[i] \in Event => stage'[inbox'[i]] = "queued"
    BY <1>2, <1>4
  <1> QED BY <1>1, <1>5, <1>6, <1>7 DEF QueueHolds

LEMMA GetKeeps == ASSUME RouterInv, NEW w \in Worker, Get(w) PROVE RouterInv'
  <1>0. /\ pc[w] = "get" /\ hand[w] = NoEvent /\ NoEvent \notin Event
        /\ UNCHANGED <<running, thread, stopper, starts, subs, todo, calls, owed>>
        /\ pc \in [Worker -> {"dead", "loop", "get", "copy", "deliver"}]
        /\ hand \in [Worker -> Event \cup {NoEvent}] /\ stage \in [Event -> Stages]
        /\ inbox \in Seq(Event \cup {STOP})
    BY RouterAssumption DEF Get, RouterInv, TypeOK, control
  <1>1. ASSUME UNCHANGED <<hand, stage>>, NEW l \in {"loop", "dead"}, pc' = [pc EXCEPT ![w] = l],
               QueueHolds', inbox' \in Seq(Event \cup {STOP})
        PROVE  RouterInv'
    <2>1. TypeOK'
      BY <1>0, <1>1 DEF RouterInv, TypeOK
    <2>2. HandsHold' /\ Delivered' /\ CalledOnce'
      BY <1>0, <1>1 DEF RouterInv, HandsHold, Delivered, CalledOnce
    <2>3. Undelivered' /\ Owing'
      BY <1>0, <1>1 DEF RouterInv, Undelivered, Untouched, Owing, Served
    <2> QED BY <1>1, <2>1, <2>2, <2>3 DEF RouterInv
  <1>2. CASE inbox = <<>> /\ pc' = [pc EXCEPT ![w] = "loop"] /\ UNCHANGED <<inbox, hand, stage>>
    <2>1. QueueHolds'
      BY <1>2 DEF RouterInv, QueueHolds
    <2> QED BY <1>0, <1>1, <1>2, <2>1
  <1>3. CASE /\ inbox # <<>> /\ Head(inbox) = STOP /\ inbox' = Tail(inbox)
             /\ pc' = [pc EXCEPT ![w] = "dead"] /\ UNCHANGED <<hand, stage>>
    BY <1>1, <1>3, TakenOut
  <1>4. CASE /\ inbox # <<>> /\ Head(inbox) # STOP /\ inbox' = Tail(inbox)
             /\ hand' = [hand EXCEPT ![w] = Head(inbox)]
             /\ stage' = [stage EXCEPT ![Head(inbox)] = "taken"]
             /\ pc' = [pc EXCEPT ![w] = "copy"]
    <2> DEFINE e == Head(inbox)
    <2>1. e \in Event /\ 1 \in 1 .. Len(inbox) /\ inbox[1] = e
      BY <1>0, <1>4, TailAt
    <2>2. stage[e] = "queued" /\ \A v \in Worker : hand[v] # e
      BY <2>1 DEF RouterInv, QueueHolds, HandsHold
    <2>3. QueueHolds' /\ inbox' \in Seq(Event \cup {STOP})
      BY <1>4, <2>1, TakenOut
    <2>4. /\ hand' \in [Worker -> Event \cup {NoEvent}] /\ hand'[w] = e
          /\ stage' \in [Event -> Stages] /\ stage'[e] = "taken"
          /\ pc' \in [Worker -> {"dead", "loop", "get", "copy", "deliver"}] /\ pc'[w] = "copy"
          /\ \A v \in Worker \ {w} : hand'[v] = hand[v] /\ pc'[v] = pc[v]
          /\ \A f \in Event \ {e} : stage'[f] = stage[f]
      BY <1>0, <1>4, <2>1 DEF Stages
    <2> HIDE DEF e
    <2>5. TypeOK'
      <3>1. \A v \in Worker : hand'[v] = NoEvent <=> pc'[v] \notin {"copy", "deliver"}
        <4>1. \A v \in Worker \ {w} : hand[v] = NoEvent <=> pc[v] \notin {"copy", "deliver"}
          BY DEF RouterInv, TypeOK
        <4>2. hand'[w] # NoEvent
          BY <1>0, <2>1, <2>4
        <4> QED BY <2>4, <4>1, <4>2
      <3> QED BY <1>0, <2>3, <2>4, <3>1 DEF RouterInv, TypeOK
    <2>6. HandsHold'
      <3>1. \A v \in Worker : hand'[v] \in Event => stage'[hand'[v]] = "taken"
        BY <2>1, <2>4 DEF RouterInv, HandsHold
      <3>2. \A u, v \in Worker : hand'[u] \in Event /\ hand'[u] = hand'[v] => u = v
        BY <2>2, <2>4 DEF RouterInv, HandsHold
      <3>3. \A f \in Event : stage'[f] = "taken" => \E v \in Worker : hand'[v] = f
        <4> SUFFICES ASSUME NEW f \in Event, stage'[f] = "taken"
                     PROVE  \E v \in Worker : hand'[v] = f
          OBVIOUS
        <4>1. CASE f = e
          BY <2>4, <4>1
        <4>2. CASE f # e
          <5> PICK v \in Worker : hand[v] = f
            BY <2>4, <4>2 DEF RouterInv, HandsHold
          <5> QED BY <1>0, <2>4
        <4> QED BY <4>1, <4>2
      <3> QED BY <3>1, <3>2, <3>3 DEF HandsHold
    <2>7. Untouched(e) /\ owed[e] \subseteq subs
      BY <2>1, <2>2 DEF RouterInv, Undelivered, Owing
    <2>8. Undelivered'
      BY <1>0, <2>1, <2>4, <2>7 DEF RouterInv, Undelivered, Untouched
    <2>9. Delivered' /\ CalledOnce'
      BY <1>0, <2>4 DEF RouterInv, Delivered, CalledOnce
    <2>10. Owing'
      BY <1>0, <2>1, <2>4, <2>7 DEF RouterInv, Owing, Served
    <2> QED BY <2>3, <2>5, <2>6, <2>8, <2>9, <2>10 DEF RouterInv
  <1> QED BY <1>2, <1>3, <1>4 DEF Get

LEMMA CopyKeeps == ASSUME RouterInv, NEW w \in Worker, Copy(w) PROVE RouterInv'
  <1> DEFINE e == hand[w]
  <1>0. /\ pc[w] = "copy" /\ e \in Event /\ stage[e] = "taken" /\ Untouched(e) /\ owed[e] \subseteq subs
        /\ UNCHANGED <<running, thread, stopper, starts, inbox, subs, hand, stage, calls, owed>>
        /\ todo' = [todo EXCEPT ![e] = subs] /\ pc' = [pc EXCEPT ![w] = "deliver"]
        /\ todo \in [Event -> SUBSET Handler] /\ subs \subseteq Handler
        /\ pc \in [Worker -> {"dead", "loop", "get", "copy", "deliver"}]
    BY DEF Copy, RouterInv, TypeOK, HandsHold, Undelivered, Owing, control
  <1>1. /\ todo' \in [Event -> SUBSET Handler] /\ todo'[e] = subs
        /\ pc' \in [Worker -> {"dead", "loop", "get", "copy", "deliver"}] /\ pc'[w] = "deliver"
        /\ \A v \in Worker \ {w} : pc'[v] = pc[v]
        /\ \A f \in Event \ {e} : todo'[f] = todo[f]
    BY <1>0
  <1>2. \A v \in Worker \ {w} : hand[v] # e /\ (pc[v] \in {"copy", "deliver"} => hand[v] \in Event \ {e})
    BY <1>0 DEF RouterInv, TypeOK, HandsHold
  <1> HIDE DEF e
  <1>3. TypeOK'
    BY <1>0, <1>1 DEF RouterInv, TypeOK, e
  <1>4. QueueHolds' /\ HandsHold'
    BY <1>0 DEF RouterInv, QueueHolds, HandsHold
  <1>5. Undelivered' /\ Delivered' /\ CalledOnce'
    BY <1>0, <1>1, <1>2 DEF RouterInv, Undelivered, Untouched, Delivered, CalledOnce
  <1>6. Owing'
    BY <1>0, <1>1, <1>2 DEF RouterInv, Owing, Served, e
  <1> QED BY <1>3, <1>4, <1>5, <1>6 DEF RouterInv

LEMMA DeliverKeeps == ASSUME RouterInv, NEW w \in Worker, Deliver(w) PROVE RouterInv'
  <1> PICK e \in Event : e = hand[w]
    BY DEF Deliver, RouterInv, TypeOK
  <1>0. /\ pc[w] = "deliver" /\ stage[e] = "taken" /\ Served(e)
        /\ UNCHANGED <<running, thread, stopper, starts, inbox, subs, pc, hand, stage, owed>>
    BY DEF Deliver, RouterInv, TypeOK, HandsHold, Owing, control, hands
  <1> PICK h \in Handler : CallHandler(e, h)
    BY DEF Deliver
  <1>1. /\ Elsewhere(e) /\ Served(e)'
        /\ \A k \in Handler : calls'[e][k] <= 1 /\ (k \in todo'[e] => calls'[e][k] = 0)
    BY <1>0, CallCounts
  <1>2. \A v \in Worker \ {w} : pc[v] \in {"copy", "deliver"} => hand[v] \in Event \ {e}
    BY <1>0 DEF RouterInv, TypeOK, HandsHold
  <1>3. TypeOK'
    BY <1>0, <1>1 DEF RouterInv, TypeOK, Elsewhere
  <1>4. QueueHolds' /\ HandsHold'
    BY <1>0 DEF RouterInv, QueueHolds, HandsHold
  <1>5. Undelivered'
    <2>1. \A f \in Event \ {e} : Untouched(f) => Untouched(f)'
      BY <1>1 DEF Untouched, Elsewhere
    <2>2. \A f \in Event : stage'[f] \in {"new", "checked", "queued", "dropped"} => Untouched(f)'
      BY <1>0, <2>1 DEF RouterInv, Undelivered
    <2>3. \A v \in Worker : pc'[v] = "copy" => Untouched(hand[v])'
      BY <1>0, <1>2, <2>1 DEF RouterInv, Undelivered
    <2> QED BY <1>0, <2>2, <2>3 DEF Undelivered, Untouched
  <1>6. Delivered' /\ CalledOnce'
    <2>1. Delivered'
      BY <1>0, <1>1 DEF RouterInv, Delivered, Elsewhere
    <2>2. CalledOnce'
      BY <1>1 DEF RouterInv, CalledOnce, Elsewhere
    <2> QED BY <2>1, <2>2
  <1>7. Owing'
    <2>1. \A f \in Event \ {e} : Served(f) => Served(f)'
      BY <1>1 DEF Served, Elsewhere
    <2>2. \A f \in Event : Served(f) => Served(f)'
      BY <1>1, <2>1
    <2>3. \A f \in Event : (/\ stage[f] \in {"new", "checked", "dropped"} => owed[f] = {}
                            /\ stage[f] = "queued" => owed[f] \subseteq subs
                            /\ stage[f] \in {"sync", "handled", "returned"} => Served(f))'
      BY <1>0, <2>2 DEF RouterInv, Owing
    <2>4. \A v \in Worker : (pc[v] = "copy" => owed[hand[v]] \subseteq subs)'
      BY <1>0 DEF RouterInv, Owing
    <2>5. \A v \in Worker : pc[v] = "deliver" => hand[v] \in Event /\ Served(hand[v])
      BY DEF RouterInv, TypeOK, Owing
    <2>6. \A v \in Worker : (pc[v] = "deliver" => Served(hand[v]))'
      <3> SUFFICES ASSUME NEW v \in Worker, pc[v] = "deliver" PROVE Served(hand[v])'
        BY <1>0
      <3> PICK f \in Event : f = hand[v] /\ Served(f)
        BY <2>5
      <3>1. Served(f)' /\ hand'[v] = f
        BY <1>0, <2>2
      <3> QED BY <3>1 DEF Served
    <2> QED BY <2>3, <2>4, <2>6 DEF Owing
  <1> QED BY <1>3, <1>4, <1>5, <1>6, <1>7 DEF RouterInv

LEMMA NextEventKeeps == ASSUME RouterInv, NEW w \in Worker, NextEvent(w) PROVE RouterInv'
  <1> DEFINE e == hand[w]
  <1>0. /\ pc[w] = "deliver" /\ e \in Event /\ stage[e] = "taken" /\ Served(e) /\ todo[e] = {}
        /\ UNCHANGED <<running, thread, stopper, starts, inbox, subs, todo, calls, owed>>
        /\ stage' = [stage EXCEPT ![e] = "handled"]
        /\ hand' = [hand EXCEPT ![w] = NoEvent] /\ pc' = [pc EXCEPT ![w] = "loop"]
        /\ stage \in [Event -> Stages] /\ hand \in [Worker -> Event \cup {NoEvent}]
        /\ pc \in [Worker -> {"dead", "loop", "get", "copy", "deliver"}] /\ NoEvent \notin Event
    BY RouterAssumption DEF NextEvent, RouterInv, TypeOK, HandsHold, Owing, control
  <1>1. /\ stage' \in [Event -> Stages] /\ stage'[e] = "handled"
        /\ \A f \in Event \ {e} : stage'[f] = stage[f]
        /\ hand' \in [Worker -> Event \cup {NoEvent}] /\ hand'[w] = NoEvent
        /\ pc' \in [Worker -> {"dead", "loop", "get", "copy", "deliver"}] /\ pc'[w] = "loop"
        /\ \A v \in Worker \ {w} : hand'[v] = hand[v] /\ pc'[v] = pc[v]
    BY <1>0 DEF Stages
  <1>2. \A v \in Worker \ {w} : hand[v] # e /\ (pc[v] \in {"copy", "deliver"} => hand[v] \in Event \ {e})
    BY <1>0 DEF RouterInv, TypeOK, HandsHold
  <1>3. \A v \in Worker : hand'[v] = NoEvent <=> pc'[v] \notin {"copy", "deliver"}
    BY <1>1 DEF RouterInv, TypeOK
  <1>4. TypeOK'
    BY <1>0, <1>1, <1>3 DEF RouterInv, TypeOK
  <1>5. HandsHold'
    <2>1. \A f \in Event : stage'[f] = "taken" => \E v \in Worker : hand'[v] = f
      <3> SUFFICES ASSUME NEW f \in Event, stage'[f] = "taken" PROVE \E v \in Worker : hand'[v] = f
        OBVIOUS
      <3>1. f # e /\ stage[f] = "taken"
        BY <1>1
      <3> PICK v \in Worker : hand[v] = f
        BY <3>1 DEF RouterInv, HandsHold
      <3> QED BY <1>1, <3>1
    <2>2. \A v \in Worker : hand'[v] \in Event => hand'[v] = hand[v] /\ v # w
      BY <1>0, <1>1
    <2> HIDE DEF e
    <2>3. \A v \in Worker : hand'[v] \in Event => stage'[hand'[v]] = "taken"
      BY <1>1, <1>2, <2>2 DEF RouterInv, HandsHold
    <2>4. \A u, v \in Worker : hand'[u] \in Event /\ hand'[u] = hand'[v] => u = v
      BY <2>2 DEF RouterInv, HandsHold
    <2> QED BY <2>1, <2>3, <2>4 DEF HandsHold
  <1> HIDE DEF e
  <1>6. QueueHolds'
    BY <1>0, <1>1 DEF RouterInv, QueueHolds
  <1>7. Undelivered' /\ Delivered' /\ CalledOnce'
    BY <1>0, <1>1, <1>2 DEF RouterInv, Undelivered, Untouched, Delivered, CalledOnce
  <1>8. Owing'
    BY <1>0, <1>1, <1>2 DEF RouterInv, Owing, Served
  <1> QED BY <1>4, <1>5, <1>6, <1>7, <1>8 DEF RouterInv

-----------------------------------------------------------------------------
LEMMA NextRouter == RouterInv /\ [RouterNext]_routerVars => RouterInv'
  <1> SUFFICES ASSUME RouterInv, [RouterNext]_routerVars PROVE RouterInv'
    OBVIOUS
  <1>1. CASE Stop \/ StopReturns \/ UNCHANGED routerVars \/ \E w \in Worker : Start(w) \/ Loop(w)
    BY <1>1, ControlKeeps
  <1>2. CASE StopPut
    BY <1>2, StopPutKeeps
  <1>3. CASE \E h \in Handler : Subscribe(h) \/ Unsubscribe(h)
    BY <1>3, SubscribersKeep
  <1>4. CASE \E e \in Event : EmitCheck(e) \/ EmitSync(e) \/ SyncCall(e) \/ SyncReturn(e)
    BY <1>4, PublishersKeep
  <1>5. CASE \E e \in Event : EmitPut(e)
    BY <1>5, EmitPutKeeps
  <1>6. CASE \E w \in Worker : Get(w) \/ Copy(w) \/ Deliver(w) \/ NextEvent(w)
    BY <1>6, GetKeeps, CopyKeeps, DeliverKeeps, NextEventKeeps
  <1> QED BY <1>1, <1>2, <1>3, <1>4, <1>5, <1>6 DEF RouterNext, WorkerStep, EmitStep

\* Queue, threads and books keep their types for any events and handlers.
THEOREM TypeCorrect == RouterSpec => []TypeOK
  <1>1. RouterInv => TypeOK
    BY DEF RouterInv
  <1> QED BY InitRouter, NextRouter, <1>1, PTL DEF RouterSpec

\* No event is seen twice or skipped by a handler that stays, and none is in two
\* places or in none, though handlers come and go, a long handler outlasts stop()
\* and a second dispatch thread takes events from the same queue.
THEOREM EventsAreDelivered == RouterSpec => []Delivery
  <1>1. ASSUME RouterInv PROVE Delivery
    <2>1. DeliveredOnce
      BY <1>1 DEF RouterInv, CalledOnce, DeliveredOnce
    <2>2. NoSubscriberMissed
      BY <1>1 DEF RouterInv, Owing, Served, Delivered, NoSubscriberMissed
    <2>3. \A e \in Event : stage[e] = "queued" <=> Queued(e) # {}
      BY <1>1 DEF RouterInv, QueueHolds, Queued
    <2>4. \A e \in Event : \A i, k \in Queued(e) : i = k
      BY <1>1 DEF RouterInv, QueueHolds, Queued
    <2>5. /\ \A e \in Event : stage[e] = "taken" => \E w \in Worker : hand[w] = e
          /\ \A e \in Event : \A v, w \in Worker : hand[v] = e /\ hand[w] = e => v = w
      BY <1>1 DEF RouterInv, HandsHold
    <2>6. Accounted
      BY <2>3, <2>4, <2>5 DEF Accounted
    <2> QED BY <2>1, <2>2, <2>6 DEF Delivery
  <1> QED BY InitRouter, NextRouter, <1>1, PTL DEF RouterSpec

-----------------------------------------------------------------------------
(* Cognition: lists.                                                       *)

IsSeq(s) == s \in Seq(ToSet(s))

LEMMA SeqIsSeq == ASSUME NEW S, NEW s \in Seq(S) PROVE IsSeq(s)
<1>1. \A i \in 1..Len(s) : s[i] \in ToSet(s)
  BY LenProperties DEF ToSet
<1>2. SubSeq(s, 1, Len(s)) \in Seq(ToSet(s))
  BY <1>1, LenProperties, SubSeqProperties
<1> QED BY <1>2, SubSeqFull DEF IsSeq

LEMMA FunctionIsSeq ==
  ASSUME NEW n \in Nat, NEW s, DOMAIN s = 1..n, s = [i \in DOMAIN s |-> s[i]]
  PROVE  IsSeq(s) /\ Len(s) = n
<1>1. s \in [1..n -> ToSet(s)]
  BY DEF ToSet
<1>2. s \in Seq(ToSet(s))
  BY <1>1
<1> QED BY <1>1, <1>2, LenProperties DEF IsSeq

LEMMA SeqLen == ASSUME NEW s, IsSeq(s) PROVE Len(s) \in Nat /\ DOMAIN s = 1..Len(s)
BY LenProperties DEF IsSeq

LEMMA JoinIsSeq ==
  ASSUME NEW a, NEW b, IsSeq(a), IsSeq(b)
  PROVE  /\ IsSeq(a \o b) /\ Len(a \o b) = Len(a) + Len(b)
         /\ \A i \in 1 .. Len(a) + Len(b) :
              (a \o b)[i] = IF i <= Len(a) THEN a[i] ELSE b[i - Len(a)]
<1> DEFINE S == ToSet(a) \cup ToSet(b)
<1>1. a \in Seq(S) /\ b \in Seq(S)
  <2>1. \A i \in 1..Len(a) : a[i] \in S
    BY DEF IsSeq, ToSet
  <2>2. \A i \in 1..Len(b) : b[i] \in S
    BY DEF IsSeq, ToSet
  <2>3. a \in Seq(ToSet(a)) /\ b \in Seq(ToSet(b))
    BY DEF IsSeq
  <2> HIDE DEF S
  <2>4. SubSeq(a, 1, Len(a)) \in Seq(S)
    BY <2>1, <2>3, LenProperties, SubSeqProperties
  <2>5. SubSeq(b, 1, Len(b)) \in Seq(S)
    BY <2>2, <2>3, LenProperties, SubSeqProperties
  <2> QED BY <2>3, <2>4, <2>5, SubSeqFull
<1> HIDE DEF S
<1>2. a \o b \in Seq(S) /\ Len(a \o b) = Len(a) + Len(b)
  BY <1>1, ConcatProperties
<1>3. \A i \in 1 .. Len(a) + Len(b) :
        (a \o b)[i] = IF i <= Len(a) THEN a[i] ELSE b[i - Len(a)]
  BY <1>1, ConcatProperties
<1> QED BY <1>2, <1>3, SeqIsSeq

\* The part of a sequence from m to n.
LEMMA PartIsSeq ==
  ASSUME NEW s, IsSeq(s), NEW m \in Nat \ {0}, NEW n \in Nat, n <= Len(s)
  PROVE  /\ IsSeq(SubSeq(s, m, n))
         /\ Len(SubSeq(s, m, n)) = IF m <= n THEN n - m + 1 ELSE 0
         /\ \A i \in 1 .. n - m + 1 : SubSeq(s, m, n)[i] = s[m + i - 1]
<1>1. s \in Seq(ToSet(s)) /\ Len(s) \in Nat
  BY LenProperties DEF IsSeq
<1>2. \A i \in m..n : s[i] \in ToSet(s)
  BY <1>1, ElementOfSeq
<1>3. /\ SubSeq(s, m, n) \in Seq(ToSet(s))
      /\ Len(SubSeq(s, m, n)) = IF m <= n THEN n - m + 1 ELSE 0
      /\ \A i \in 1 .. n - m + 1 : SubSeq(s, m, n)[i] = s[m + i - 1]
  BY <1>1, <1>2, SubSeqProperties
<1> QED BY <1>3, SeqIsSeq

LEMMA FirstOfIsSeq ==
  ASSUME NEW s, IsSeq(s), NEW n \in Nat
  PROVE  /\ IsSeq(FirstOf(s, n))
         /\ Len(FirstOf(s, n)) = IF Len(s) < n THEN Len(s) ELSE n
         /\ \A i \in 1..Len(FirstOf(s, n)) : FirstOf(s, n)[i] = s[i]
<1> DEFINE m == IF Len(s) < n THEN Len(s) ELSE n
<1>1. Len(s) \in Nat
  BY SeqLen
<1>2. m \in Nat /\ m <= Len(s) /\ FirstOf(s, n) = SubSeq(s, 1, m)
  BY <1>1 DEF FirstOf
<1> HIDE DEF m
<1>3. /\ IsSeq(SubSeq(s, 1, m))
      /\ Len(SubSeq(s, 1, m)) = IF 1 <= m THEN m - 1 + 1 ELSE 0
      /\ \A i \in 1 .. m - 1 + 1 : SubSeq(s, 1, m)[i] = s[1 + i - 1]
  BY <1>2, PartIsSeq
<1>4. Len(SubSeq(s, 1, m)) = m
  BY <1>2, <1>3
<1>5. \A i \in 1..m : SubSeq(s, 1, m)[i] = s[i]
  BY <1>2, <1>3
<1> QED BY <1>2, <1>3, <1>4, <1>5 DEF m

LEMMA LastOfIsSeq ==
  ASSUME NEW s, IsSeq(s), NEW n \in Nat
  PROVE  /\ IsSeq(LastOf(s, n))
         /\ Len(LastOf(s, n)) = IF Len(s) < n THEN Len(s) ELSE n
         /\ \A i \in 1..Len(LastOf(s, n)) : LastOf(s, n)[i] = s[i + Len(s) - Len(LastOf(s, n))]
<1> DEFINE m == IF Len(s) < n THEN 1 ELSE Len(s) - n + 1
<1>1. Len(s) \in Nat
  BY SeqLen
<1>2. m \in Nat \ {0} /\ LastOf(s, n) = SubSeq(s, m, Len(s))
  BY <1>1 DEF LastOf
<1>3. Len(s) - m + 1 = IF Len(s) < n THEN Len(s) ELSE n
  BY <1>1
<1>4. m <= Len(s) + 1
  BY <1>1
<1> HIDE DEF m
<1>5. /\ IsSeq(SubSeq(s, m, Len(s)))
      /\ Len(SubSeq(s, m, Len(s))) = IF m <= Len(s) THEN Len(s) - m + 1 ELSE 0
      /\ \A i \in 1 .. Len(s) - m + 1 : SubSeq(s, m, Len(s))[i] = s[m + i - 1]
  BY <1>1, <1>2, PartIsSeq
<1>6. Len(SubSeq(s, m, Len(s))) = Len(s) - m + 1
  BY <1>1, <1>2, <1>4, <1>5
<1>7. \A i \in 1..Len(SubSeq(s, m, Len(s))) :
        SubSeq(s, m, Len(s))[i] = s[i + Len(s) - Len(SubSeq(s, m, Len(s)))]
  <2> TAKE i \in 1..Len(SubSeq(s, m, Len(s)))
  <2>1. i + Len(s) - Len(SubSeq(s, m, Len(s))) = m + i - 1
    BY <1>1, <1>2, <1>6
  <2> QED BY <1>5, <1>6, <2>1
<1> QED BY <1>2, <1>3, <1>5, <1>6, <1>7

-----------------------------------------------------------------------------
(* Ranking: a finite set in a strict total order is listed from first to last. *)

Orders(before, S) ==
  /\ \A i \in S : <<i, i>> \notin before
  /\ \A i, j \in S : i # j => <<i, j>> \in before \/ <<j, i>> \in before
  /\ \A i, j, k \in S : <<i, j>> \in before /\ <<j, k>> \in before => <<i, k>> \in before

Ahead(S, before, i) == {j \in S : <<j, i>> \in before}

\* What comes before i comes before everything after i, and so does i.
LEMMA AheadGrows ==
  ASSUME NEW S, IsFiniteSet(S), NEW before, Orders(before, S),
         NEW i \in S, NEW j \in S, <<i, j>> \in before
  PROVE  Cardinality(Ahead(S, before, i)) < Cardinality(Ahead(S, before, j))
<1> DEFINE a == Ahead(S, before, i)
           b == Ahead(S, before, j)
<1>1. a \cup {i} \subseteq b /\ i \notin a /\ a \subseteq S /\ b \subseteq S
  BY DEF Ahead, Orders
<1> HIDE DEF a, b
<1>2. IsFiniteSet(a) /\ IsFiniteSet(b)
  BY <1>1, FS_Subset
<1>3. Cardinality(a \cup {i}) = Cardinality(a) + 1
  BY <1>1, <1>2, FS_AddElement
<1>4. Cardinality(a \cup {i}) <= Cardinality(b)
  BY <1>1, <1>2, FS_Subset
<1>5. Cardinality(a) \in Nat /\ Cardinality(b) \in Nat
  BY <1>2, FS_CardinalityType
<1>6. Cardinality(a) < Cardinality(b)
  BY <1>3, <1>4, <1>5
<1> QED BY <1>6 DEF a, b

LEMMA RankedProperties ==
  ASSUME NEW S, IsFiniteSet(S), NEW before, Orders(before, S)
  PROVE  /\ Cardinality(S) \in Nat
         /\ DOMAIN Ranked(S, before) = 1..Cardinality(S)
         /\ \A n \in 1..Cardinality(S) : Ranked(S, before)[n] \in S
         /\ \A i \in S : \E n \in 1..Cardinality(S) : Ranked(S, before)[n] = i
         /\ \A m, n \in 1..Cardinality(S) :
              m < n => <<Ranked(S, before)[m], Ranked(S, before)[n]>> \in before
<1> DEFINE N == Cardinality(S)
           rank(i) == Cardinality(Ahead(S, before, i))
           f == [i \in S |-> rank(i)]
           R == Ranked(S, before)
<1>1. N \in Nat
  BY FS_CardinalityType
<1>2. ASSUME NEW i \in S PROVE rank(i) \in 0 .. N - 1
  <2> DEFINE a == Ahead(S, before, i)
  <2>1. a \subseteq S \ {i}
    BY DEF Ahead, Orders
  <2> HIDE DEF a
  <2>2. IsFiniteSet(S \ {i}) /\ Cardinality(S \ {i}) = N - 1
    BY FS_RemoveElement
  <2>3. IsFiniteSet(a) /\ Cardinality(a) <= N - 1
    BY <2>1, <2>2, FS_Subset
  <2>4. Cardinality(a) \in Nat
    BY <2>3, FS_CardinalityType
  <2>5. Cardinality(a) \in 0 .. N - 1
    BY <1>1, <2>3, <2>4
  <2> QED BY <2>5 DEF a
<1>3. ASSUME NEW i \in S, NEW j \in S, <<i, j>> \in before PROVE rank(i) < rank(j)
  BY <1>3, AheadGrows
<1>4. ASSUME NEW i \in S, NEW j \in S, i # j PROVE rank(i) # rank(j)
  <2>1. <<i, j>> \in before \/ <<j, i>> \in before
    BY <1>4 DEF Orders
  <2>2. rank(i) \in Int /\ rank(j) \in Int
    BY <1>1, <1>2
  <2>3. rank(i) < rank(j) \/ rank(j) < rank(i)
    BY <1>3, <2>1
  <2> HIDE DEF rank
  <2> QED BY <2>2, <2>3
<1>5. \A n \in 1..N : \E i \in S : rank(i) = n - 1
  <2> HIDE DEF rank
  <2>1. f \in Injection(S, 0 .. N - 1)
    BY <1>2, <1>4 DEF Injection, IsInjective
  <2>2. IsFiniteSet(0 .. N - 1) /\ Cardinality(0 .. N - 1) = N
    BY <1>1, FS_Interval
  <2> HIDE DEF f
  <2>3. f \in Surjection(S, 0 .. N - 1)
    BY <2>1, <2>2, FS_Injection
  <2>4. \A m \in 0 .. N - 1 : \E i \in S : f[i] = m
    BY <2>3 DEF Surjection
  <2>5. ASSUME NEW n \in 1..N PROVE \E i \in S : rank(i) = n - 1
    <3>1. n - 1 \in 0 .. N - 1
      BY <1>1
    <3>2. PICK i \in S : f[i] = n - 1
      BY <2>4, <3>1
    <3> QED BY <3>2 DEF f
  <2> QED BY <2>5
<1>6. DOMAIN R = 1..N /\ \A n \in 1..N : R[n] \in S /\ rank(R[n]) = n - 1
  <2>1. R = [n \in 1..N |-> CHOOSE i \in S : rank(i) = n - 1]
    BY DEF Ranked, Ahead
  <2> HIDE DEF R, rank
  <2> QED BY <1>5, <2>1
<1> HIDE DEF N, rank, R
<1>7. ASSUME NEW i \in S PROVE \E n \in 1..N : R[n] = i
  <2>1. rank(i) \in 0 .. N - 1
    BY <1>2
  <2>2. PICK n \in 1..N : n - 1 = rank(i)
    BY <1>1, <2>1
  <2>3. R[n] \in S /\ rank(R[n]) = rank(i)
    BY <1>6, <2>2
  <2> QED BY <1>4, <2>3
<1>8. ASSUME NEW m \in 1..N, NEW n \in 1..N, m < n PROVE <<R[m], R[n]>> \in before
  <2>1. R[m] \in S /\ R[n] \in S /\ rank(R[m]) = m - 1 /\ rank(R[n]) = n - 1
    BY <1>6
  <2>2. rank(R[m]) < rank(R[n])
    BY <1>1, <1>8, <2>1
  <2>3. R[m] # R[n] /\ ~(rank(R[n]) < rank(R[m]))
    BY <1>1, <1>8, <2>1
  <2>4. <<R[n], R[m]>> \notin before
    BY <1>3, <2>1, <2>3
  <2> QED BY <2>1, <2>3, <2>4 DEF Orders
<1>9. /\ N \in Nat /\ DOMAIN R = 1..N /\ \A n \in 1..N : R[n] \in S
      /\ \A i \in S : \E n \in 1..N : R[n] = i
      /\ \A m, n \in 1..N : m < n => <<R[m], R[n]>> \in before
  BY <1>1, <1>6, <1>7, <1>8
<1> QED BY <1>9 DEF N, R

-----------------------------------------------------------------------------
(* Suggestions *)

LEMMA ListOfSet == ASSUME NEW S, IsFiniteSet(S) PROVE IsSeq(SetToSeq(S))
<1> DEFINE n == Cardinality(S)
<1>1. n \in Nat /\ \E f \in [1..n -> S] : IsInjective(f)
  BY FS_CardinalityType DEF ExistsBijection, Bijection, Injection
<1> HIDE DEF n
<1>2. SetToSeq(S) = CHOOSE f \in [1..n -> S] : IsInjective(f)
  BY DEF SetToSeq, n
<1>3. SetToSeq(S) \in [1..n -> S]
  BY <1>1, <1>2
<1>4. SetToSeq(S) \in Seq(S)
  BY <1>1, <1>3
<1> QED BY <1>4, SeqIsSeq

LEMMA ImageIsFinite ==
  ASSUME NEW S, IsFiniteSet(S), NEW f, DOMAIN f = S, f = [x \in S |-> f[x]],
         NEW T \in SUBSET {f[x] : x \in S}
  PROVE  IsFiniteSet(T)
<1> DEFINE U == {f[x] : x \in S}
<1>1. f \in Surjection(S, U)
  BY DEF Surjection
<1> HIDE DEF U
<1>2. IsFiniteSet(U)
  BY <1>1, FS_Surjection
<1> QED BY <1>2, FS_Subset DEF U

\* The rows of an observation and what is taken from them.
LEMMA RowsAreFinite ==
  ASSUME NEW o \in Observation
  PROVE  /\ IsFiniteSet(ToSet(o.rows)) /\ IsFiniteSet({r.target : r \in ToSet(o.rows)})
         /\ IsFiniteSet(o.actions)
<1>1. IsFiniteSet(DOMAIN o.rows) /\ IsFiniteSet(o.actions)
  BY CognitionAssumption
<1>2. IsFiniteSet(ToSet(o.rows))
  <2> DEFINE f == [i \in DOMAIN o.rows |-> o.rows[i]]
  <2>1. DOMAIN f = DOMAIN o.rows /\ f = [x \in DOMAIN o.rows |-> f[x]]
    OBVIOUS
  <2>2. ToSet(o.rows) \in SUBSET {f[x] : x \in DOMAIN o.rows}
    BY DEF ToSet
  <2> HIDE DEF f
  <2> QED BY <1>1, <2>1, <2>2, ImageIsFinite
<1>3. IsFiniteSet({r.target : r \in ToSet(o.rows)})
  <2> DEFINE S == ToSet(o.rows)
             f == [r \in S |-> r.target]
  <2> HIDE DEF S
  <2>1. DOMAIN f = S /\ f = [x \in S |-> f[x]]
    OBVIOUS
  <2>2. {r.target : r \in S} \in SUBSET {f[x] : x \in S}
    OBVIOUS
  <2>3. IsFiniteSet(S)
    BY <1>2 DEF S
  <2> HIDE DEF f
  <2>4. IsFiniteSet({r.target : r \in S})
    BY <2>1, <2>2, <2>3, ImageIsFinite
  <2> QED BY <2>4 DEF S
<1> QED BY <1>1, <1>2, <1>3

LEMMA ListOfPairs ==
  ASSUME NEW S, IsFiniteSet(S), NEW kind PROVE IsSeq(SetToSeq({<<kind, x>> : x \in S}))
<1> DEFINE f == [x \in S |-> <<kind, x>>]
<1>1. DOMAIN f = S /\ f = [x \in S |-> f[x]]
  OBVIOUS
<1>2. {<<kind, x>> : x \in S} \in SUBSET {f[x] : x \in S}
  OBVIOUS
<1> HIDE DEF f
<1>3. IsFiniteSet({<<kind, x>> : x \in S})
  BY <1>1, <1>2, ImageIsFinite
<1> QED BY <1>3, ListOfSet

LEMMA QuestionsAreSeq ==
  ASSUME goals \subseteq Goal, NEW o \in Observation, NEW limit \in Nat
  PROVE  IsSeq(Questions(o, limit))
<1> DEFINE failures(x) == {i \in DOMAIN o.rows : o.rows[i].failed /\ o.rows[i].target = x}
           problem == {r.target : r \in {q \in ToSet(o.rows) : Cardinality(failures(q.target)) > 1}}
           stalled == {g \in goals : o.age[g] > 60 /\ g \in o.stuck}
           remote == IF o.remote = "unreachable" THEN {"remote"} ELSE {}
           untested == o.actions \ {r.action : r \in ToSet(o.rows)}
           ask(kind, subjects) == SetToSeq({<<kind, x>> : x \in subjects})
           all == ask("repeated_problem", problem) \o ask("stalled_goal", stalled)
                  \o ask("provider", remote) \o ask("untested_capability", untested)
<1>1. IsFiniteSet(problem)
  <2>1. problem \subseteq {r.target : r \in ToSet(o.rows)}
    OBVIOUS
  <2> HIDE DEF problem
  <2> QED BY <2>1, RowsAreFinite, FS_Subset
<1>2. IsFiniteSet(stalled)
  <2>1. IsFiniteSet(Goal) /\ stalled \subseteq Goal
    BY CognitionAssumption
  <2> HIDE DEF stalled
  <2> QED BY <2>1, FS_Subset
<1>3. IsFiniteSet(remote)
  BY FS_EmptySet, FS_Singleton
<1>4. IsFiniteSet(untested)
  <2>1. untested \subseteq o.actions
    OBVIOUS
  <2> HIDE DEF untested
  <2> QED BY <2>1, RowsAreFinite, FS_Subset
<1>5. Questions(o, limit) = FirstOf(all, limit)
  BY Zenon DEF Questions
<1> HIDE DEF problem, stalled, remote, untested
<1>6. /\ IsSeq(ask("repeated_problem", problem)) /\ IsSeq(ask("stalled_goal", stalled))
      /\ IsSeq(ask("provider", remote)) /\ IsSeq(ask("untested_capability", untested))
  BY <1>1, <1>2, <1>3, <1>4, ListOfPairs
<1> HIDE DEF ask
<1>7. IsSeq(all)
  BY <1>6, JoinIsSeq
<1> QED BY <1>5, <1>7, FirstOfIsSeq

LEMMA ProposalsAreSeq ==
  ASSUME goals \subseteq Goal, env \in Observation PROVE IsSeq(Proposals)
<1> DEFINE pressing == {k \in {"storage", "memory", "cpu", "thermal"} :
                          latest[k].level \in {"warning", "critical"}}
           old == {g \in goals : env.age[g] > 60}
           if(cond, text) == IF cond THEN <<<<text>>>> ELSE <<>>
           asked == Questions(env, 4)
           repeated == {i \in DOMAIN asked : asked[i][1] = "repeated_problem"}
           standing == {<<k, latest[k].text>> : k \in pressing}
           aged == {<<"active for", g, env.age[g]>> : g \in old}
<1>1. IsSeq(FirstOf(asked, Cardinality(repeated)))
  <2>1. IsSeq(asked)
    BY QuestionsAreSeq
  <2> HIDE DEF asked
  <2>2. DOMAIN asked = 1..Len(asked) /\ Len(asked) \in Nat /\ repeated \subseteq DOMAIN asked
    BY <2>1, SeqLen
  <2> HIDE DEF repeated
  <2>3. IsFiniteSet(repeated)
    <3>1. 1 \in Int /\ Len(asked) \in Int
      BY <2>2
    <3>2. IsFiniteSet(DOMAIN asked)
      BY <2>2, <3>1, FS_Interval, Zenon
    <3> QED BY <2>2, <3>2, FS_Subset
  <2>4. Cardinality(repeated) \in Nat
    BY <2>3, FS_CardinalityType
  <2> QED BY <2>1, <2>4, FirstOfIsSeq
<1>2. IsSeq(SetToSeq(standing))
  <2> DEFINE f == [k \in pressing |-> <<k, latest[k].text>>]
  <2>1. IsFiniteSet({"storage", "memory", "cpu", "thermal"})
    <3> DEFINE named == [i \in 1..4 |-> <<"storage", "memory", "cpu", "thermal">>[i]]
    <3>1. IsFiniteSet(1..4)
      <4>1. 1 \in Int /\ 4 \in Int
        OBVIOUS
      <4> QED BY <4>1, FS_Interval, Zenon
    <3>2. DOMAIN named = 1..4 /\ named = [x \in 1..4 |-> named[x]]
      OBVIOUS
    <3>3. {"storage", "memory", "cpu", "thermal"} \in SUBSET {named[x] : x \in 1..4}
      <4>1. named[1] = "storage" /\ named[2] = "memory" /\ named[3] = "cpu" /\ named[4] = "thermal"
        OBVIOUS
      <4> HIDE DEF named
      <4> QED BY <4>1
    <3> HIDE DEF named
    <3> QED BY <3>1, <3>2, <3>3, ImageIsFinite
  <2>2. pressing \subseteq {"storage", "memory", "cpu", "thermal"}
    OBVIOUS
  <2> HIDE DEF pressing
  <2>3. IsFiniteSet(pressing)
    BY <2>1, <2>2, FS_Subset
  <2>4. DOMAIN f = pressing /\ f = [x \in pressing |-> f[x]]
    OBVIOUS
  <2>5. standing \in SUBSET {f[x] : x \in pressing}
    OBVIOUS
  <2> HIDE DEF f, standing
  <2> QED BY <2>3, <2>4, <2>5, ImageIsFinite, ListOfSet
<1>3. IsSeq(SetToSeq(aged))
  <2> DEFINE f == [g \in old |-> <<"active for", g, env.age[g]>>]
  <2>1. IsFiniteSet(Goal) /\ old \subseteq Goal
    BY CognitionAssumption
  <2> HIDE DEF old
  <2>2. IsFiniteSet(old)
    BY <2>1, FS_Subset
  <2>3. DOMAIN f = old /\ f = [x \in old |-> f[x]]
    OBVIOUS
  <2>4. aged \in SUBSET {f[x] : x \in old}
    OBVIOUS
  <2> HIDE DEF f, aged
  <2> QED BY <2>2, <2>3, <2>4, ImageIsFinite, ListOfSet
<1>4. \A text : IsSeq(<<<<text>>>>)
  <2> TAKE text
  <2>1. <<<<text>>>> \in Seq({<<text>>})
    OBVIOUS
  <2> QED BY <2>1, SeqIsSeq
<1>5. IsSeq(<<>>)
  BY DEF IsSeq, ToSet
<1>6. /\ IsSeq(if(env.experiences > 200, "experience store is large"))
      /\ IsSeq(if(env.keys > 500, "store is large"))
      /\ IsSeq(if(env.remote = "reachable", "provider is reachable"))
  BY <1>4, <1>5
<1>7. Proposals = FirstOf(asked, Cardinality(repeated))
                  \o SetToSeq(standing) \o SetToSeq(aged)
                  \o if(env.experiences > 200, "experience store is large")
                  \o if(env.keys > 500, "store is large")
                  \o if(env.remote = "reachable", "provider is reachable")
  BY Zenon DEF Proposals
<1> HIDE DEF asked, repeated, standing, aged, if
<1>8. IsSeq(FirstOf(asked, Cardinality(repeated)) \o SetToSeq(standing))
  BY <1>1, <1>2, JoinIsSeq
<1>9. IsSeq(FirstOf(asked, Cardinality(repeated)) \o SetToSeq(standing) \o SetToSeq(aged))
  BY <1>3, <1>8, JoinIsSeq
<1> DEFINE named == FirstOf(asked, Cardinality(repeated)) \o SetToSeq(standing) \o SetToSeq(aged)
           large == if(env.experiences > 200, "experience store is large")
           full == if(env.keys > 500, "store is large")
           reachable == if(env.remote = "reachable", "provider is reachable")
<1>10. Proposals = named \o large \o full \o reachable /\ IsSeq(named)
       /\ IsSeq(large) /\ IsSeq(full) /\ IsSeq(reachable)
  BY <1>6, <1>7, <1>9
<1> HIDE DEF named, large, full, reachable
<1>11. IsSeq(named \o large)
  BY <1>10, JoinIsSeq
<1>12. IsSeq(named \o large \o full)
  BY <1>10, <1>11, JoinIsSeq
<1> QED BY <1>10, <1>12, JoinIsSeq

FarApart(s) == IsSeq(s) /\ \A i, j \in 1..Len(s) : i < j /\ s[i] = s[j] => j - i > Window

LEMMA LastOfFarApart ==
  ASSUME NEW s, FarApart(s), NEW n \in Nat PROVE FarApart(LastOf(s, n))
<1> DEFINE q == LastOf(s, n)
           d == Len(s) - Len(q)
<1>1. IsSeq(s) /\ Len(s) \in Nat
  BY SeqLen DEF FarApart
<1>2. /\ IsSeq(q) /\ Len(q) = IF Len(s) < n THEN Len(s) ELSE n
      /\ \A i \in 1..Len(q) : q[i] = s[i + Len(s) - Len(q)]
  BY <1>1, LastOfIsSeq
<1>3. d \in Nat /\ Len(q) \in Nat
  BY <1>1, <1>2
<1>4. \A i \in 1..Len(q) : i + d \in 1..Len(s) /\ q[i] = s[i + d]
  <2> TAKE i \in 1..Len(q)
  <2>1. i + d = i + Len(s) - Len(q) /\ i + d \in 1..Len(s)
    BY <1>1, <1>3
  <2> QED BY <1>2, <2>1
<1> HIDE DEF q, d
<1>5. ASSUME NEW i \in 1..Len(q), NEW j \in 1..Len(q), i < j, q[i] = q[j] PROVE j - i > Window
  <2>1. i + d \in 1..Len(s) /\ j + d \in 1..Len(s) /\ i + d < j + d /\ s[i + d] = s[j + d]
    BY <1>3, <1>4, <1>5
  <2>2. (j + d) - (i + d) > Window
    BY <2>1 DEF FarApart
  <2> QED BY <1>3, <2>2, CognitionAssumption
<1>6. FarApart(q)
  BY <1>2, <1>5 DEF FarApart
<1> QED BY <1>6 DEF q

\* What is among the last n is found there.
LEMMA LastOfHolds ==
  ASSUME NEW s, IsSeq(s), NEW n \in Nat, NEW i \in 1..Len(s), i > Len(s) - n
  PROVE  s[i] \in ToSet(LastOf(s, n))
<1> DEFINE q == LastOf(s, n)
<1>1. /\ IsSeq(q) /\ Len(q) = IF Len(s) < n THEN Len(s) ELSE n
      /\ \A k \in 1..Len(q) : q[k] = s[k + Len(s) - Len(q)]
  BY LastOfIsSeq
<1> HIDE DEF q
<1>2. Len(s) \in Nat /\ Len(q) \in Nat /\ DOMAIN q = 1..Len(q)
  BY <1>1, SeqLen
<1> DEFINE k == i - (Len(s) - Len(q))
<1>3. k \in 1..Len(q) /\ k + Len(s) - Len(q) = i
  BY <1>1, <1>2
<1> HIDE DEF k
<1>4. q[k] = s[i]
  BY <1>1, <1>3
<1>5. s[i] \in ToSet(q)
  BY <1>2, <1>3, <1>4 DEF ToSet
<1> QED BY <1>5 DEF q

LEMMA MergeFarApart ==
  ASSUME NEW old, FarApart(old), NEW new, IsSeq(new) PROVE FarApart(Merge(old, new))
<1> DEFINE near == ToSet(LastOf(old, Window))
           first == {i \in DOMAIN new :
                       new[i] \notin near /\ \A j \in DOMAIN new : j < i => new[j] # new[i]}
           before == {p \in first \X first : p[1] < p[2]}
           order == Ranked(first, before)
           added == [n \in DOMAIN order |-> new[order[n]]]
           s == old \o added
           N == Cardinality(first)
<1>1. Merge(old, new) = LastOf(s, Keep)
  BY Zenon DEF Merge
<1>2. DOMAIN new = 1..Len(new) /\ Len(new) \in Nat /\ IsSeq(old) /\ Len(old) \in Nat
  BY SeqLen DEF FarApart
<1>3. first \subseteq 1..Len(new) /\ IsFiniteSet(first)
  <2>1. first \subseteq 1..Len(new)
    BY <1>2
  <2>2. 1 \in Int /\ Len(new) \in Int
    BY <1>2
  <2>3. IsFiniteSet(1..Len(new))
    BY <2>2, FS_Interval, Zenon
  <2> HIDE DEF first
  <2> QED BY <2>1, <2>3, FS_Subset
<1>4. Orders(before, first)
  <2>1. \A i, j \in first : <<i, j>> \in before <=> i < j
    <3> HIDE DEF first
    <3> QED OBVIOUS
  <2>2. first \subseteq Nat
    BY <1>2, <1>3
  <2> HIDE DEF first, before
  <2> QED BY <2>1, <2>2 DEF Orders
<1>5. /\ N \in Nat /\ DOMAIN order = 1..N
      /\ \A n \in 1..N : order[n] \in first
      /\ \A m, n \in 1..N : m < n => order[m] < order[n]
  <2>1. \A i, j \in first : <<i, j>> \in before => i < j
    <3> HIDE DEF first
    <3> QED OBVIOUS
  <2> HIDE DEF first, before
  <2>2. /\ N \in Nat /\ DOMAIN order = 1..N
        /\ \A n \in 1..N : order[n] \in first
        /\ \A m, n \in 1..N : m < n => <<order[m], order[n]>> \in before
    BY <1>3, <1>4, RankedProperties
  <2> HIDE DEF order, N
  <2> QED BY <2>1, <2>2
<1> HIDE DEF order, N
<1>6. IsSeq(added) /\ Len(added) = N /\ \A n \in 1..N : added[n] = new[order[n]]
  <2>1. DOMAIN added = 1..N /\ added = [i \in DOMAIN added |-> added[i]]
        /\ \A n \in 1..N : added[n] = new[order[n]]
    BY <1>5
  <2> HIDE DEF added
  <2> QED BY <1>5, <2>1, FunctionIsSeq
<1>7. \A n \in 1..N : added[n] \notin near
  BY <1>5, <1>6
<1>8. \A m, n \in 1..N : m < n => added[m] # added[n]
  <2> SUFFICES ASSUME NEW m \in 1..N, NEW n \in 1..N, m < n PROVE added[m] # added[n]
    OBVIOUS
  <2>1. order[m] \in DOMAIN new /\ order[n] \in first /\ order[m] < order[n]
    BY <1>5
  <2>2. new[order[m]] # new[order[n]]
    BY <2>1
  <2> QED BY <1>6, <2>2
<1> HIDE DEF added, first
<1>9. /\ IsSeq(s) /\ Len(s) = Len(old) + N
      /\ \A i \in 1 .. Len(old) + N : s[i] = IF i <= Len(old) THEN old[i] ELSE added[i - Len(old)]
  BY <1>2, <1>6, JoinIsSeq
<1> HIDE DEF s, near
<1>10. ASSUME NEW i \in 1..Len(s), NEW j \in 1..Len(s), i < j, s[i] = s[j] PROVE j - i > Window
  <2>1. CASE j <= Len(old)
    <3>1. i \in 1..Len(old) /\ j \in 1..Len(old) /\ old[i] = old[j]
      BY <1>2, <1>5, <1>9, <1>10, <2>1
    <3> QED BY <1>10, <3>1 DEF FarApart
  <2>2. CASE i <= Len(old) /\ j > Len(old)
    <3>1. i \in 1..Len(old) /\ j - Len(old) \in 1..N /\ old[i] = added[j - Len(old)]
      BY <1>2, <1>5, <1>9, <1>10, <2>2
    <3>2. old[i] \notin near
      BY <1>7, <3>1
    <3>3. ~(i > Len(old) - Window)
      BY <1>2, <3>1, <3>2, LastOfHolds, CognitionAssumption DEF near
    <3> QED BY <1>2, <2>2, <3>1, <3>3, CognitionAssumption
  <2>3. CASE i > Len(old)
    <3>1. i - Len(old) \in 1..N /\ j - Len(old) \in 1..N /\ i - Len(old) < j - Len(old)
      BY <1>2, <1>5, <1>9, <1>10, <2>3
    <3>2. s[i] = added[i - Len(old)] /\ s[j] = added[j - Len(old)]
      BY <1>2, <1>5, <1>9, <1>10, <2>3
    <3>3. added[i - Len(old)] # added[j - Len(old)]
      BY <1>8, <3>1
    <3> QED BY <1>10, <3>2, <3>3
  <2> QED BY <1>2, <1>5, <1>9, <2>1, <2>2, <2>3
<1>11. FarApart(s)
  BY <1>9, <1>10 DEF FarApart
<1> QED BY <1>1, <1>11, LastOfFarApart, CognitionAssumption

-----------------------------------------------------------------------------
(* The queue: what it holds between two notes, and with one note too many.   *)

Scored(q) == IsSeq(q) /\ \A i \in 1..Len(q) : q[i].score \in Int

\* Each taken note is in q, or q is full of notes that are no worse.
HoldsBest(q) ==
  /\ Len(q) <= Capacity
  /\ \A i \in 1..Len(taken) :
       \/ taken[i] \in ToSet(q)
       \/ Len(q) = Capacity /\ \A j \in 1..Len(q) : q[j].score >= taken[i].score

\* The same of q with one note too many, wherever that note stands.
HoldsOneMore(q) ==
  /\ Len(q) <= Capacity + 1
  /\ \A i \in 1..Len(taken) :
       \/ taken[i] \in ToSet(q)
       \/ /\ Len(q) = Capacity + 1
          /\ \E k \in 1..Len(q) : \A j \in 1..Len(q) : j # k => q[j].score >= taken[i].score

Falling(q) == \A i, j \in 1..Len(q) : i < j => q[i].score >= q[j].score

LEMMA ScoreIsInteger == ASSUME NEW s PROVE Score(s) \in Int
BY DEF Score

\* A note joins a queue that held the best.
LEMMA HoldsOneMoreAfterNote ==
  ASSUME Scored(queue), Scored(taken), HoldsBest(queue), NEW note, note.score \in Int,
         queue' = Append(queue, note), taken' = Append(taken, note)
  PROVE  Scored(queue)' /\ Scored(taken)' /\ HoldsOneMore(queue)'
<1>1. ASSUME NEW s, Scored(s)
      PROVE  /\ Len(s) \in Nat /\ Len(Append(s, note)) = Len(s) + 1
             /\ \A i \in 1..Len(s) : Append(s, note)[i] = s[i]
             /\ Append(s, note)[Len(s) + 1] = note
             /\ IsSeq(Append(s, note))
  <2> DEFINE S == ToSet(s) \cup {note}
  <2>1. s \in Seq(ToSet(s)) /\ Len(s) \in Nat
    BY <1>1, LenProperties DEF Scored, IsSeq
  <2>2. \A i \in 1..Len(s) : s[i] \in S
    BY <2>1
  <2>3. note \in S
    OBVIOUS
  <2> HIDE DEF S
  <2>4. SubSeq(s, 1, Len(s)) \in Seq(S)
    BY <2>1, <2>2, SubSeqProperties
  <2>5. s \in Seq(S)
    BY <2>1, <2>4, SubSeqFull
  <2>6. Append(s, note) \in Seq(S) /\ Len(Append(s, note)) = Len(s) + 1
    BY <2>3, <2>5, AppendProperties
  <2>7. \A i \in 1..Len(s) : Append(s, note)[i] = s[i]
    BY <2>1, <2>3, <2>5, AppendProperties
  <2>8. Append(s, note)[Len(s) + 1] = note
    BY <2>1, <2>3, <2>5, AppendProperties
  <2> QED BY <2>1, <2>6, <2>7, <2>8, SeqIsSeq
<1>2. /\ Len(queue) \in Nat /\ Len(queue') = Len(queue) + 1
      /\ \A i \in 1..Len(queue) : queue'[i] = queue[i]
      /\ queue'[Len(queue) + 1] = note /\ IsSeq(queue')
  BY <1>1
<1>3. /\ Len(taken) \in Nat /\ Len(taken') = Len(taken) + 1
      /\ \A i \in 1..Len(taken) : taken'[i] = taken[i]
      /\ taken'[Len(taken) + 1] = note /\ IsSeq(taken')
  BY <1>1
<1>4. \A i \in 1..Len(queue') : i \in 1..Len(queue) \/ i = Len(queue) + 1
  BY <1>2
<1>5. \A i \in 1..Len(taken') : i \in 1..Len(taken) \/ i = Len(taken) + 1
  BY <1>3
<1>6. Scored(queue')
  BY <1>2, <1>4 DEF Scored
<1>7. Scored(taken')
  BY <1>3, <1>5 DEF Scored
<1>8. DOMAIN queue' = 1..Len(queue') /\ DOMAIN queue = 1..Len(queue)
  BY <1>2, SeqLen DEF Scored
<1>9. Capacity \in Nat
  BY CognitionAssumption
<1>10. Len(queue') <= Capacity + 1
  BY <1>2, <1>9 DEF HoldsBest
<1>11. \A x \in ToSet(queue) : x \in ToSet(queue')
  BY <1>2, <1>8 DEF ToSet
<1>12. note \in ToSet(queue')
  BY <1>2, <1>8 DEF ToSet
<1>13. ASSUME NEW i \in 1..Len(taken')
       PROVE  \/ taken'[i] \in ToSet(queue')
              \/ /\ Len(queue') = Capacity + 1
                 /\ \E k \in 1..Len(queue') :
                      \A j \in 1..Len(queue') : j # k => queue'[j].score >= taken'[i].score
  <2>1. CASE i = Len(taken) + 1
    BY <1>3, <1>12, <2>1
  <2>2. CASE i \in 1..Len(taken)
    <3>1. CASE taken[i] \in ToSet(queue)
      BY <1>3, <1>11, <2>2, <3>1
    <3>2. CASE Len(queue) = Capacity /\ \A j \in 1..Len(queue) : queue[j].score >= taken[i].score
      <4>1. Len(queue') = Capacity + 1 /\ Len(queue) + 1 \in 1..Len(queue')
        BY <1>2, <3>2
      <4>2. \A j \in 1..Len(queue') : j # Len(queue) + 1 => queue'[j].score >= taken'[i].score
        BY <1>2, <1>3, <1>4, <2>2, <3>2
      <4> QED BY <4>1, <4>2
    <3> QED BY <2>2, <3>1, <3>2 DEF HoldsBest
  <2> QED BY <1>5, <2>1, <2>2
<1> QED BY <1>6, <1>7, <1>10, <1>13 DEF Scored, HoldsOneMore

\* A queue that is not too long holds the best.
LEMMA ShortHoldsBest ==
  ASSUME NEW q, Scored(q), HoldsOneMore(q), ~(Len(q) > Capacity) PROVE HoldsBest(q)
<1>1. Len(q) \in Nat /\ Capacity \in Nat
  BY SeqLen, CognitionAssumption DEF Scored
<1>2. Len(q) <= Capacity /\ Len(q) # Capacity + 1
  BY <1>1
<1> QED BY <1>2 DEF HoldsOneMore, HoldsBest

\* Sorting rearranges the queue and puts the higher score first.
LEMMA ByScoreProperties ==
  ASSUME NEW q, Scored(q), HoldsOneMore(q)
  PROVE  Scored(ByScore(q)) /\ HoldsOneMore(ByScore(q)) /\ Falling(ByScore(q))
<1> DEFINE D == DOMAIN q
           before == {p \in D \X D : \/ q[p[1]].score > q[p[2]].score
                                     \/ q[p[1]].score = q[p[2]].score /\ p[1] < p[2]}
           order == Ranked(D, before)
           s == [i \in D |-> q[order[i]]]
           N == Cardinality(D)
<1>1. ByScore(q) = s
  BY Zenon DEF ByScore
<1>2. IsSeq(q) /\ Len(q) \in Nat /\ D = 1..Len(q) /\ \A i \in D : q[i].score \in Int
  BY SeqLen DEF Scored
<1>3. IsFiniteSet(D) /\ N = Len(q)
  <2>1. 1 \in Int /\ Len(q) \in Int
    BY <1>2
  <2>2. IsFiniteSet(1..Len(q)) /\ Cardinality(1..Len(q)) = IF 1 > Len(q) THEN 0 ELSE Len(q) - 1 + 1
    BY <2>1, FS_Interval, Zenon
  <2> QED BY <1>2, <2>2
<1> HIDE DEF D, N
<1>4. \A i, j \in D : <<i, j>> \in before <=> \/ q[i].score > q[j].score
                                              \/ q[i].score = q[j].score /\ i < j
  OBVIOUS
<1> HIDE DEF before
<1>5. Orders(before, D)
  <2>1. D \subseteq Nat
    BY <1>2
  <2>2. \A i \in D : <<i, i>> \notin before
    BY <1>2, <1>4, <2>1
  <2>3. \A i, j \in D : i # j => <<i, j>> \in before \/ <<j, i>> \in before
    BY <1>2, <1>4, <2>1
  <2>4. ASSUME NEW i \in D, NEW j \in D, NEW k \in D, <<i, j>> \in before, <<j, k>> \in before
        PROVE  <<i, k>> \in before
    <3>1. q[i].score \in Int /\ q[j].score \in Int /\ q[k].score \in Int
      BY <1>2
    <3> QED BY <1>4, <2>1, <2>4, <3>1
  <2> QED BY <2>2, <2>3, <2>4 DEF Orders
<1>6. /\ DOMAIN order = 1..N /\ \A n \in 1..N : order[n] \in D
      /\ \A i \in D : \E n \in 1..N : order[n] = i
      /\ \A m, n \in 1..N : m < n => <<order[m], order[n]>> \in before
  BY <1>3, <1>5, RankedProperties DEF N
<1> HIDE DEF order
<1>7. D = 1..N /\ N \in Nat
  BY <1>2, <1>3
<1>8. DOMAIN s = 1..N /\ s = [i \in DOMAIN s |-> s[i]] /\ \A i \in 1..N : s[i] = q[order[i]]
  BY <1>7
<1> HIDE DEF s
<1>9. IsSeq(s) /\ Len(s) = N
  BY <1>7, <1>8, FunctionIsSeq
<1>10. Scored(s)
  BY <1>2, <1>6, <1>8, <1>9 DEF Scored
<1>11. Falling(s)
  <2> SUFFICES ASSUME NEW m \in 1..N, NEW n \in 1..N, m < n PROVE s[m].score >= s[n].score
    BY <1>9 DEF Falling
  <2>1. /\ order[m] \in D /\ order[n] \in D
        /\ q[order[m]].score > q[order[n]].score \/ q[order[m]].score = q[order[n]].score
    BY <1>4, <1>6
  <2>2. q[order[m]].score \in Int /\ q[order[n]].score \in Int
    BY <1>2, <2>1
  <2> QED BY <1>8, <2>1, <2>2
<1>12. \A i \in D : q[i] \in ToSet(s)
  BY <1>6, <1>8 DEF ToSet
<1>13. HoldsOneMore(s)
  <2>1. Len(s) <= Capacity + 1
    BY <1>3, <1>9 DEF HoldsOneMore
  <2>2. ASSUME NEW i \in 1..Len(taken), taken[i] \notin ToSet(s)
        PROVE  /\ Len(s) = Capacity + 1
               /\ \E k \in 1..Len(s) : \A j \in 1..Len(s) : j # k => s[j].score >= taken[i].score
    <3>1. taken[i] \notin ToSet(q)
      BY <1>12, <2>2 DEF ToSet, D
    <3>2. PICK c \in 1..Len(q) : \A j \in 1..Len(q) : j # c => q[j].score >= taken[i].score
      BY <3>1 DEF HoldsOneMore
    <3>3. Len(s) = Capacity + 1
      BY <1>3, <1>9, <3>1 DEF HoldsOneMore
    <3>4. PICK k \in 1..N : order[k] = c
      BY <1>2, <1>6, <3>2
    <3>5. ASSUME NEW j \in 1..N, j # k PROVE s[j].score >= taken[i].score
      <4>1. order[j] # order[k]
        <5>1. j < k \/ k < j
          BY <3>5
        <5>2. <<order[j], order[k]>> \in before \/ <<order[k], order[j]>> \in before
          BY <1>6, <5>1
        <5>3. <<order[k], order[k]>> \notin before
          BY <1>5, <1>6 DEF Orders
        <5> QED BY <5>2, <5>3
      <4>2. order[j] \in 1..Len(q)
        BY <1>2, <1>6
      <4> QED BY <1>8, <3>2, <3>4, <4>1, <4>2
    <3> QED BY <1>9, <3>3, <3>4, <3>5
  <2> QED BY <2>1, <2>2 DEF HoldsOneMore
<1> QED BY <1>1, <1>10, <1>11, <1>13

\* The last of a sorted queue that is too long is the one it can lose.
LEMMA CutHoldsBest ==
  ASSUME Scored(taken), NEW q, Scored(q), HoldsOneMore(q), Falling(q), Len(q) > Capacity
  PROVE  Scored(FirstOf(q, Capacity)) /\ HoldsBest(FirstOf(q, Capacity))
<1> DEFINE s == FirstOf(q, Capacity)
<1>1. Capacity \in Nat \ {0} /\ IsSeq(q) /\ Len(q) \in Nat /\ DOMAIN q = 1..Len(q)
  BY CognitionAssumption, SeqLen DEF Scored
<1>2. Len(q) = Capacity + 1
  <2>1. Len(q) <= Capacity + 1
    BY DEF HoldsOneMore
  <2>2. Len(q) \in Nat /\ Capacity \in Nat /\ Len(q) > Capacity
    BY <1>1
  <2> QED BY <2>1, <2>2
<1>3. IsSeq(s) /\ Len(s) = Capacity /\ \A i \in 1..Len(s) : s[i] = q[i]
  BY <1>1, <1>2, FirstOfIsSeq
<1> HIDE DEF s
<1>4. DOMAIN s = 1..Capacity
  BY <1>3, SeqLen
<1>5. Scored(s)
  BY <1>1, <1>2, <1>3 DEF Scored
<1>6. \A i \in 1..Capacity : q[i].score \in Int /\ q[Capacity + 1].score \in Int
                             /\ q[i].score >= q[Capacity + 1].score
  BY <1>1, <1>2 DEF Scored, Falling
<1>7. ASSUME NEW i \in 1..Len(taken), taken[i] \notin ToSet(s)
      PROVE  \A j \in 1..Capacity : s[j].score >= taken[i].score
  <2>1. CASE taken[i] \in ToSet(q)
    <3>1. PICK n \in 1..Len(q) : q[n] = taken[i]
      BY <1>1, <2>1 DEF ToSet
    <3>2. n = Capacity + 1
      <4>1. ~(n \in 1..Capacity)
        BY <1>3, <1>4, <1>7, <3>1 DEF ToSet
      <4> QED BY <1>1, <1>2, <4>1
    <3> QED BY <1>3, <1>6, <3>1, <3>2
  <2>2. CASE taken[i] \notin ToSet(q)
    <3>1. PICK k \in 1..Len(q) : \A j \in 1..Len(q) : j # k => q[j].score >= taken[i].score
      BY <2>2 DEF HoldsOneMore
    <3>2. CASE k = Capacity + 1
      BY <1>1, <1>2, <1>3, <3>1, <3>2
    <3>3. CASE k # Capacity + 1
      <4>1. q[Capacity + 1].score >= taken[i].score
        BY <1>1, <1>2, <3>1, <3>3
      <4>2. k \in 1..Capacity /\ q[k].score >= q[Capacity + 1].score
        BY <1>1, <1>2, <1>6, <3>3
      <4>3. taken[i].score \in Int
        BY DEF Scored
      <4>4. \A j \in 1..Capacity : q[j].score >= taken[i].score
        BY <1>1, <1>2, <1>6, <3>1, <4>1, <4>2, <4>3
      <4> QED BY <1>3, <4>4
    <3> QED BY <3>2, <3>3
  <2> QED BY <2>1, <2>2
<1>8. HoldsBest(s)
  BY <1>1, <1>3, <1>7 DEF HoldsBest
<1> QED BY <1>5, <1>8 DEF s

-----------------------------------------------------------------------------
(* The inductive invariant. *)

\* The queue through the steps of note_signal(), while the threads have not met in it.
QueueInv ==
  /\ DOMAIN at = Thread /\ DOMAIN held = Thread
  /\ ~clashed =>
       /\ \A t, u \in Inside : t = u
       /\ Scored(taken)
       /\ Inside = {} => Scored(queue) /\ HoldsBest(queue)
       /\ \A t \in Inside :
            /\ at[t] # "sorting" => Scored(queue) /\ HoldsOneMore(queue)
            /\ at[t] = "sorting" =>
                 /\ queue = <<>> /\ untouched = TRUE /\ held[t].gone = FALSE
                 /\ Scored(held[t].items) /\ HoldsOneMore(held[t].items)
            /\ at[t] \in {"trim", "cut"} => Falling(queue)
            /\ at[t] = "cut" => Len(queue) > Capacity

TickInv ==
  /\ goals \subseteq Goal /\ env \in Observation
  /\ FarApart(suggestions)
  /\ QueueInv

Steps == {"sort", "sorting", "trim", "cut"}

\* Whatever leaves the notes alone and moves no thread into or out of note_signal().
LEMMA QueueElsewhere ==
  ASSUME QueueInv, UNCHANGED noteVars, DOMAIN at' = Thread,
         \A t \in Thread : at'[t] # at[t] => at[t] \notin Steps /\ at'[t] \notin Steps
  PROVE  QueueInv'
<1>1. Inside' = Inside /\ \A t \in Inside : at'[t] = at[t]
  BY DEF Inside, Steps
<1>2. queue' = queue /\ untouched' = untouched /\ held' = held /\ taken' = taken /\ clashed' = clashed
  BY DEF noteVars
<1>3. /\ Scored(taken') <=> Scored(taken)
      /\ Scored(queue') <=> Scored(queue)
      /\ HoldsBest(queue)' <=> HoldsBest(queue)
      /\ HoldsOneMore(queue)' <=> HoldsOneMore(queue)
      /\ \A t : HoldsOneMore(held[t].items)' <=> HoldsOneMore(held[t].items)
      /\ Falling(queue') <=> Falling(queue)
  BY <1>2 DEF HoldsBest, HoldsOneMore
<1>4. DOMAIN held' = Thread /\ DOMAIN at' = Thread
  BY <1>2 DEF QueueInv
<1>5. ASSUME ~clashed'
      PROVE  /\ \A t, u \in Inside' : t = u
             /\ Scored(taken')
             /\ Inside' = {} => Scored(queue') /\ HoldsBest(queue)'
             /\ \A t \in Inside' :
                  /\ at'[t] # "sorting" => Scored(queue') /\ HoldsOneMore(queue)'
                  /\ at'[t] = "sorting" =>
                       /\ queue' = <<>> /\ untouched' = TRUE /\ held'[t].gone = FALSE
                       /\ Scored(held'[t].items) /\ HoldsOneMore(held[t].items)'
                  /\ at'[t] \in {"trim", "cut"} => Falling(queue')
                  /\ at'[t] = "cut" => Len(queue') > Capacity
  BY <1>1, <1>2, <1>3, <1>5, Zenon DEF QueueInv
<1> QED BY <1>4, <1>5, Zenon DEF QueueInv

LEMMA QueueNote == ASSUME QueueInv, NEW t \in Thread, Note(t) PROVE QueueInv'
<1> DEFINE s == Head(work[t])
           note == [id |-> Len(taken) + 1, kind |-> s.kind, score |-> Score(s)]
<1>1. CASE note.score < 15
  <2>1. UNCHANGED noteVars /\ at' = at
    BY <1>1 DEF Note
  <2>2. DOMAIN at' = Thread /\ \A u \in Thread : at'[u] = at[u]
    BY <2>1 DEF QueueInv
  <2> QED BY <2>1, <2>2, QueueElsewhere
<1>2. CASE ~(note.score < 15)
  <2>1. /\ queue' = Append(queue, note) /\ held' = held
        /\ at' = [at EXCEPT ![t] = "sort"] /\ at[t] = "note"
    BY <1>2, Zenon DEF Note
  <2>2. (clashed \/ Inside # {}) => clashed'
    BY <1>2, Zenon DEF Note
  <2>3. ~clashed' => taken' = Append(taken, note)
    BY <1>2, Zenon DEF Note
  <2>4. note.score \in Int
    BY ScoreIsInteger
  <2> HIDE DEF note
  <2>5. DOMAIN at' = Thread /\ DOMAIN held' = Thread
        /\ \A u \in Thread : at'[u] = IF u = t THEN "sort" ELSE at[u]
    BY <2>1 DEF QueueInv
  <2>6. ASSUME ~clashed'
        PROVE  /\ \A u, v \in Inside' : u = v
               /\ Scored(taken)'
               /\ Inside' = {t} /\ at'[t] = "sort"
               /\ Scored(queue)' /\ HoldsOneMore(queue)'
    <3>1. ~clashed /\ Inside = {}
      BY <2>2, <2>6
    <3>2. Scored(taken) /\ Scored(queue) /\ HoldsBest(queue)
      BY <3>1, Zenon DEF QueueInv
    <3>3. Scored(queue)' /\ Scored(taken)' /\ HoldsOneMore(queue)'
      BY <2>1, <2>3, <2>4, <2>6, <3>2, HoldsOneMoreAfterNote
    <3>4. Inside' = {t} /\ at'[t] = "sort"
      BY <2>5, <3>1 DEF Inside
    <3> QED BY <3>3, <3>4
  <2>7. ASSUME ~clashed', NEW u \in Inside' PROVE at'[u] = "sort"
    BY <2>6, <2>7
  <2>8. ASSUME ~clashed' PROVE Inside' # {}
    BY <2>6, <2>8
  <2> QED BY <2>5, <2>6, <2>7, <2>8 DEF QueueInv
<1> QED BY <1>1, <1>2

\* A thread that is alone in note_signal() goes on to the next step of it.
LEMMA QueueGoesOn ==
  ASSUME QueueInv, NEW t \in Thread, at[t] \in Steps, NEW step \in Steps,
         at' = [at EXCEPT ![t] = step], DOMAIN held' = Thread,
         taken' = taken, clashed' = clashed,
         ~clashed =>
           /\ step # "sorting" => Scored(queue') /\ HoldsOneMore(queue)'
           /\ step = "sorting" =>
                /\ queue' = <<>> /\ untouched' = TRUE /\ held'[t].gone = FALSE
                /\ Scored(held'[t].items) /\ HoldsOneMore(held[t].items)'
           /\ step \in {"trim", "cut"} => Falling(queue')
           /\ step = "cut" => Len(queue') > Capacity
  PROVE  QueueInv'
<1>1. DOMAIN at' = Thread /\ \A u \in Thread : at'[u] = IF u = t THEN step ELSE at[u]
  BY DEF QueueInv
<1>2. t \in Inside
  BY DEF Inside, Steps
<1>3. ASSUME ~clashed' PROVE Inside = {t} /\ Inside' = {t} /\ at'[t] = step /\ Scored(taken)'
  <2>1. Inside = {t} /\ Scored(taken)
    BY <1>2, <1>3, Zenon DEF QueueInv
  <2>2. Inside' = {t}
    BY <1>1, <2>1 DEF Inside, Steps
  <2> QED BY <1>1, <2>1, <2>2
<1>4. ASSUME ~clashed', NEW u \in Inside'
      PROVE  /\ at'[u] # "sorting" => Scored(queue') /\ HoldsOneMore(queue)'
             /\ at'[u] = "sorting" =>
                  /\ queue' = <<>> /\ untouched' = TRUE /\ held'[u].gone = FALSE
                  /\ Scored(held'[u].items) /\ HoldsOneMore(held[u].items)'
             /\ at'[u] \in {"trim", "cut"} => Falling(queue')
             /\ at'[u] = "cut" => Len(queue') > Capacity
  <2>1. u = t /\ at'[u] = step /\ ~clashed
    BY <1>3, <1>4
  <2> QED BY <2>1, Zenon
<1>5. ASSUME ~clashed' PROVE /\ \A u, v \in Inside' : u = v
                             /\ Inside' # {}
  BY <1>3, <1>5
<1> QED BY <1>1, <1>3, <1>4, <1>5, Zenon DEF QueueInv

\* ... or leaves it, and the queue holds the best again.
LEMMA QueueLeaves ==
  ASSUME QueueInv, NEW t \in Thread, at[t] \in Steps,
         at' = [at EXCEPT ![t] = "note"], DOMAIN held' = Thread,
         taken' = taken, clashed' = clashed,
         ~clashed => Scored(queue') /\ HoldsBest(queue)'
  PROVE  QueueInv'
<1>1. DOMAIN at' = Thread /\ \A u \in Thread : at'[u] = IF u = t THEN "note" ELSE at[u]
  BY DEF QueueInv
<1>2. t \in Inside
  BY DEF Inside, Steps
<1>3. ASSUME ~clashed' PROVE Inside' = {} /\ Scored(taken)'
  <2>1. Inside = {t} /\ Scored(taken)
    BY <1>2, <1>3, Zenon DEF QueueInv
  <2>2. Inside' = {}
    BY <1>1, <2>1 DEF Inside, Steps
  <2> QED BY <2>1, <2>2
<1>4. ~clashed' => Scored(queue)' /\ HoldsBest(queue)'
  OBVIOUS
<1> QED BY <1>1, <1>3, <1>4, Zenon DEF QueueInv

\* What the invariant says of the thread that is in note_signal().
LEMMA QueueAt ==
  ASSUME QueueInv, ~clashed, NEW t \in Thread, at[t] \in Steps
  PROVE  /\ Scored(taken)
         /\ at[t] # "sorting" => Scored(queue) /\ HoldsOneMore(queue)
         /\ at[t] = "sorting" =>
              /\ queue = <<>> /\ untouched = TRUE /\ held[t].gone = FALSE
              /\ Scored(held[t].items) /\ HoldsOneMore(held[t].items)
         /\ at[t] \in {"trim", "cut"} => Falling(queue)
         /\ at[t] = "cut" => Len(queue) > Capacity
<1>1. t \in Inside
  BY DEF Inside, Steps
<1> QED BY <1>1, Zenon DEF QueueInv

LEMMA QueueSortBegins ==
  ASSUME QueueInv, NEW t \in Thread, SortBegins(t) PROVE QueueInv'
<1>1. /\ at[t] = "sort" /\ at' = [at EXCEPT ![t] = "sorting"] /\ taken' = taken /\ clashed' = clashed
      /\ queue' = <<>> /\ untouched' = TRUE
      /\ held' = [held EXCEPT ![t] = [items |-> queue, mark |-> untouched, gone |-> FALSE]]
  BY DEF SortBegins
<1>2. at[t] \in Steps /\ "sorting" \in Steps
  BY <1>1 DEF Steps
<1>3. DOMAIN held' = Thread /\ held'[t].gone = FALSE /\ held'[t].items = queue
  BY <1>1 DEF QueueInv
<1>4. ASSUME ~clashed PROVE Scored(held'[t].items) /\ HoldsOneMore(held[t].items)'
  <2>1. Scored(queue) /\ HoldsOneMore(queue)
    <3>1. at[t] # "sorting"
      BY <1>1
    <3> QED BY <1>2, <1>4, <3>1, QueueAt, Zenon
  <2>2. HoldsOneMore(held[t].items)'
    BY <1>1, <1>3, <2>1 DEF HoldsOneMore
  <2> QED BY <1>3, <2>1, <2>2
<1> QED BY <1>1, <1>2, <1>3, <1>4, QueueGoesOn

LEMMA QueueSortEnds ==
  ASSUME QueueInv, NEW t \in Thread, SortEnds(t) PROVE QueueInv'
<1>1. at[t] = "sorting" /\ taken' = taken /\ clashed' = clashed
      /\ held' = [held EXCEPT ![t] = Nothing]
  BY DEF SortEnds
<1>2. at[t] \in Steps /\ DOMAIN held' = Thread
  BY <1>1 DEF Steps, QueueInv
<1>3. CASE clashed
  <2>1. DOMAIN at' = Thread
    BY DEF SortEnds, QueueInv
  <2> QED BY <1>1, <1>2, <1>3, <2>1, Zenon DEF QueueInv
<1>4. CASE ~clashed
  <2>1. /\ queue = <<>> /\ untouched = TRUE /\ held[t].gone = FALSE
        /\ Scored(held[t].items) /\ HoldsOneMore(held[t].items)
    BY <1>1, <1>2, <1>4, QueueAt, Zenon
  <2>2. queue' = ByScore(held[t].items)
    BY <2>1 DEF SortEnds
  <2>3. at' = [at EXCEPT ![t] = "trim"]
    BY <2>1 DEF SortEnds
  <2>4. Scored(queue') /\ HoldsOneMore(queue') /\ Falling(queue')
    BY <2>1, <2>2, ByScoreProperties
  <2>5. HoldsOneMore(queue)'
    BY <1>1, <2>4 DEF HoldsOneMore
  <2>6. "trim" \in Steps /\ "trim" # "sorting" /\ "trim" # "cut"
    BY DEF Steps
  <2> QED BY <1>1, <1>2, <1>4, <2>3, <2>4, <2>5, <2>6, QueueGoesOn
<1> QED BY <1>3, <1>4

LEMMA QueueTrim ==
  ASSUME QueueInv, NEW t \in Thread, Trim(t) PROVE QueueInv'
<1>1. /\ at[t] = "trim" /\ taken' = taken /\ clashed' = clashed /\ queue' = queue /\ held' = held
      /\ at' = [at EXCEPT ![t] = IF Len(queue) > Capacity THEN "cut" ELSE "note"]
  BY DEF Trim, noteVars
<1>2. at[t] \in Steps /\ "cut" \in Steps /\ "cut" # "sorting" /\ DOMAIN held' = Thread
  BY <1>1 DEF Steps, QueueInv
<1>3. ASSUME ~clashed PROVE Scored(queue) /\ HoldsOneMore(queue) /\ Falling(queue)
  <2>1. at[t] # "sorting" /\ at[t] \in {"trim", "cut"}
    BY <1>1
  <2> QED BY <1>2, <1>3, <2>1, QueueAt, Zenon
<1>4. CASE Len(queue) > Capacity
  <2>1. at' = [at EXCEPT ![t] = "cut"]
    BY <1>1, <1>4
  <2>2. ~clashed => Scored(queue') /\ HoldsOneMore(queue)' /\ Falling(queue') /\ Len(queue') > Capacity
    BY <1>1, <1>3, <1>4 DEF HoldsOneMore
  <2> QED BY <1>1, <1>2, <2>1, <2>2, QueueGoesOn
<1>5. CASE ~(Len(queue) > Capacity)
  <2>1. at' = [at EXCEPT ![t] = "note"]
    BY <1>1, <1>5
  <2>2. ASSUME ~clashed PROVE Scored(queue') /\ HoldsBest(queue)'
    <3>1. HoldsBest(queue)
      BY <1>3, <1>5, <2>2, ShortHoldsBest
    <3> QED BY <1>1, <1>3, <2>2, <3>1 DEF HoldsBest
  <2> QED BY <1>1, <1>2, <2>1, <2>2, QueueLeaves
<1> QED BY <1>4, <1>5

LEMMA QueueCut ==
  ASSUME QueueInv, NEW t \in Thread, Cut(t) PROVE QueueInv'
<1>1. /\ at[t] = "cut" /\ taken' = taken /\ clashed' = clashed /\ queue' = FirstOf(queue, Capacity)
      /\ at' = [at EXCEPT ![t] = "note"] /\ DOMAIN held' = Thread
  BY DEF Cut
<1>2. at[t] \in Steps
  BY <1>1 DEF Steps
<1>3. ASSUME ~clashed PROVE Scored(queue') /\ HoldsBest(queue)'
  <2>1. at[t] # "sorting" /\ at[t] \in {"trim", "cut"}
    BY <1>1
  <2>2. /\ Scored(taken) /\ Scored(queue) /\ HoldsOneMore(queue) /\ Falling(queue)
        /\ Len(queue) > Capacity
    BY <1>1, <1>2, <1>3, <2>1, QueueAt, Zenon
  <2>3. Scored(queue') /\ HoldsBest(queue')
    BY <1>1, <2>2, CutHoldsBest
  <2> QED BY <1>1, <2>3 DEF HoldsBest
<1> QED BY <1>1, <1>2, <1>3, QueueLeaves

LEMMA TickInvInit == Init => TickInv
<1> SUFFICES ASSUME Init PROVE TickInv
  OBVIOUS
<1>1. goals = {} /\ env \in Observation
  BY CognitionAssumption DEF Init
<1>2. suggestions = <<>> /\ queue = <<>> /\ taken = <<>>
  BY DEF Init, ProactiveInit, AttentionInit
<1>3. DOMAIN at = Thread /\ DOMAIN held = Thread /\ Inside = {}
  BY DEF Init, AttentionInit, Thread, Inside
<1>4. IsSeq(<<>>) /\ Len(<<>>) = 0
  BY DEF IsSeq, ToSet
<1>5. FarApart(suggestions) /\ Scored(taken) /\ Scored(queue)
  BY <1>2, <1>4 DEF FarApart, Scored
<1>6. HoldsBest(queue)
  BY <1>2, <1>4, CognitionAssumption DEF HoldsBest
<1> QED BY <1>1, <1>3, <1>5, <1>6, Zenon DEF TickInv, QueueInv

LEMMA TickInvStep == TickInv /\ [Next]_vars => TickInv'
<1> SUFFICES ASSUME TickInv, [Next]_vars PROVE TickInv'
  OBVIOUS
<1>1. QueueInv /\ FarApart(suggestions) /\ goals \subseteq Goal /\ env \in Observation
  BY DEF TickInv
<1>2. goals' \subseteq Goal /\ env' \in Observation
  BY <1>1 DEF Next, Tick, Transition, Suggest, OnSignal, Sample, Surface, Noting, Note, SortBegins,
              SortEnds, Trim, Cut, Change, Use, Touch, Pass, vars, outside
<1>3. FarApart(suggestions)'
  <2>1. CASE Suggest
    <3>1. suggestions' = Merge(suggestions, Proposals)
      BY <2>1 DEF Suggest
    <3> QED BY <1>1, <3>1, ProposalsAreSeq, MergeFarApart
  <2>2. CASE ~Suggest
    <3>1. suggestions' = suggestions
      BY <2>2 DEF Next, Tick, Transition, OnSignal, Sample, Surface, Noting, Note, SortBegins,
                  SortEnds, Trim, Cut, Change, Use, Touch, Pass, vars, outside
    <3> QED BY <1>1, <3>1 DEF FarApart
  <2> QED BY <2>1, <2>2
<1>4. QueueInv'
  <2>1. ASSUME NEW t \in Thread, Noting(t) PROVE QueueInv'
    BY <1>1, <2>1, QueueNote, QueueSortBegins, QueueSortEnds, QueueTrim, QueueCut DEF Noting
  <2>2. ASSUME UNCHANGED noteVars, DOMAIN at' = Thread,
               \A t \in Thread : at'[t] # at[t] => at[t] \notin Steps /\ at'[t] \notin Steps
        PROVE  QueueInv'
    BY <1>1, <2>2, QueueElsewhere
  <2>3. DOMAIN at = Thread
    BY <1>1 DEF QueueInv
  <2>4. ASSUME NEW t \in Thread, Sample(t) PROVE QueueInv'
    <3>1. UNCHANGED noteVars /\ at[t] = "sample" /\ at' = [at EXCEPT ![t] = "surface"]
      BY <2>4 DEF Sample
    <3> QED BY <2>2, <2>3, <3>1 DEF Steps
  <2>5. ASSUME NEW t \in Thread, Surface(t) PROVE QueueInv'
    <3>1. UNCHANGED noteVars /\ at[t] = "surface"
          /\ at' = [at EXCEPT ![t] = IF t = "worker" THEN "transition" ELSE "off"]
      BY <2>5 DEF Surface
    <3> QED BY <2>2, <2>3, <3>1 DEF Steps
  <2>6. CASE Transition
    <3>1. UNCHANGED noteVars /\ at["worker"] = "transition" /\ at' = [at EXCEPT !["worker"] = "note"]
      BY <2>6 DEF Transition
    <3> QED BY <2>2, <2>3, <3>1 DEF Steps
  <2>7. CASE Suggest
    <3>1. UNCHANGED noteVars /\ at["worker"] = "note" /\ at' = [at EXCEPT !["worker"] = "rest"]
      BY <2>7 DEF Suggest
    <3> QED BY <2>2, <2>3, <3>1 DEF Steps
  <2>8. CASE Tick
    <3>1. UNCHANGED noteVars /\ at["worker"] = "rest" /\ at' = [at EXCEPT !["worker"] = "sample"]
      BY <2>8 DEF Tick
    <3> QED BY <2>2, <2>3, <3>1 DEF Steps
  <2>9. CASE OnSignal \/ Change \/ Use \/ Touch \/ Pass \/ UNCHANGED vars
    <3>1. UNCHANGED noteVars /\ at' = at
      BY <2>9 DEF OnSignal, Change, Use, Touch, Pass, vars
    <3> QED BY <2>2, <2>3, <3>1
  <2> QED BY <2>1, <2>4, <2>5, <2>6, <2>7, <2>8, <2>9, Zenon DEF Next
<1> QED BY <1>1, <1>2, <1>3, <1>4, Zenon DEF TickInv

LEMMA TickInvHolds == Spec => []TickInv
BY TickInvInit, TickInvStep, PTL DEF Spec

\* The two lists that outlive a tick hold what they should: a note leaves the queue
\* only for better ones unless the tick and the dispatch thread met inside
\* note_signal() (attention.py:62), and _merge() keeps two equal suggestions more
\* than the window apart (proactive.py:109).
THEOREM QueueAndSuggestionsHold == Spec => []ListsHold
<1>1. TickInv => ListsHold
  <2> SUFFICES ASSUME TickInv PROVE ListsHold
    OBVIOUS
  <2>1. QueueKeepsTheBest
    <3> SUFFICES ASSUME ~clashed, Inside = {}, NEW i \in DOMAIN taken
                 PROVE  \/ taken[i] \in ToSet(queue)
                        \/ Len(queue) = Capacity /\ \A j \in DOMAIN queue : queue[j].score >= taken[i].score
      BY DEF QueueKeepsTheBest
    <3>1. Scored(taken) /\ Scored(queue) /\ HoldsBest(queue)
      BY Zenon DEF TickInv, QueueInv
    <3>2. DOMAIN taken = 1..Len(taken) /\ DOMAIN queue = 1..Len(queue)
      BY <3>1, SeqLen DEF Scored
    <3> QED BY <3>1, <3>2 DEF HoldsBest
  <2>2. RepeatsAreFarApart
    <3>1. FarApart(suggestions)
      BY DEF TickInv
    <3>2. DOMAIN suggestions = 1..Len(suggestions)
      BY <3>1, SeqLen DEF FarApart
    <3> QED BY <3>1, <3>2 DEF FarApart, RepeatsAreFarApart
  <2> QED BY <2>1, <2>2 DEF ListsHold
<1> QED BY <1>1, TickInvHolds, PTL

\* The modes that open maintenance, reflection and sleep are never entered, and
\* "idle" only from "constrained": the tick is a running job while it counts the
\* running jobs (orchestration.py:88).
THEOREM TickIsItsOwnLoad == Spec => TickKeepsNodeBusy
<1>1. ASSUME [Next]_vars, mode' # mode
      PROVE  /\ mode' \notin {"sleep", "maintenance", "reflection"}
             /\ (mode' = "idle" => mode = "constrained")
  <2>1. Transition
    BY <1>1 DEF Next, Tick, Suggest, OnSignal, Sample, Surface, Noting, Note, SortBegins,
                SortEnds, Trim, Cut, Change, Use, Touch, Pass, vars, outside, rhythmVars
  <2>2. Target \in {"constrained", "degraded", "active", "background"}
    BY DEF Target, ActiveJobs
  <2>3. mode' = IF ~(mode = "constrained" /\ Target # "constrained") THEN Target
                ELSE IF rested THEN "recovery" ELSE "idle"
    BY <2>1 DEF Transition
  <2> HIDE DEF Target
  <2> QED BY <2>2, <2>3
<1>2. [Next]_vars => [mode' # mode => /\ mode' \notin {"sleep", "maintenance", "reflection"}
                                      /\ (mode' = "idle" => mode = "constrained")]_vars
  BY <1>1
<1> QED BY <1>2, PTL DEF Spec, TickKeepsNodeBusy
=============================================================================
