----------------------------- MODULE EventRouter -----------------------------
(***************************************************************************)
(* The kernel's event bus, buster/kernel/event_router.py: emit() puts an   *)
(* event on a FIFO queue, one dispatch thread calls the handlers,          *)
(* emit_sync() calls them on the emitting thread, and stop() ends the      *)
(* dispatch thread with a flag and a sentinel.                             *)
(*                                                                         *)
(* One step per queue operation, per test of self._running and per handler *)
(* call.  There is one event type (the types do not interact); handlers    *)
(* may raise, which the caller of the handler swallows either way, so the  *)
(* outcome of a handler is not part of the state.                          *)
(***************************************************************************)
EXTENDS Integers, Sequences

CONSTANTS
  Event,        \* events that are ever emitted
  Handler,      \* subscribers; each handler object is subscribed once at most
  Worker,       \* dispatch threads start() may create
  STOP,         \* _STOP_SENTINEL
  NoEvent,      \* no event in hand
  NoWorker,     \* self._worker_thread before the first start()
  MaxStarts,    \* bound on the calls of start() that start a thread
  LongHandlers  \* TRUE when a handler may outlast stop()'s join(timeout=5.0)

ASSUME RouterAssumption ==
  /\ STOP \notin Event /\ NoEvent \notin Event /\ NoWorker \notin Worker
  /\ MaxStarts \in Nat /\ LongHandlers \in BOOLEAN

VARIABLES
  running,    \* self._running
  thread,     \* self._worker_thread
  stopper,    \* where the caller of stop() is: "none", "put" or "join"
  starts,     \* number of threads started
  inbox,      \* self._event_queue
  subs,       \* the handlers subscribed
  pc,         \* where each dispatch thread is
  hand,       \* the event it has taken
  stage,      \* what has become of each event
  todo,       \* the copy of the handler list that is being worked off
  calls,      \* history: how often each handler was called with each event
  owed        \* history: handlers subscribed since the event was emitted

control == <<running, thread, stopper, starts>>
hands == <<pc, hand>>
routerVars == <<control, inbox, subs, hands, stage, todo, calls, owed>>

Stages == {"new", "checked", "queued", "taken", "handled", "dropped", "sync",
           "returned"}

RouterInit ==
  /\ running = FALSE /\ thread = NoWorker /\ stopper = "none" /\ starts = 0
  /\ inbox = <<>>
  /\ subs = {}
  /\ pc = [w \in Worker |-> "dead"]
  /\ hand = [w \in Worker |-> NoEvent]
  /\ stage = [e \in Event |-> "new"]
  /\ todo = [e \in Event |-> {}]
  /\ calls = [e \in Event |-> [h \in Handler |-> 0]]
  /\ owed = [e \in Event |-> {}]

-----------------------------------------------------------------------------
(* start(), stop(), subscribe(), unsubscribe()                             *)

Start(w) ==
  /\ ~running /\ stopper = "none"
  /\ starts < MaxStarts
  /\ pc[w] = "dead"
  /\ running' = TRUE /\ thread' = w /\ starts' = starts + 1
  /\ pc' = [pc EXCEPT ![w] = "loop"]
  /\ UNCHANGED <<stopper, inbox, subs, hand, stage, todo, calls, owed>>

Stop ==
  /\ running
  /\ running' = FALSE /\ stopper' = "put"
  /\ UNCHANGED <<thread, starts, inbox, subs, hands, stage, todo, calls,
                 owed>>

StopPut ==
  /\ stopper = "put"
  /\ inbox' = Append(inbox, STOP)
  /\ stopper' = "join"
  /\ UNCHANGED <<running, thread, starts, subs, hands, stage, todo, calls,
                 owed>>

\* join(timeout=5.0): the thread has ended, or is inside a long handler.
StopReturns ==
  /\ stopper = "join"
  /\ pc[thread] = "dead" \/ (LongHandlers /\ pc[thread] = "deliver")
  /\ stopper' = "none"
  /\ UNCHANGED <<running, thread, starts, inbox, subs, hands, stage, todo,
                 calls, owed>>

Subscribe(h) ==
  /\ h \notin subs
  /\ subs' = subs \cup {h}
  /\ UNCHANGED <<control, inbox, hands, stage, todo, calls, owed>>

Unsubscribe(h) ==
  /\ h \in subs
  /\ subs' = subs \ {h}
  /\ owed' = [e \in Event |-> owed[e] \ {h}]
  /\ UNCHANGED <<control, inbox, hands, stage, todo, calls>>

-----------------------------------------------------------------------------
(* emit() and emit_sync()                                                  *)

\* emit(): the flag is tested; a stopped router drops the event.
EmitCheck(e) ==
  /\ stage[e] = "new"
  /\ stage' = [stage EXCEPT ![e] = IF running THEN "checked" ELSE "dropped"]
  /\ UNCHANGED <<control, inbox, subs, hands, todo, calls, owed>>

\* The put is a separate step: the router may have stopped in between.
EmitPut(e) ==
  /\ stage[e] = "checked"
  /\ stage' = [stage EXCEPT ![e] = "queued"]
  /\ inbox' = Append(inbox, e)
  /\ owed' = [owed EXCEPT ![e] = subs]
  /\ UNCHANGED <<control, subs, hands, todo, calls>>

\* emit_sync() copies the handlers under the lock, running or not.
EmitSync(e) ==
  /\ stage[e] = "new"
  /\ stage' = [stage EXCEPT ![e] = "sync"]
  /\ todo' = [todo EXCEPT ![e] = subs]
  /\ owed' = [owed EXCEPT ![e] = subs]
  /\ UNCHANGED <<control, inbox, subs, hands, calls>>

CallHandler(e, h) ==
  /\ h \in todo[e]
  /\ todo' = [todo EXCEPT ![e] = @ \ {h}]
  /\ calls' = [calls EXCEPT ![e][h] = @ + 1]

SyncCall(e) ==
  /\ stage[e] = "sync"
  /\ \E h \in Handler : CallHandler(e, h)
  /\ UNCHANGED <<control, inbox, subs, hands, stage, owed>>

SyncReturn(e) ==
  /\ stage[e] = "sync" /\ todo[e] = {}
  /\ stage' = [stage EXCEPT ![e] = "returned"]
  /\ UNCHANGED <<control, inbox, subs, hands, todo, calls, owed>>

-----------------------------------------------------------------------------
(* _event_loop()                                                           *)

Loop(w) ==
  /\ pc[w] = "loop"
  /\ pc' = [pc EXCEPT ![w] = IF running THEN "get" ELSE "dead"]
  /\ UNCHANGED <<control, inbox, subs, hand, stage, todo, calls, owed>>

\* get(timeout=0.1): nothing there, the sentinel, or an event.
Get(w) ==
  /\ pc[w] = "get"
  /\ \/ /\ inbox = <<>>
        /\ pc' = [pc EXCEPT ![w] = "loop"]
        /\ UNCHANGED <<inbox, hand, stage>>
     \/ /\ inbox # <<>> /\ Head(inbox) = STOP
        /\ inbox' = Tail(inbox)
        /\ pc' = [pc EXCEPT ![w] = "dead"]
        /\ UNCHANGED <<hand, stage>>
     \/ /\ inbox # <<>> /\ Head(inbox) # STOP
        /\ inbox' = Tail(inbox)
        /\ hand' = [hand EXCEPT ![w] = Head(inbox)]
        /\ stage' = [stage EXCEPT ![Head(inbox)] = "taken"]
        /\ pc' = [pc EXCEPT ![w] = "copy"]
  /\ UNCHANGED <<control, subs, todo, calls, owed>>

\* Mutated form: the list itself is iterated, with what is added meanwhile.
CopyAgain(w) ==
  /\ pc[w] \in {"copy", "deliver"}
  /\ pc[w] = "deliver" => todo[hand[w]] # subs
  /\ todo' = [todo EXCEPT ![hand[w]] = subs]
  /\ pc' = [pc EXCEPT ![w] = "deliver"]
  /\ UNCHANGED <<control, inbox, subs, hand, stage, calls, owed>>

\* handlers = list(...) under the lock.
Copy(w) ==
  /\ pc[w] = "copy"
  /\ todo' = [todo EXCEPT ![hand[w]] = subs]
  /\ pc' = [pc EXCEPT ![w] = "deliver"]
  /\ UNCHANGED <<control, inbox, subs, hand, stage, calls, owed>>

\* Mutated form: an exception of a handler ends the dispatch thread.
DeliverDies(w) ==
  /\ pc[w] = "deliver"
  /\ \/ \E h \in Handler : CallHandler(hand[w], h) /\ UNCHANGED pc
     \/ /\ todo[hand[w]] # {}
        /\ pc' = [pc EXCEPT ![w] = "dead"]
        /\ UNCHANGED <<todo, calls>>
  /\ UNCHANGED <<control, inbox, subs, hand, stage, owed>>

Deliver(w) ==
  /\ pc[w] = "deliver"
  /\ \E h \in Handler : CallHandler(hand[w], h)
  /\ UNCHANGED <<control, inbox, subs, hands, stage, owed>>

NextEvent(w) ==
  /\ pc[w] = "deliver" /\ todo[hand[w]] = {}
  /\ stage' = [stage EXCEPT ![hand[w]] = "handled"]
  /\ hand' = [hand EXCEPT ![w] = NoEvent]
  /\ pc' = [pc EXCEPT ![w] = "loop"]
  /\ UNCHANGED <<control, inbox, subs, todo, calls, owed>>

WorkerStep(w) == Loop(w) \/ Get(w) \/ Copy(w) \/ Deliver(w) \/ NextEvent(w)
EmitStep(e) == EmitPut(e) \/ SyncCall(e) \/ SyncReturn(e)

RouterNext ==
  \/ Stop \/ StopPut \/ StopReturns
  \/ \E w \in Worker : Start(w) \/ WorkerStep(w)
  \/ \E h \in Handler : Subscribe(h) \/ Unsubscribe(h)
  \/ \E e \in Event : EmitCheck(e) \/ EmitSync(e) \/ EmitStep(e)

RouterSpec == RouterInit /\ [][RouterNext]_routerVars

\* The dispatch thread and a thread inside emit(), emit_sync() or stop() are
\* scheduled, and handlers return.  Nobody has to emit, subscribe or stop.
FairSpec == /\ RouterSpec
            /\ WF_routerVars(StopPut) /\ WF_routerVars(StopReturns)
            /\ \A w \in Worker : WF_routerVars(WorkerStep(w))
            /\ \A e \in Event : WF_routerVars(EmitStep(e))

-----------------------------------------------------------------------------
(* Properties.                                                             *)

TypeOK ==
  /\ running \in BOOLEAN
  /\ thread \in Worker \cup {NoWorker}
  /\ stopper \in {"none", "put", "join"}
  /\ starts \in Nat
  /\ inbox \in Seq(Event \cup {STOP})
  /\ subs \subseteq Handler
  /\ pc \in [Worker -> {"dead", "loop", "get", "copy", "deliver"}]
  /\ hand \in [Worker -> Event \cup {NoEvent}]
  /\ \A w \in Worker : hand[w] = NoEvent <=> pc[w] \notin {"copy", "deliver"}
  /\ stage \in [Event -> Stages]
  /\ todo \in [Event -> SUBSET Handler]
  /\ calls \in [Event -> [Handler -> Nat]]
  /\ owed \in [Event -> SUBSET Handler]

\* No handler sees an event twice: not when subscribers come and go while it
\* is delivered, and not when stop() leaves a second dispatch thread behind.
DeliveredOnce == \A e \in Event, h \in Handler : calls[e][h] <= 1

\* An event that was handled, or whose emit_sync() returned, has reached every
\* handler subscribed all along: one that raises starves no other, and no
\* concurrent subscribe or unsubscribe makes the loop skip one.
NoSubscriberMissed ==
  \A e \in Event : stage[e] \in {"handled", "returned"} =>
    \A h \in owed[e] : calls[e][h] > 0

\* An event is in one place: once in the queue when queued, else not at all;
\* in one thread's hand when taken.
Queued(e) == {i \in 1 .. Len(inbox) : inbox[i] = e}
Accounted ==
  \A e \in Event :
    /\ stage[e] = "queued" <=> Queued(e) # {}
    /\ \A i, k \in Queued(e) : i = k
    /\ stage[e] = "taken" => \E w \in Worker : hand[w] = e
    /\ \A v, w \in Worker : hand[v] = e /\ hand[w] = e => v = w

\* What the router owes to publishers and subscribers in every state: an event is
\* somewhere, nobody sees it twice, and who was there all along has seen it.
Delivery == DeliveredOnce /\ NoSubscriberMissed /\ Accounted

\* Until stop() is called for the first time, every queued event is handled,
\* whatever the handlers raise.  (After a restart it need not be: the sentinel of
\* the stop may still be in the queue, and ends the new dispatch thread.)
QueuedIsHandled ==
  \A e \in Event : (stage[e] = "queued" /\ running /\ starts = 1)
                     ~> (stage[e] = "handled" \/ ~running)

=============================================================================
