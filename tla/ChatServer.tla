------------------------------ MODULE ChatServer ------------------------------
(***************************************************************************)
(* A conversation: the page (gui/web/assets/js/screens/chat.js over        *)
(* api.js), the GUI process that answers its requests, each on a thread of *)
(* its own (gui/server.py, a client of the daemon through RemoteKernel),   *)
(* the daemon's serve loop, and the key/value store the history is kept in *)
(* (memory/core.py).  A chat request makes three calls one after the other *)
(* -- read the history, process the goal, write the history back -- and    *)
(* any of them may be answered, time out after 8 s, or find no daemon.     *)
(* A call that timed out is still executed when its turn comes.            *)
(* The transport is that of RpcChannel.tla, here a set of pending calls;   *)
(* what a goal does to the other stores is KnowledgeStore.tla.             *)
(***************************************************************************)
EXTENDS KnowledgeStore

CONSTANTS
  MaxWork,     \* bound on messages, worker's passes and deaths of a daemon together
  MaxTimeouts  \* bound on the calls that time out

ASSUME ChatAssumption == Goal \subseteq Nat /\ MaxWork \in Nat /\ MaxTimeouts \in Nat

Message == Goal  \* what the user says is the text of a goal; numbered in the order they are sent

VARIABLES
  req,       \* where the request of each message is
  local,     \* the history as its thread read it
  shown,     \* what the page shows for it
  up,        \* the daemon is online
  pending,   \* calls with a request file
  answered,  \* calls with a response file, and whether they succeeded
  serving,   \* the call being executed
  store,     \* the history in Memory._data
  file,      \* ... and in memory.json
  timeouts, kills,
  processed, \* history: the messages whose goal was processed to its end
  written,   \* history: the messages whose exchange was ever on disk
  met,       \* history: pairs of messages that were under way together
  blind,     \* history: the messages that did not get the history
  broken     \* history: a crash hit memory.json while it was written

pageVars == <<req, local, shown>>
callVars == <<pending, answered>>
keepVars == <<store, file>>
chatHistory == <<processed, written, met, blind, broken>>
chatVars == <<pageVars, up, callVars, serving, keepVars, timeouts, kills, chatHistory>>
vars == <<storeVars, chatVars>>

Idle == <<>>
Lost == <<0>>  \* a file that does not parse
Call(m, op) == <<m, op>>
Answer(m, op) == answered[Call(m, op)]
Gone == [ok |-> FALSE, history |-> <<>>]
Ops == {"get", "goal", "put"}
Work == passes + kills + Cardinality({m \in Message : req[m] # "typed"})

-----------------------------------------------------------------------------
(* The request's thread, GuiServer._chat(), and what the page makes of it *)

\* RuntimeClient.rpc(): nothing is sent when no daemon holds the lock.
Send(m, op) == /\ pending' = IF up THEN pending \cup {Call(m, op)} ELSE pending
               /\ req' = [req EXCEPT ![m] = op] /\ UNCHANGED shown

\* api.js: 503 {"offline": true} is returned like a document, any other failure thrown.
Fetched(status) == CASE status = 200 -> "document" [] status = 503 -> "offline" [] OTHER -> "error"

\* chat.js looks only for a reply: offline, it shows "Done." (and the orb as offline).
Page(status) == CASE Fetched(status) = "document" -> "reply"
                  [] Fetched(status) = "offline" -> "Done."
                  [] Fetched(status) = "error" -> "snag"

Show(m, status) == /\ shown' = [shown EXCEPT ![m] = Page(status)]
                   /\ req' = [req EXCEPT ![m] = "shown"] /\ UNCHANGED pending

Post(m) ==
  /\ req[m] = "typed" /\ Work < MaxWork /\ \A n \in Message : n < m => req[n] # "typed"
  /\ Send(m, "get")
  /\ LET others == {n \in Message : req[n] \in Ops \/ \E c \in pending : c[1] = n} IN
     met' = met \cup ({m} \X others) \cup (others \X {m})
  /\ UNCHANGED <<storeVars, local, up, answered, serving, keepVars, timeouts, kills, processed,
                 written, blind, broken>>

\* Mutated form: a call waits for its answer, whatever became of the daemon.
WaitForAnswer(m, op, ok) ==
  /\ req[m] = op /\ Call(m, op) \in DOMAIN answered /\ ok = Answer(m, op).ok
  /\ UNCHANGED timeouts

\* A call returns: its answer, or it raises, because no daemon was there to send
\* it to or because the deadline passes (RuntimeOfflineError, RuntimeRpcError).
Returns(m, op, ok) ==
  /\ req[m] = op
  /\ \/ /\ Call(m, op) \in DOMAIN answered /\ ok = Answer(m, op).ok
        /\ UNCHANGED timeouts
     \/ /\ ~ok /\ Call(m, op) \notin DOMAIN answered
        /\ IF up /\ Call(m, op) \in pending
           THEN timeouts < MaxTimeouts /\ timeouts' = timeouts + 1
           ELSE UNCHANGED timeouts

\* Mutated form: the history kept is that of this exchange alone.
ForgetHistory(m, ok) ==
  /\ Returns(m, "get", ok)
  /\ local' = [local EXCEPT ![m] = <<m>>]
  /\ blind' = IF ok THEN blind ELSE blind \cup {m}
  /\ Send(m, "goal")
  /\ UNCHANGED <<storeVars, up, answered, serving, keepVars, kills, processed, written, met, broken>>

\* RemoteStore.get() answers a failed call with the default, here the empty list.
ReadHistory(m, ok) ==
  /\ Returns(m, "get", ok)
  /\ local' = [local EXCEPT ![m] = Append(IF ok THEN Answer(m, "get").history ELSE <<>>, m)]
  /\ blind' = IF ok THEN blind ELSE blind \cup {m}
  /\ Send(m, "goal")
  /\ UNCHANGED <<storeVars, up, answered, serving, keepVars, kills, processed, written, met, broken>>

GoalReturns(m, ok) ==
  /\ Returns(m, "goal", ok)
  /\ IF ok THEN Send(m, "put") ELSE Show(m, 503)
  /\ UNCHANGED <<storeVars, local, up, answered, serving, keepVars, kills, chatHistory>>

\* Mutated form: the reply is shown although the history was not written.
ReplyAnyway(m, ok) ==
  /\ Returns(m, "put", ok)
  /\ Show(m, 200)
  /\ UNCHANGED <<storeVars, local, up, answered, serving, keepVars, kills, chatHistory>>

\* The write is not guarded: when it fails the request does, though the goal is done.
WriteReturns(m, ok) ==
  /\ Returns(m, "put", ok)
  /\ Show(m, IF ok THEN 200 ELSE 500)
  /\ UNCHANGED <<storeVars, local, up, answered, serving, keepVars, kills, chatHistory>>

-----------------------------------------------------------------------------
(* The daemon *)

\* The serve loop takes a call; several in a directory come in any order.
Take(c) ==
  /\ up /\ serving = Idle /\ c \in pending
  /\ serving' = c
  /\ \/ c[2] = "get" /\ UNCHANGED <<todo, keepVars>>
     \/ /\ c[2] = "goal"
        /\ \E failed, fixed \in BOOLEAN : (~failed => fixed) /\
             todo' = [todo EXCEPT !["serve"] = GoalOps(c[1], failed, fixed)]
        /\ UNCHANGED keepVars
     \/ /\ c[2] = "put"
        /\ store' = local[c[1]] /\ file' = Lost  \* put(), and open(.., "w")
        /\ UNCHANGED todo
  /\ UNCHANGED <<files, facts, at, buffer, size, passes, history, pageVars, up, callVars, timeouts,
                 kills, chatHistory>>

\* put() returns when the file is flushed and closed.
Saved ==
  /\ up /\ serving # Idle /\ serving[2] = "put" /\ file = Lost
  /\ file' = store /\ written' = written \cup ToSet(store)
  /\ UNCHANGED <<storeVars, pageVars, up, callVars, serving, store, timeouts, kills, processed, met,
                 blind, broken>>

\* The operation is done, or raised: the response is written, the request removed.
Reply ==
  /\ up /\ serving \in pending /\ at["serve"] = "next"
  /\ \/ serving[2] = "get"
     \/ serving[2] = "goal" /\ todo["serve"] \in {<<>>, <<Do("return")>>}
     \/ serving[2] = "put" /\ file # Lost
  /\ LET result == [ok |-> serving[2] = "goal" => todo["serve"] # <<>>,
                    history |-> IF serving[2] = "get" THEN store ELSE <<>>] IN
     /\ answered' = [c \in DOMAIN answered \cup {serving} |->
                       IF c = serving THEN result ELSE answered[c]]
     /\ processed' = IF serving[2] = "goal" /\ result.ok THEN processed \cup {serving[1]} ELSE processed
  /\ todo' = [todo EXCEPT !["serve"] = <<>>]
  /\ pending' = pending \ {serving} /\ serving' = Idle
  /\ UNCHANGED <<files, facts, at, buffer, size, passes, history, pageVars, up, keepVars, timeouts,
                 kills, written, met, blind, broken>>

\* A shutdown: Kernel.stop() stops the scheduler, then reflects a last time.  A
\* tick that is in the middle of something may outlast the five seconds given.
Stopping == <<0, "stop">>
Shutdown ==
  /\ up /\ serving = Idle /\ Work < MaxWork
  /\ serving' = Stopping
  /\ \E late \in BOOLEAN :
       todo' = [t \in Thread |-> IF t = "serve" THEN <<Do("distil")>>
                                ELSE IF late THEN todo[t] ELSE <<>>]
  /\ at["worker"] = "next"
  /\ UNCHANGED <<files, facts, at, buffer, size, passes, history, pageVars, up, callVars, keepVars,
                 timeouts, kills, chatHistory>>

\* The process ends; memory.json may be half written.
End ==
  /\ up' = FALSE /\ kills' = kills + 1 /\ serving' = Idle
  /\ Reload
  /\ store' = IF file = Lost THEN <<>> ELSE file
  /\ file' = store' /\ broken' = (broken \/ file = Lost)
  /\ UNCHANGED <<pageVars, callVars, timeouts, processed, written, met, blind>>

Exit == serving = Stopping /\ todo["serve"] = <<>> /\ at["serve"] = "next" /\ End
Die == up /\ Work < MaxWork /\ End

\* The launcher or the user starts it again.
Restart ==
  /\ ~up /\ up' = TRUE
  /\ UNCHANGED <<storeVars, pageVars, callVars, serving, keepVars, timeouts, kills, chatHistory>>

WorkerPass == up /\ serving # Stopping /\ Work < MaxWork /\ Pass /\ UNCHANGED chatVars
StoreStep(t) == up /\ Step(t) /\ UNCHANGED chatVars

MemoryInit == store = <<>> /\ file = <<>>

Init ==
  /\ StoreInit /\ MemoryInit
  /\ req = [m \in Message |-> "typed"] /\ local = [m \in Message |-> <<>>]
  /\ shown = [m \in Message |-> ""] /\ up = TRUE
  /\ pending = {} /\ answered = <<>> /\ serving = Idle
  /\ timeouts = 0 /\ kills = 0
  /\ processed = {} /\ written = {} /\ met = {} /\ blind = {} /\ broken = FALSE

Request(m) == Post(m) \/ \E ok \in BOOLEAN : ReadHistory(m, ok) \/ GoalReturns(m, ok) \/ WriteReturns(m, ok)
Serve == (\E c \in pending : Take(c)) \/ Saved \/ Reply \/ Exit \/ StoreStep("serve")
Next == (\E m \in Message : Request(m)) \/ Serve \/ StoreStep("worker") \/ WorkerPass
        \/ Shutdown \/ Die \/ Restart

\* A request's thread and the serve loop are never starved; nobody has to say
\* anything, and a daemon that died need not come back.
Spec == Init /\ [][Next]_vars /\ WF_vars(Serve)
        /\ \A m \in Message : WF_vars(req[m] # "typed" /\ Request(m))

-----------------------------------------------------------------------------
(* What a conversation promises. *)

\* An exchange that was confirmed is missing from the history only if a request
\* met its own, some request did not get to see the history (runtime.py:697), or
\* the daemon died while it wrote memory.json (gui/server.py:387).
HistoryLossHasACause ==
  \A m \in Message : shown[m] = "reply" /\ m \notin ToSet(store) =>
    broken \/ blind # {} \/ \E n \in Message : <<m, n>> \in met

\* A reply is shown only for a goal the daemon processed and an exchange that was
\* on disk, whatever timed out, died or was executed late on the way.
ReplyMeansProcessed ==
  \A m \in Message : shown[m] = "reply" => m \in processed /\ m \in written

\* Every message that is sent gets something shown, daemon or no daemon.
EveryMessageEnds == \A m \in Message : req[m] = "get" ~> req[m] = "shown"

\* knowledge.json mirrors the entries whenever nobody is saving, unless the last
\* saves met each other or one raised; the next save that meets none repairs it.
FileMirrorsKnowledge ==
  ~crossed /\ (\A t \in Thread : at[t] \notin {"collect", "flush"}) => disk = Whole(facts)

\* The log keeps the newest rows, unless a crash hit its rewriting.
NewestRowsAreKept ==
  ~torn /\ (\A t \in Thread : at[t] \notin {"trim", "trimmed"}) => log = LastOf(recorded, Capacity)

\* So the stores the two threads share without a lock hold what they should.
SharedFilesHold == FileMirrorsKnowledge /\ NewestRowsAreKept
=============================================================================
