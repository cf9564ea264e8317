----------------------------- MODULE RemoteCall -----------------------------
(***************************************************************************)
(* What a caller of the daemon may rely on, with no files and no daemon: a *)
(* call is refused before it has any effect, or it is opened and its       *)
(* effect happens; an answer follows the effect; after an unknown end the  *)
(* effect may still come.  It comes once, unless the daemon was cut off    *)
(* between the effect and the end of the call.                             *)
(***************************************************************************)
CONSTANT Req

VARIABLES
  state,     \* "new", "open", "answered", "unknown" or "refused"
  done,      \* calls whose effect has happened
  repeated,  \* calls whose effect has happened more than once
  cut        \* calls the daemon was cut off in after their effect

vars == <<state, done, repeated, cut>>

Init == state = [r \in Req |-> "new"] /\ done = {} /\ repeated = {} /\ cut = {}

Move(r, from, to) == /\ state[r] = from
                     /\ state' = [state EXCEPT ![r] = to]
                     /\ UNCHANGED <<done, repeated, cut>>

Open(r)   == Move(r, "new", "open")
Refuse(r) == Move(r, "new", "refused")
Answer(r) == r \in done /\ Move(r, "open", "answered")
GiveUp(r) == Move(r, "open", "unknown")

Perform(r) == /\ state[r] \in {"open", "unknown"} /\ r \notin done
              /\ done' = done \cup {r}
              /\ UNCHANGED <<state, repeated, cut>>

CutOff(r) == /\ r \in done
             /\ cut' = cut \cup {r}
             /\ UNCHANGED <<state, done, repeated>>

Repeat(r) == /\ r \in cut
             /\ repeated' = repeated \cup {r}
             /\ UNCHANGED <<state, done, cut>>

Next == \E r \in Req : \/ Open(r) \/ Refuse(r) \/ Answer(r) \/ GiveUp(r)
                       \/ Perform(r) \/ CutOff(r) \/ Repeat(r)

Spec == Init /\ [][Next]_vars
=============================================================================
