----------------------------- MODULE Permissions -----------------------------
(***************************************************************************)
(* The decision procedure of kernel/permissions.py: a set of rules, each   *)
(* allowing or denying one action, everywhere or in one scope.  The code   *)
(* keeps a list; its order never matters to check(), which looks for a     *)
(* deny first and for an allow second.  No evaluator is registered by the  *)
(* program, so the decision ends with "denied by default".                 *)
(***************************************************************************)
CONSTANTS Action, Scope, NoScope   \* NoScope: a rule, or a call, without a scope

Rule == [action : Action, allow : BOOLEAN, scope : Scope \cup {NoScope}]

\* not rule.scope or (scope is not None and rule.scope == scope)
Applies(r, a, s) ==
    /\ r.action = a
    /\ \/ r.scope = NoScope
       \/ s # NoScope /\ r.scope = s

Denied(rules, a, s) == \E r \in rules : Applies(r, a, s) /\ ~r.allow

\* Permissions.check(): any deny that applies wins, then any allow, then no.
Allowed(rules, a, s) ==
    /\ ~Denied(rules, a, s)
    /\ \E r \in rules : Applies(r, a, s) /\ r.allow
=============================================================================
