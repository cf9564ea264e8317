------------------------ MODULE MCCapabilityDispatch -------------------------
(* A plain action, two sensitive ones of which the configuration lets one    *)
(* through, and one nobody provides; rules with and without a scope.         *)
EXTENDS CapabilityDispatch
CONSTANTS read, delete, install, bogus, home
MCAction == {read, delete, install, bogus}
MCProvided == {read, delete, install}
MCSensitive == {delete, install}
MCScope == {home}
MCRules == { [action |-> read, allow |-> TRUE, scope |-> home],
             [action |-> delete, allow |-> TRUE, scope |-> home],
             [action |-> delete, allow |-> FALSE, scope |-> NoScope] }
=============================================================================
