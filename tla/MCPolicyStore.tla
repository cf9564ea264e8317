---------------------------- MODULE MCPolicyStore ----------------------------
(* Two rules, two values of the other setting. *)
EXTENDS PolicyStore, TLC
CONSTANTS r1, r2, v0, v1
MCRules == {r1, r2}
MCSettings == {v0, v1}
=============================================================================
