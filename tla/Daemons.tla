------------------------------- MODULE Daemons --------------------------------
(* The processes that RuntimeLock and RpcChannel are about. *)
EXTENDS Integers, FiniteSets

CONSTANTS
  Daemon,      \* daemon processes that are ever spawned
  MaxCrashes   \* bound on the daemons that are killed or crash

ASSUME DaemonsAssumption == MaxCrashes \in Nat
=============================================================================
