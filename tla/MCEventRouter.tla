--------------------------- MODULE MCEventRouter ---------------------------
(* Small instances of EventRouter.                                         *)
EXTENDS EventRouter, TLC

Interchangeable == Permutations(Event) \cup Permutations(Handler)
                     \cup Permutations(Worker)
=============================================================================
