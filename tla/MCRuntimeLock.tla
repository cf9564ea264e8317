--------------------------- MODULE MCRuntimeLock ---------------------------
(* Small instances of RuntimeLock.                                         *)
EXTENDS RuntimeLock, TLC

Interchangeable == Permutations(Daemon)
=============================================================================
