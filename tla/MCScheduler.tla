---------------------------- MODULE MCScheduler ----------------------------
(* A small instance of Scheduler: a periodic and a one-shot job.           *)
EXTENDS Scheduler

CONSTANTS beat, once

MCPair == {beat, once}
MCRank == [j \in Job |-> IF j = beat THEN 1 ELSE 0]
=============================================================================
