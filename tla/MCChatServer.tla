---------------------------- MODULE MCChatServer -----------------------------
(* Two messages of one session, or one while the worker's tick reflects or *)
(* consolidates; one call times out and one daemon dies.                   *)
EXTENDS ChatServer
CONSTANT t1
SameText == [m \in {1, 2} |-> t1]
=============================================================================
