-------------------------- MODULE MCRuntimeSession ---------------------------
(* Scripts of one and of two operators. *)
EXTENDS RuntimeSession, TLC
CONSTANTS a, b
LaunchOnce == (a :> <<"start", "launch">>)
StopAndLaunch == (a :> <<"start", "stop", "start">> @@ b :> <<"launch">>)
=============================================================================
