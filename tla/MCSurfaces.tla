----------------------------- MODULE MCSurfaces -----------------------------
(***************************************************************************)
(* At most two of: two calls of the app; an invocation by another          *)
(* principal, which asks for the verbs the app does not have; launches of  *)
(* the default install and of another, which share the port.  One periodic *)
(* and one kernel service; one death or stop of a runtime or an interface. *)
(***************************************************************************)
EXTENDS Surfaces, TLC

MCInstallOf == (4 :> "home") @@ (5 :> "home") @@ (6 :> "other")

MCAsked ==
  {<<"service-restart", "pulse">>, <<"service-start", "scheduler">>,
   <<"service-restart", "ghost">>, <<"service-status", "ghost">>,
   <<"service-start", "malformed">>,
   <<"present", "none">>, <<"read", "goals">>, <<"ping", "none">>}
=============================================================================
