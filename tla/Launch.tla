------------------------------- MODULE Launch -------------------------------
(***************************************************************************)
(* `buster launch`, buster/launch.py: make the configuration, make sure    *)
(* that a runtime is online, make sure that the interface of this very     *)
(* install answers on the port, and try to show it.  Launches run at the   *)
(* same time, of one install or of two that share the port.                *)
(*                                                                         *)
(* The interface is a process of its own (buster/gui/server.py) that lives *)
(* as long as it can bind the port; the launch that starts it gives it its *)
(* name here.  What ensure_runtime() does in detail is RuntimeSession's;   *)
(* here it is one step on the runtime of ExecBridge, which is the one of   *)
(* the default install: `buster exec present`, with which a launch asks    *)
(* the host to show the interface, is not told which install launched.     *)
(***************************************************************************)
EXTENDS ExecBridge

CONSTANTS
  Launcher,   \* launches; the `present` of one is the invocation it names
  InstallOf,  \* the install each is for
  Home,       \* the default install
  NoGui       \* no process has the port, or a pid file names none

Install == {InstallOf[l] : l \in Launcher} \cup {Home}

ASSUME LaunchAssumption == Launcher \subseteq Exec /\ NoGui \notin Launcher

VARIABLES
  at,         \* where each launch is
  result,     \* how it ended: "ok", "error" (LaunchError), "crashed"
  opened,     \* who showed the interface
  config,     \* config.json: "absent", "empty" while it is written, "whole"
  gui,        \* each interface process
  port,       \* the process that listens on the port
  pidFile     \* the process that gui.pid names

launchVars == <<at, result, opened, config, gui, port, pidFile>>

LaunchInit ==
  /\ at = [l \in Launcher |-> "idle"]
  /\ result = [l \in Launcher |-> "none"]
  /\ opened = [l \in Launcher |-> "nobody"]
  /\ config = [i \in Install |-> "absent"]
  /\ gui = [l \in Launcher |-> "none"]
  /\ port = NoGui
  /\ pidFile = [i \in Install |-> NoGui]

Goto(l, step) == at' = [at EXCEPT ![l] = step] /\ UNCHANGED result
EndAs(l, how) ==
  /\ at' = [at EXCEPT ![l] = "done"]
  /\ result' = [result EXCEPT ![l] = how]

-----------------------------------------------------------------------------
(* The launch *)

\* Config.load(): a file that is not there is made, one that is just being
\* written does not parse.
Load(file) == CASE file = "absent" -> "save" [] file = "empty" -> "ConfigError"
                [] file = "whole" -> "loaded"

\* Config(); the ConfigError is no LaunchError.
LoadConfig(l) ==
  /\ at[l] = "idle"
  /\ LET load == Load(config[InstallOf[l]]) IN
     /\ CASE load = "save" -> Goto(l, "writing")
          [] load = "ConfigError" -> EndAs(l, "crashed")
          [] load = "loaded" -> Goto(l, "runtime")
     /\ config' = IF load = "save"
                  THEN [config EXCEPT ![InstallOf[l]] = "empty"] ELSE config
  /\ UNCHANGED <<opened, gui, port, pidFile, execVars>>

\* save() ends; bootstrap_offline() finds or makes the rest.
WriteConfig(l) ==
  /\ at[l] = "writing"
  /\ Goto(l, "runtime")
  /\ config' = [config EXCEPT ![InstallOf[l]] = "whole"]
  /\ UNCHANGED <<opened, gui, port, pidFile, execVars>>

\* ensure_runtime(): reuse, or start and wait; a runtime that is stopping is
\* waited for.  The other install's runtime is not in the picture.
EnsureRuntime(l) ==
  /\ at[l] = "runtime"
  /\ \/ /\ InstallOf[l] # Home \/ runtime = "running"
        /\ Goto(l, "ping") /\ UNCHANGED execVars
     \/ InstallOf[l] = Home /\ Start /\ Goto(l, "ping")
     \/ EndAs(l, "error") /\ UNCHANGED execVars
  /\ UNCHANGED <<opened, config, gui, port, pidFile>>

\* Mutated form: whatever answers is taken for this install's interface.
AnyInstall(l) == port # NoGui

\* gui_ping() and _same_install()
SameInstall(l) == port # NoGui /\ InstallOf[port] = InstallOf[l]

Ping(l) ==
  /\ at[l] = "ping"
  /\ CASE port = NoGui -> Goto(l, "spawn")
       [] port # NoGui /\ SameInstall(l) -> Goto(l, "open")
       [] OTHER -> EndAs(l, "error")
  /\ UNCHANGED <<opened, config, gui, port, pidFile, execVars>>

SpawnGui(l) ==
  /\ at[l] = "spawn"
  /\ Goto(l, "pid")
  /\ gui' = [gui EXCEPT ![l] = "starting"]
  /\ UNCHANGED <<opened, config, port, pidFile, execVars>>

\* The child's pid is written before the child is known to serve.
WritePid(l) ==
  /\ at[l] = "pid"
  /\ Goto(l, "watch")
  /\ pidFile' = [pidFile EXCEPT ![InstallOf[l]] = l]
  /\ UNCHANGED <<opened, config, gui, port, execVars>>

\* Any interface of this install that answers will do, even when the child
\* has lost the port to another launch's; a dead child or 30 s are the end.
Watch(l) ==
  /\ at[l] = "watch"
  /\ \/ SameInstall(l) /\ Goto(l, "open")
     \/ ~SameInstall(l) /\ EndAs(l, "error")
  /\ UNCHANGED <<opened, config, gui, port, pidFile, execVars>>

\* open_ui(): not at all, or by a binary of the host, or by the bridge.
Open(l) ==
  /\ at[l] = "open"
  /\ \/ EndAs(l, "ok") /\ UNCHANGED <<opened, execVars>>
     \/ /\ EndAs(l, "ok") /\ opened' = [opened EXCEPT ![l] = "host"]
        /\ UNCHANGED execVars
     \/ Goto(l, "present") /\ Invoke(l, "present", NoArg) /\ UNCHANGED opened
  /\ UNCHANGED <<config, gui, port, pidFile>>

\* _present_via_bridge() reads the document.
Ready(l) == out[l].code = 0 /\ out[l].live

\* Not ready, or not in 20 s: a desktop opener, or the printed URL.
Present(l) ==
  /\ at[l] = "present"
  /\ EndAs(l, "ok")
  /\ \/ /\ proc[l].at = "done" /\ Ready(l)
        /\ opened' = [opened EXCEPT ![l] = "bridge"]
     \/ /\ proc[l].at = "done" => ~Ready(l)
        /\ \E who \in {"desktop", "nobody"} : opened' = [opened EXCEPT ![l] = who]
  /\ UNCHANGED <<config, gui, port, pidFile, execVars>>

LaunchStep(l) ==
  \/ LoadConfig(l) \/ WriteConfig(l) \/ EnsureRuntime(l) \/ Ping(l) \/ SpawnGui(l)
  \/ WritePid(l) \/ Watch(l) \/ Open(l) \/ Present(l)

-----------------------------------------------------------------------------
(* The interface processes *)

\* GuiServer(): the second to bind the port fails.
Bind(l) ==
  /\ gui[l] = "starting"
  /\ IF port = NoGui
     THEN port' = l /\ gui' = [gui EXCEPT ![l] = "serving"]
     ELSE gui' = [gui EXCEPT ![l] = "dead"] /\ UNCHANGED port
  /\ UNCHANGED <<at, result, opened, config, pidFile, execVars>>

GuiDies(l) ==
  /\ gui[l] = "serving" /\ deaths < MaxDeaths
  /\ gui' = [gui EXCEPT ![l] = "crashed"]
  /\ port' = NoGui /\ deaths' = deaths + 1
  /\ UNCHANGED <<at, result, opened, config, pidFile, guestVars, inbox, response,
                 runtime, copies, served, performed>>
=============================================================================
