----------------------------- MODULE PolicyStore -----------------------------
(***************************************************************************)
(* How permission rules reach config.json and come back: Permissions       *)
(* (grant, deny, _notify, from_rules), Config (load, set_nested, save) and *)
(* the two kinds of process that write the file -- the runtime daemon,     *)
(* which keeps the whole document in memory from its start, and            *)
(* `buster config <key> <value>`, which loads, edits and saves it.         *)
(*                                                                         *)
(* Config.save() opens the file for writing, which truncates it, and the   *)
(* text arrives when the file is closed.  Nothing locks the file, so two   *)
(* saves may overlap: the shorter text then leaves the tail of the longer  *)
(* one behind it.  A document is abstracted to its rules and to one other  *)
(* setting, its length to their sizes, and the file to a length and the    *)
(* document a reader can parse from it, if any.                            *)
(*                                                                         *)
(* "fresh" and "blind" are history: which processes hold what the file was *)
(* last given, and whether a process that did not has saved.               *)
(***************************************************************************)
EXTENDS Naturals, FiniteSets
CONSTANTS Rules,          \* the rules users may add
          Settings,       \* values of a setting `buster config` changes
          Initial,        \* ... and its value in a fresh configuration
          Writers,        \* `buster config` processes
          MaxCrashes,     \* bound: daemon and writer deaths
          MaxFailures     \* bound: saves that fail with OSError
ASSUME PolicyAssumption ==
    /\ "daemon" \notin Writers
    /\ Initial \in Settings
    /\ IsFiniteSet(Rules)
    /\ MaxCrashes \in Nat /\ MaxFailures \in Nat

VARIABLES policy,     \* Permissions._rules of the daemon
          cache,     \* Config._config of the daemon
          file,      \* config.json: its length and the document in it
          daemon,    \* "down", "up", "dirty", "truncated"
          writer,    \* per `buster config`: its step and its document
          acked,     \* rules whose grant or deny was answered
          kept,      \* the setting the last `buster config` reported as set
          fresh,     \* processes whose document is that of the last save
          blind,     \* a process saved a document older than the last save
          crashes, failures
policyVars == <<policy, cache, file, daemon, writer, acked, kept, fresh, blind, crashes, failures>>

Document == [rules : SUBSET Rules, setting : Settings]
Size(d) == 1 + Cardinality(d.rules)
Sizes == 0..(1 + Cardinality(Rules))
\* "valid" is whether json.load() accepts the file; "text" counts only then.
File == [length : Sizes, valid : BOOLEAN, text : Document]
Default == [rules |-> {}, setting |-> Initial]
Whole(d) == [length |-> Size(d), valid |-> TRUE, text |-> d]
Garbage(n) == [length |-> n, valid |-> FALSE, text |-> Default]

\* open(path, "w")
Truncated == Garbage(0)
\* The buffered text of d written from the start of the file f.
Written(f, d) ==
    IF f.length <= Size(d) THEN Whole(d) ELSE Garbage(f.length)

Daemon == "daemon"
Process == Writers \cup {Daemon}
\* History: p's document is the last one from here on.
Saves(p) ==
    /\ blind' = (blind \/ p \notin fresh)
    /\ fresh' = {p}

Idle == [at |-> "idle", doc |-> Default]

TypeOK ==
    /\ policy \in SUBSET Rules /\ acked \in SUBSET Rules
    /\ cache \in Document /\ file \in File
    /\ daemon \in {"down", "up", "dirty", "truncated"}
    /\ writer \in [Writers -> [at : {"idle", "edited", "truncated"}, doc : Document]]
    /\ kept \in Settings
    /\ fresh \in SUBSET Process /\ blind \in BOOLEAN
    /\ crashes \in 0..MaxCrashes /\ failures \in 0..MaxFailures
    /\ daemon = "up" => cache.rules = policy

\* Config() of the installer wrote the defaults; no process runs.
PolicyInit ==
    /\ policy = {} /\ acked = {} /\ cache = Default
    /\ file = Whole(Default)
    /\ daemon = "down"
    /\ writer = [w \in Writers |-> Idle]
    /\ kept = Initial
    /\ fresh = {} /\ blind = FALSE
    /\ crashes = 0 /\ failures = 0

-----------------------------------------------------------------------------
(* The daemon. *)

\* Mutated form: from_rules() before the configuration is read.
BootForgets ==
    /\ daemon = "down" /\ file.valid
    /\ cache' = [file.text EXCEPT !.rules = {}]
    /\ policy' = {}
    /\ daemon' = "up"
    /\ fresh' = fresh \cup {Daemon}
    /\ UNCHANGED <<file, writer, acked, kept, blind, crashes, failures>>

\* Kernel.__init__: Config.load(), then _load_permissions().  A file that
\* does not parse is a ConfigError, and the process ends.
Boot ==
    /\ daemon = "down" /\ file.valid
    /\ cache' = file.text
    /\ policy' = file.text.rules
    /\ daemon' = "up"
    /\ fresh' = fresh \cup {Daemon}
    /\ UNCHANGED <<file, writer, acked, kept, blind, crashes, failures>>

\* grant() or deny(): the list first, then to_rules() into the document.
Add(r) ==
    /\ daemon = "up" /\ r \notin policy
    /\ policy' = policy \cup {r}
    /\ cache' = [cache EXCEPT !.rules = policy']
    /\ daemon' = "dirty"
    /\ UNCHANGED <<file, writer, acked, kept, fresh, blind, crashes, failures>>

DaemonTruncates ==
    /\ daemon = "dirty"
    /\ file' = Truncated
    /\ daemon' = "truncated"
    /\ UNCHANGED <<policy, cache, writer, acked, kept, fresh, blind, crashes, failures>>

\* ... and the caller is answered.
DaemonWrites ==
    /\ daemon = "truncated"
    /\ file' = Written(file, cache)
    /\ Saves(Daemon)
    /\ acked' = acked \cup policy
    /\ daemon' = "up"
    /\ UNCHANGED <<policy, cache, writer, kept, crashes, failures>>

\* _notify() swallows the exception of a failing save: the caller is answered
\* all the same.  The failure may come before or after the truncation.
SaveFails ==
    /\ daemon \in {"dirty", "truncated"}
    /\ failures < MaxFailures
    /\ failures' = failures + 1
    /\ acked' = acked \cup policy
    /\ daemon' = "up"
    /\ UNCHANGED <<policy, cache, file, writer, kept, fresh, blind, crashes>>

\* The daemon stops; nothing is saved at a stop.
StopDaemon ==
    /\ daemon = "up"
    /\ daemon' = "down"
    /\ UNCHANGED <<policy, cache, file, writer, acked, kept, fresh, blind, crashes, failures>>

\* The daemon is killed in the middle of a grant.
Crash ==
    /\ daemon \in {"dirty", "truncated"}
    /\ crashes < MaxCrashes
    /\ crashes' = crashes + 1
    /\ daemon' = "down"
    /\ UNCHANGED <<policy, cache, file, writer, acked, kept, fresh, blind, failures>>

-----------------------------------------------------------------------------
(* buster config <key> <value> *)

\* Config() and set_nested() up to the save.
Edit(w, v) ==
    /\ writer[w].at = "idle" /\ file.valid
    /\ writer' = [writer EXCEPT ![w] = [at |-> "edited", doc |-> [file.text EXCEPT !.setting = v]]]
    /\ fresh' = fresh \cup {w}
    /\ UNCHANGED <<policy, cache, file, daemon, acked, kept, blind, crashes, failures>>

WriterTruncates(w) ==
    /\ writer[w].at = "edited"
    /\ file' = Truncated
    /\ writer' = [writer EXCEPT ![w].at = "truncated"]
    /\ UNCHANGED <<policy, cache, daemon, acked, kept, fresh, blind, crashes, failures>>

\* Mutated form: a value json.dump() cannot write is found only when it writes.
WriterGivesUp(w) ==
    /\ writer[w].at = "truncated"
    /\ writer' = [writer EXCEPT ![w] = Idle]
    /\ UNCHANGED <<policy, cache, file, daemon, acked, kept, fresh, blind, crashes, failures>>

\* ... and "set: key = value" is printed.
WriterWrites(w) ==
    /\ writer[w].at = "truncated"
    /\ file' = Written(file, writer[w].doc)
    /\ Saves(w)
    /\ kept' = writer[w].doc.setting
    /\ writer' = [writer EXCEPT ![w] = Idle]
    /\ UNCHANGED <<policy, cache, daemon, acked, crashes, failures>>

WriterDies(w) ==
    /\ writer[w].at \in {"edited", "truncated"}
    /\ crashes < MaxCrashes
    /\ crashes' = crashes + 1
    /\ writer' = [writer EXCEPT ![w] = Idle]
    /\ UNCHANGED <<policy, cache, file, daemon, acked, kept, fresh, blind, failures>>

PolicyNext ==
    \/ Boot \/ DaemonTruncates \/ DaemonWrites \/ SaveFails \/ StopDaemon \/ Crash
    \/ \E r \in Rules : Add(r)
    \/ \E w \in Writers : WriterTruncates(w) \/ WriterWrites(w) \/ WriterDies(w)
    \/ \E w \in Writers, v \in Settings : Edit(w, v)

PolicySpec == PolicyInit /\ [][PolicyNext]_policyVars

-----------------------------------------------------------------------------
(* What can go wrong. *)

Saving == daemon = "truncated" \/ \E w \in Writers : writer[w].at = "truncated"
Acknowledged(d) == acked \subseteq d.rules /\ d.setting = kept

\* As long as every process saves what it has just read and no save fails,
\* whatever can be read from config.json holds every rule whose grant or deny
\* was answered and the setting last reported as set, across any number of
\* restarts and also when a process dies in the middle of a save.
ReadableKeepsAll ==
    ~blind /\ failures = 0 /\ file.valid => Acknowledged(file.text)

\* Config.load() refuses config.json -- and no runtime can start -- only after
\* a death or a failure inside a save, or after saves that overlapped.
UnreadableHasACause ==
    ~file.valid => Saving \/ blind \/ crashes > 0 \/ failures > 0

=============================================================================
