---------------------------- MODULE CoreStartup ----------------------------
(***************************************************************************)
(* How Core is started, and by whom.  A command of the Manager first makes *)
(* sure that Core answers; if not it starts Core and waits, holding a gate *)
(* that the others queue at (core_client.rs).  Windows may start Core too, *)
(* at logon.  A new Core process brings its files in order before it       *)
(* listens: data of an older version is moved to the new storage root, the *)
(* state and the secrets are read or created (main.rs, storage.rs,         *)
(* daemon.rs).  Nothing but the port keeps two Core processes apart, and   *)
(* it comes last.                                                          *)
(***************************************************************************)
EXTENDS Naturals, FiniteSets, Sequences, SequencesExt, Selection

CONSTANTS Commands,      \* commands of the Manager, each given once
          Cores,         \* processes
          MaxFaults      \* bound: file operations that fail, processes that die

(* state is config/state.json, token config/control.token (launch.key is   *)
(* made the same way, after it) and data whatever else is stored.          *)
Files == {"state", "token", "data"}

(* What a file holds: the old version's content, a part of something, or   *)
(* something new.  "stub" is the log the launcher leaves before Core ever  *)
(* ran, "rescued" what is read from a state backup, "edited" a state the user *)
(* has changed.  A token that Core makes is named after the process.       *)
States == {"old", "default", "rescued", "edited"}
Contents == States \cup Cores \cup {"absent", "torn", "stub"}

ASSUME StartupAssumption ==
    /\ MaxFaults \in Nat
    /\ Cores \cap (States \cup {"absent", "torn", "stub", "none"}) = {}
    /\ "none" \notin Commands

VARIABLES
    legacy,     \* the files in the old storage root
    file,       \* the new storage root
    backup,     \* a state backup lies in it
    temp,       \* the processes whose unfinished state file lies in it
    command,    \* each command
    gate,       \* CoreClient.startup: its holder and the commands queued
    core,       \* each process
    faults,
    initially,  \* history: what there was to begin with
    broken,     \* history: a start failed or died before it was through
    loose       \* history: a start began while another process lived

disk == <<legacy, file, backup, temp>>
startupVars == <<disk, command, gate, core, faults, initially, broken, loose>>

CommandPlaces == {"idle", "gate", "proving", "wait", "reproving", "call", "launching",
                  "done"}
CorePlaces == {"none", "started", "copy", "moved", "state", "write", "token", "fill",
               "bind", "serving", "exited"}

(* Type invariant. *)
StartupTypeOK ==
    /\ legacy \subseteq Files /\ temp \subseteq Cores
    /\ file \in [Files -> Contents] /\ backup \in BOOLEAN
    /\ command \in [Commands -> [at : CommandPlaces, token : Contents]]
    /\ gate \in Seq(Commands)
    /\ core \in [Cores -> [at : CorePlaces, by : Commands \cup {"none"},
                           todo : SUBSET Files, state : Contents, token : Contents]]
    /\ faults \in 0..MaxFaults
    /\ initially \in [legacy : BOOLEAN, backup : BOOLEAN]
    /\ broken \in BOOLEAN /\ loose \in BOOLEAN

(* No process. *)
Without(place) ==
    [at |-> place, by |-> "none", todo |-> {}, state |-> "absent", token |-> "absent"]

StartupInit ==
    /\ legacy \in {{}, Files}
    /\ file = [state |-> "absent", token |-> "absent", data |-> "stub"]
    /\ backup \in BOOLEAN
    /\ temp = {}
    /\ command = [c \in Commands |-> [at |-> "idle", token |-> "absent"]]
    /\ gate = <<>>
    /\ core = [k \in Cores |-> Without("none")]
    /\ faults = 0
    /\ initially = [legacy |-> legacy # {}, backup |-> backup]
    /\ broken = FALSE /\ loose = FALSE

Serving(k) == core[k].at = "serving"
Starting(k) == core[k].at \notin {"none", "serving", "exited"}

-----------------------------------------------------------------------------
(* Commands of the Manager.                                                *)

CoreClient == UNCHANGED <<disk, faults, initially, broken, loose>>
Queues == UNCHANGED <<gate, core>> /\ CoreClient

(* The tokens read_control_token accepts.                                  *)
Usable(token) == token \notin {"absent", "torn"}

(* The serving process has the token, so it can prove its identity         *)
(* (verify_server).                                                        *)
Answers(token) == \E k \in Cores : Serving(k) /\ core[k].token = token

(* Faulty variant: a starter that fails keeps the gate.                    *)
KeptGate(c) == IF command[c].at = "wait" THEN gate ELSE Kept(gate, Commands \ {c})

(* The guard is dropped, or the place in the queue. *)
GateWithout(c) == Kept(gate, Commands \ {c})

(* c leaves the gate, and nobody waits any more for what it started.       *)
Leaves(c) ==
    /\ gate' = GateWithout(c)
    /\ core' = [k \in Cores |-> IF core[k].by = c THEN [core[k] EXCEPT !.by = "none"] ELSE core[k]]
    /\ CoreClient

(* Faulty variant: the gate lets everyone through.                         *)
HoldsAlways(c) == c \in ToSet(gate)
Holds(c) == gate # <<>> /\ Head(gate) = c

Moves(c, place) == command' = [command EXCEPT ![c].at = place, ![c].token = "absent"]

(* A command of the WebView reaches CoreClient (after the file picker, for *)
(* those that have one) and queues at the gate.                            *)
Begin(c) ==
    /\ command[c].at = "idle"
    /\ Moves(c, "gate")
    /\ gate' = Append(gate, c)
    /\ UNCHANGED core /\ CoreClient

(* verified_core up to its await: the token is read, the peer is asked.    *)
Probe(c, from, place) ==
    /\ Holds(c) /\ command[c].at = from /\ Usable(file.token)
    /\ command' = [command EXCEPT ![c].at = place, ![c].token = file.token]
    /\ Queues

Verify(c) == Probe(c, "gate", "proving")
Reverify(c) == Probe(c, "wait", "reproving")

Proved(c) ==
    /\ command[c].at \in {"proving", "reproving"} /\ Answers(command[c].token)
    /\ Moves(c, "call")
    /\ Leaves(c)

(* A process lives that no command is waiting for.                         *)
Another == \E k \in Cores : core[k].at \notin {"none", "exited"} /\ core[k].by = "none"

Created(k, by) == core' = [core EXCEPT ![k] = [Without("started") EXCEPT !.by = by]]

GivesUp(c) ==
    /\ Moves(c, "done")
    /\ Leaves(c)

(* start_core_and_wait up to its first await, when there is no token or    *)
(* the probe has failed: nobody listens, the proof is of another token, or *)
(* no proof came within PROBE_TIMEOUT, because all connections of Core     *)
(* (MAX_CONCURRENT_CONNECTIONS) were busy.                                 *)
Unverified(c) ==
    /\ Holds(c)
    /\ command[c].at = "proving" \/ (command[c].at = "gate" /\ ~Usable(file.token))

Spawn(c, k) ==
    /\ Unverified(c) /\ core[k].at = "none"
    /\ Created(k, c) /\ Moves(c, "wait")
    /\ loose' = (loose \/ Another)
    /\ UNCHANGED <<disk, gate, faults, initially, broken>>

(* No executable, or it cannot be started.                                 *)
SpawnFails(c) == Unverified(c) /\ GivesUp(c)

NotReproved(c) ==
    /\ command[c].at = "reproving"
    /\ Moves(c, "wait")
    /\ Queues

(* STARTUP_TIMEOUT passes. *)
StartupTimesOut(c) == command[c].at = "wait" /\ GivesUp(c)

(* call: the token is read again, and the peer verified again before it    *)
(* is sent.  An error or RPC_TIMEOUT ends the command.                     *)
CallEnds(c) == command[c].at = "call" /\ Moves(c, "done") /\ Queues

(* Core changes its state, in memory and on disk by write_state.           *)
CallEdits(c, k) ==
    /\ command[c].at = "call" /\ Serving(k) /\ core[k].token = file.token
    /\ Moves(c, "done")
    /\ core' = [core EXCEPT ![k].state = "edited"]
    /\ file' = [file EXCEPT !.state = "edited"]
    /\ temp' = {} /\ backup' = FALSE
    /\ UNCHANGED <<legacy, gate, faults, initially, broken, loose>>

(* launch goes on with the launcher after its getManagerSnapshot.          *)
CallLaunches(c) ==
    /\ command[c].at = "call" /\ Usable(file.token) /\ Answers(file.token)
    /\ Moves(c, "launching") /\ Queues

(* The launcher ends, or is killed after LAUNCH_TIMEOUT and given          *)
(* LAUNCH_REAP_TIMEOUT to go.                                              *)
LauncherEnds(c) == command[c].at = "launching" /\ Moves(c, "done") /\ Queues

(* The future is dropped at one of its awaits.                             *)
Cancel(c) ==
    /\ command[c].at \in {"gate", "proving", "reproving", "wait", "call", "launching"}
    /\ Moves(c, "done")
    /\ Leaves(c)

-----------------------------------------------------------------------------
(* The start of a Core process.                                            *)

Process == UNCHANGED <<command, gate, initially, loose>>
At(k, place) == core[k].at = place /\ Process
Enters(k, place) == core' = [core EXCEPT ![k].at = place]
Exits(k) == core' = [core EXCEPT ![k] = Without("exited")]
Fault == faults < MaxFaults /\ faults' = faults + 1

(* Windows starts Core at logon, before the user opens the Manager.        *)
Logon(k) ==
    /\ \A c \in Commands : command[c].at = "idle"
    /\ \A other \in Cores : core[other].at = "none"
    /\ Created(k, "none")
    /\ UNCHANGED <<disk, command, gate, faults, initially, broken, loose>>

(* Faulty variant: any stub in the new root stops the migration.           *)
OwnedByAnyFile == \E f \in Files : file[f] # "absent"

(* The new root belongs to Core once its state exists.                     *)
Owned == file.state # "absent"

(* migrate_legacy_storage: the old root is read once, entry by entry.      *)
Migrate(k) ==
    /\ At(k, "started")
    /\ IF legacy = {} \/ Owned
         THEN Enters(k, "state")
         ELSE core' = [core EXCEPT ![k].at = "copy", ![k].todo = legacy]
    /\ UNCHANGED <<disk, faults, broken>>

(* copy_tree, one file.  (It is created, then filled: the moment between   *)
(* is only there for CopyFails and Dies.)                                  *)
Copy(k, f) ==
    /\ At(k, "copy") /\ f \in core[k].todo \cap legacy
    /\ core' = [core EXCEPT ![k].todo = @ \ {f}]
    /\ file' = [file EXCEPT ![f] = "old"]
    /\ UNCHANGED <<legacy, backup, temp, faults, broken>>

(* The file being copied is left as it was or half written.                *)
LeftHalf(k) == {file} \cup {[file EXCEPT ![f] = "torn"] : f \in core[k].todo}

(* A file is locked, or is gone because another process has removed it:    *)
(* the rest is not copied, and the start goes on.                          *)
CopyFails(k) ==
    /\ At(k, "copy")
    /\ \/ core[k].todo \ legacy # {} /\ UNCHANGED <<file, faults>>
       \/ file' \in LeftHalf(k) /\ Fault
    /\ core' = [core EXCEPT ![k].at = "state", ![k].todo = {}]
    /\ broken' = TRUE
    /\ UNCHANGED <<legacy, backup, temp>>

Copied(k) ==
    /\ At(k, "copy") /\ core[k].todo = {}
    /\ Enters(k, "moved")
    /\ UNCHANGED <<disk, faults, broken>>

(* Best effort: some of the files may stay.                                *)
RemoveLegacy(k) ==
    /\ At(k, "moved")
    /\ \/ legacy' = {} /\ UNCHANGED faults
       \/ legacy' \in SUBSET legacy /\ Fault
    /\ Enters(k, "state")
    /\ UNCHANGED <<file, backup, temp, broken>>

FirstState == IF backup THEN "rescued" ELSE "default"

(* read_state. *)
ReadState(k) ==
    /\ At(k, "state")
    /\ CASE file.state = "torn" -> Exits(k) /\ UNCHANGED temp
         [] file.state = "absent" ->
                /\ core' = [core EXCEPT ![k].at = "write", ![k].state = FirstState]
                /\ temp' = temp \cup {k}
         [] OTHER -> /\ core' = [core EXCEPT ![k].at = "token", ![k].state = file.state]
                     /\ UNCHANGED temp
    /\ broken' = (broken \/ file.state = "torn")
    /\ UNCHANGED <<legacy, file, backup, faults>>

(* write_state: the file takes its place by a rename, and what lies about  *)
(* is removed, another process's unfinished file included.                 *)
CommitState(k) ==
    /\ At(k, "write")
    /\ IF k \in temp
         THEN /\ file' = [file EXCEPT !.state = core[k].state]
              /\ temp' = {} /\ backup' = FALSE
              /\ Enters(k, "token")
         ELSE Exits(k) /\ UNCHANGED <<file, temp, backup>>
    /\ UNCHANGED <<legacy, faults, broken>>

(* read_or_create_secret: the file is created, then filled; an existing    *)
(* one must be whole.                                                      *)
ReadOrCreateToken(k) ==
    /\ At(k, "token")
    /\ CASE file.token = "absent" -> file' = [file EXCEPT !.token = "torn"] /\ Enters(k, "fill")
         [] file.token = "torn" -> Exits(k) /\ UNCHANGED file
         [] OTHER -> /\ core' = [core EXCEPT ![k].at = "bind", ![k].token = file.token]
                     /\ UNCHANGED file
    /\ UNCHANGED <<legacy, backup, temp, faults, broken>>

FillToken(k) ==
    /\ At(k, "fill")
    /\ file' = [file EXCEPT !.token = k]
    /\ core' = [core EXCEPT ![k].at = "bind", ![k].token = k]
    /\ UNCHANGED <<legacy, backup, temp, faults, broken>>

(* serve: the port is free, or the process ends.                           *)
Bind(k) ==
    /\ At(k, "bind")
    /\ IF \E other \in Cores : Serving(other)
         THEN Exits(k)
         ELSE core' = [core EXCEPT ![k].at = "serving", ![k].by = "none"]
    /\ UNCHANGED <<disk, faults, broken>>

(* The process is killed, or ends with a file operation that failed.       *)
Dies(k) ==
    /\ core[k].at \notin {"none", "exited"} /\ Process
    /\ Exits(k)
    /\ Fault
    /\ broken' = (broken \/ Starting(k))
    /\ file' \in LeftHalf(k)
    /\ UNCHANGED <<legacy, backup, temp>>

-----------------------------------------------------------------------------
(* What a command does but for waiting: all of it ends. *)
Passes(c) ==
    \/ Verify(c) \/ Proved(c) \/ SpawnFails(c) \/ NotReproved(c) \/ \E k \in Cores : Spawn(c, k)
    \/ CallEnds(c) \/ CallLaunches(c) \/ LauncherEnds(c) \/ \E k \in Cores : CallEdits(c, k)

Starts(k) ==
    \/ Migrate(k) \/ CopyFails(k) \/ Copied(k) \/ RemoveLegacy(k) \/ \E f \in Files : Copy(k, f)
    \/ ReadState(k) \/ CommitState(k) \/ ReadOrCreateToken(k) \/ FillToken(k)
    \/ Bind(k)

StartupNext ==
    \/ \E c \in Commands :
          \/ Begin(c) \/ Passes(c) \/ Reverify(c) \/ StartupTimesOut(c) \/ Cancel(c)
    \/ \E k \in Cores : Logon(k) \/ Starts(k) \/ Dies(k)

StartupSpec == StartupInit /\ [][StartupNext]_startupVars

(* The Manager's runtime polls its futures and its timers fire, those of   *)
(* the calls (weakly fair) and the one of the start (strongly fair: polls  *)
(* of Core interrupt the wait); of Core nothing is assumed.  The two       *)
(* conditions name the states in which such a step can be taken.           *)
CanPass ==
    \E c \in Commands : \/ command[c].at \in {"proving", "reproving", "call", "launching"}
                        \/ command[c].at = "gate" /\ Holds(c)
Waits == \E c \in Commands : command[c].at = "wait"

StartupFairness ==
    /\ []<>~CanPass \/ []<><<\E c \in Commands : Passes(c)>>_startupVars
    /\ <>[]~Waits \/ []<><<\E c \in Commands : StartupTimesOut(c)>>_startupVars

-----------------------------------------------------------------------------
(* A Core that serves has on disk what it has in memory, so that the       *)
(* Manager can verify it and no acknowledged change is lost; and it has    *)
(* the old version's data, or what a backup held, unless a start was cut   *)
(* short.  All this rests on the gate, which keeps starts apart: nothing   *)
(* is said once a start was left to itself and another was begun (a        *)
(* timeout, a cancelled command, the start at logon).                      *)
StartKeepsData ==
    \A k \in Cores : (Serving(k) /\ ~loose) =>
        /\ file.state = core[k].state /\ file.token = core[k].token
        /\ initially.backup => core[k].state # "default"
        /\ (initially.legacy /\ ~broken) =>
               /\ file.data = "old" /\ core[k].token = "old"
               /\ core[k].state \in {"old", "edited"}

(* Every command ends, whatever becomes of Core, of the starter that held  *)
(* the gate and of the commands ahead in the queue.                        *)
CommandsEnd ==
    <>[](\A c \in Commands : command[c].at \in {"idle", "done"})

=============================================================================
