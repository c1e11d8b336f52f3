-------------------------- MODULE IfeoRegistration --------------------------
(***************************************************************************)
(* setIefoRegistration (daemon.rs), which asks an elevated launcher        *)
(* (iefo.rs) to register an application with Windows or to unregister it   *)
(* (registry.rs), so that starting the application starts the launcher.    *)
(* The registry entry is named after the executable's file name: two       *)
(* applications may share one.  Core waits without its lock, so requests   *)
(* overlap; each launcher writes the entry value by value and may fail or  *)
(* be terminated between any two.  A value it cannot read (it is of        *)
(* another type, say, or access is denied) it takes for none.              *)
(***************************************************************************)
EXTENDS Naturals, FiniteSets

CONSTANTS Apps,
          ExeName,     \* the file name of each application's executable
          Requests,    \* requests of the Manager (each is made at most once)
          Overlapping, \* bound: whether a request may be made during another
          Debugger0    \* the Debugger that each entry has before TronHawk

Names == {ExeName[a] : a \in Apps}

(* Values of Debugger: absent, another program's, our launcher.            *)
Debuggers == {"none", "theirs", "ours"}

ASSUME RegistrationAssumption ==
    /\ Debugger0 \in [Names -> {"none", "theirs"}] /\ Overlapping \in BOOLEAN
    /\ IsFiniteSet(Requests) /\ "none" \notin Apps /\ Apps # {}

VARIABLES key,    \* the registry entry of each name
          job     \* each request, with the elevated launcher that serves it;
                  \* missed (history): it took a value for none

registryVars == <<key, job>>

Registering == {"resolve", "read", "backup", "debugger", "filter", "owner"}
Unregistering == {"open", "check", "prev", "restore", "drop_prev", "drop_owner", "drop_filter"}
Running == Registering \cup Unregistering

(* Type invariant. *)
RegistryTypeOK ==
    /\ key \in [Names -> [present : BOOLEAN, debugger : Debuggers, prev : Debuggers,
                          filter : Apps \cup {"none"}, owned : BOOLEAN]]
    /\ job \in [Requests ->
                   [at : Running \cup {"idle", "consent", "done"}, app : Apps,
                    enabled : BOOLEAN, held : Debuggers, missed : BOOLEAN,
                    answer : {"none", "applied", "cancelled", "failed"}, said : BOOLEAN]]

RegistryInit ==
    /\ key = [n \in Names |-> [present |-> Debugger0[n] # "none", debugger |-> Debugger0[n],
                               prev |-> "none", filter |-> "none", owned |-> FALSE]]
    /\ job \in [Requests ->
                   [at : {"idle"}, app : {CHOOSE a \in Apps : TRUE}, enabled : {TRUE},
                    held : {"none"}, missed : {FALSE}, answer : {"none"}, said : {FALSE}]]

EntryOf(r) == ExeName[job[r].app]

(* read_windows: what Core reports of an entry; FALSE if it cannot be read.*)
Registered(n) == key[n].debugger # "none"
Reported(n) == {Registered(n), FALSE}

Go(r, place) == job' = [job EXCEPT ![r].at = place]
Ends(r, answer, registered) ==
    job' = [job EXCEPT ![r].at = "done", ![r].answer = answer, ![r].said = registered]

-----------------------------------------------------------------------------
(* set_iefo_registration takes the application under the lock and lets go  *)
(* of the lock; an application Core does not know is refused.              *)
Ask(r, a, enabled) ==
    /\ job[r].at = "idle"
    /\ Overlapping \/ \A other \in Requests : job[other].at \in {"idle", "done"}
    /\ job' = [job EXCEPT ![r].at = "consent", ![r].app = a, ![r].enabled = enabled]
    /\ UNCHANGED key

(* ShellExecuteExW(runas): the user may decline.                           *)
Consent(r) ==
    /\ job[r].at = "consent"
    /\ \/ Go(r, IF job[r].enabled THEN "resolve" ELSE "open")
       \/ \E said \in Reported(EntryOf(r)) : Ends(r, "cancelled", said)
       \/ Ends(r, "failed", FALSE)
    /\ UNCHANGED key

(* The launcher exits with an error, or is terminated after 60 seconds.    *)
Stops(r) ==
    /\ job[r].at \in Running
    /\ Ends(r, "failed", FALSE)
    /\ UNCHANGED key

(* register and unregister: one registry value after the other.            *)
Sets(r, here, entry, next) ==
    /\ job[r].at = here
    /\ key' = [key EXCEPT ![EntryOf(r)] = entry]
    /\ Go(r, next)

(* get_value(..).ok(): what is there, or nothing if it cannot be read.     *)
ReadsValue(r, here, value, next) ==
    /\ job[r].at = here
    /\ \E held \in {value, "none"} :
          job' = [job EXCEPT ![r].at = next, ![r].held = held,
                             ![r].missed = @ \/ held # value]
    /\ UNCHANGED key

(* Faulty variant: our launcher is entered first, the backup comes after.  *)
RegisterBackupLast(r) ==
    LET entry == key[EntryOf(r)] IN
    \/ Sets(r, "resolve", [entry EXCEPT !.present = TRUE], "read")
    \/ ReadsValue(r, "read", entry.debugger, "debugger")
    \/ Sets(r, "debugger", [entry EXCEPT !.debugger = "ours"], "backup")
    \/ Sets(r, "backup",
            IF job[r].held = "none" THEN entry ELSE [entry EXCEPT !.prev = job[r].held],
            "filter")
    \/ Sets(r, "filter", [entry EXCEPT !.filter = job[r].app], "owner")
    \/ /\ job[r].at = "owner"
       /\ key' = [key EXCEPT ![EntryOf(r)].owned = TRUE]
       /\ Ends(r, "applied", TRUE)

Register(r) ==
    LET entry == key[EntryOf(r)] IN
    \/ Sets(r, "resolve", [entry EXCEPT !.present = TRUE], "read")
    \/ ReadsValue(r, "read", entry.debugger, "backup")
    \/ Sets(r, "backup",
            IF job[r].held = "none" THEN entry ELSE [entry EXCEPT !.prev = job[r].held],
            "debugger")
    \/ Sets(r, "debugger", [entry EXCEPT !.debugger = "ours"], "filter")
    \/ Sets(r, "filter", [entry EXCEPT !.filter = job[r].app], "owner")
    \/ /\ job[r].at = "owner"
       /\ key' = [key EXCEPT ![EntryOf(r)].owned = TRUE]
       /\ Ends(r, "applied", TRUE)

(* An entry that is not there or cannot be opened is a success, one        *)
(* without our marker, or whose marker cannot be read, is an error (Stops).*)
(* Deletions are best effort.                                              *)
Unregister(r) ==
    LET entry == key[EntryOf(r)] IN
    \/ /\ job[r].at = "open"
       /\ (entry.present /\ Go(r, "check")) \/ Ends(r, "applied", FALSE)
       /\ UNCHANGED key
    \/ /\ job[r].at = "check" /\ entry.owned
       /\ Go(r, "prev")
       /\ UNCHANGED key
    \/ ReadsValue(r, "prev", entry.prev, "restore")
    \/ Sets(r, "restore", [entry EXCEPT !.debugger = job[r].held], "drop_prev")
    \/ job[r].held = "none" /\ Sets(r, "restore", entry, "drop_prev")
    \/ \E prev \in {entry.prev, "none"} :
          Sets(r, "drop_prev", [entry EXCEPT !.prev = prev], "drop_owner")
    \/ \E owned \in {entry.owned, FALSE} :
          Sets(r, "drop_owner", [entry EXCEPT !.owned = owned], "drop_filter")
    \/ /\ job[r].at = "drop_filter"
       /\ \E filter \in {entry.filter, "none"} : key' = [key EXCEPT ![EntryOf(r)].filter = filter]
       /\ Ends(r, "applied", FALSE)

RegistryNext ==
    \E r \in Requests :
       \/ \E a \in Apps, enabled \in BOOLEAN : Ask(r, a, enabled)
       \/ Consent(r) \/ Stops(r) \/ Register(r) \/ Unregister(r)

RegistrySpec == RegistryInit /\ [][RegistryNext]_registryVars

-----------------------------------------------------------------------------
(* The requests on entry n, of either kind, that were ever begun.          *)
Begun(n, enabled) ==
    {r \in Requests : job[r].at # "idle" /\ job[r].enabled = enabled /\ EntryOf(r) = n}

(* A launcher took a value of entry n for none that it could not read.     *)
Misread(n) == \E r \in Begun(n, TRUE) \cup Begun(n, FALSE) : job[r].missed

(* Another program's Debugger is either in force or in the backup, at      *)
(* every step and wherever a launcher is cut short, as long as the entry   *)
(* is registered no more than once and unregistered no more than once.     *)
(* Not so when its value, or the backup, cannot be read: it is taken for   *)
(* none, and overwritten or dropped.                                       *)
ForeignKept ==
    \A n \in Names :
       /\ Debugger0[n] = "theirs" /\ ~Misread(n)
       /\ Cardinality(Begun(n, TRUE)) <= 1 /\ Cardinality(Begun(n, FALSE)) <= 1
       => "theirs" \in {key[n].debugger, key[n].prev}

(* "The previous `Debugger` is backed up and restored on unregister"       *)
(* (registry.rs:10): once every request was applied, one of them an        *)
(* unregistration that took our marker away, what was there before is      *)
(* back.  A second registration backs up our launcher over the program's   *)
(* (a value that cannot be read is lost without one, and left out here).   *)
UnregisterRestores ==
    \A n \in Names :
       /\ Debugger0[n] = "theirs" /\ ~Misread(n)
       /\ \A r \in Requests : job[r].at \in {"idle", "done"}
       /\ \A r \in Requests : job[r].at = "done" => job[r].answer = "applied"
       /\ Cardinality(Begun(n, FALSE)) = 1 /\ ~key[n].owned
       => key[n].debugger = "theirs"

=============================================================================
