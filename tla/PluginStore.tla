---------------------------- MODULE PluginStore ----------------------------
(***************************************************************************)
(* The plugin store of Core: installing and removing a plugin as sequences *)
(* of file operations (daemon.rs, installPlugin and removePlugin), the     *)
(* cached snapshot of the installed directory, and the sweep of leftover   *)
(* transaction directories when a Core process starts.                     *)
(*                                                                         *)
(* Handlers hold the state mutex, so at most one runs; between two file    *)
(* operations of a handler the process may die, and a second Core process  *)
(* may start: it sweeps before it finds the port taken (main.rs).          *)
(***************************************************************************)
EXTENDS Naturals

CONSTANTS Plugins, Versions, Apps,
          Absent,       \* no directory
          NoCache, NoPolicy, Default,
          MaxOps,       \* bound: installs and removals
          MaxGrants,    \* bound: policies set
          MaxFaults     \* bound: failed file operations, deaths, second Cores, damage

ASSUME BoundsAssumption == MaxOps \in Nat /\ MaxGrants \in Nat /\ MaxFaults \in Nat

VARIABLES
    live,      \* installed_root/<id>
    trans,     \* the hidden transaction directories under installed_root
    policy,    \* state.json, of which inner.state is a copy
    cache,     \* inner.plugin_cache
    op,        \* the file operation the running handler performs next
    held,      \* history: the version the last answered operation leaves
    failed,    \* history: file operations that failed in the current operation
    excused,   \* history: plugins in whose operation more than that went wrong
    ops, grants, faults

vars == <<live, trans, policy, cache, op, held, failed, excused, ops, grants, faults>>

(* The content of a plugin directory: a version, and whether it loads.     *)
Contents == [version : Versions, loads : BOOLEAN]
Kinds == {"staging", "backup", "remove"}
Dirs == [kind : Kinds, plugin : Plugins, content : Contents, n : 1..MaxOps]

(* A policy entry other than the default one remembers the version the     *)
(* handler validated the grants against, and whether it took that from the *)
(* last good snapshot instead of the directory.                            *)
Entries == [version : Versions, fallback : BOOLEAN]
Caches == [fp : [Plugins -> Contents \cup {Absent}] \X SUBSET Dirs,
           plugins : [Plugins -> Versions \cup {Absent}], stale : BOOLEAN]

(* The markers are not values. *)
ASSUME ValuesAssumption ==
    /\ Absent \notin Versions \cup Contents
    /\ NoPolicy # Default /\ {NoPolicy, Default} \cap Entries = {}

Idle == [step |-> "idle"]
Steps == {"reset", "backup", "publish", "cleanup", "drop", "empty"}
Ops == {Idle} \cup [step : Steps, plugin : Plugins, content : Contents]

(* Type invariant. *)
TypeOK ==
    /\ live \in [Plugins -> Contents \cup {Absent}]
    /\ trans \subseteq Dirs
    /\ policy \in [Apps -> [Plugins -> {NoPolicy, Default} \cup Entries]]
    /\ cache \in Caches \cup {NoCache}
    /\ op \in Ops
    /\ held \in [Plugins -> Versions \cup {Absent}]
    /\ failed \in 0..MaxFaults
    /\ excused \subseteq Plugins
    /\ ops \in 0..MaxOps /\ grants \in 0..MaxGrants /\ faults \in 0..MaxFaults

-----------------------------------------------------------------------------
(* The snapshot of the installed directory.                                *)

(* fingerprint: names, sizes and times of everything under installed_root, *)
(* the hidden directories included.                                        *)
Fingerprint == <<live, trans>>

VersionAt(p) == IF live[p] = Absent THEN Absent ELSE live[p].version

(* scan_installed_plugins fails when one directory does not load.          *)
ScanSucceeds == \A p \in Plugins : live[p] # Absent => live[p].loads
Scan == [fp |-> Fingerprint, plugins |-> [p \in Plugins |-> VersionAt(p)], stale |-> FALSE]

(* Faulty variant: the fingerprint is not looked at.                       *)
CacheIsFilled == cache # NoCache /\ ~cache.stale

CacheIsCurrent == cache # NoCache /\ cache.fp = Fingerprint /\ ~cache.stale

(* installed_plugins: the new value of the cache, whose plugins are the    *)
(* result; NoCache is an internal error.                                   *)
Snapshot ==
    IF CacheIsCurrent THEN cache
    ELSE IF ScanSucceeds THEN Scan
    ELSE IF cache # NoCache THEN [cache EXCEPT !.stale = TRUE]
    ELSE NoCache

Serves(p) == Snapshot # NoCache /\ Snapshot.plugins[p] # Absent

-----------------------------------------------------------------------------
(* File operations that succeed, and operations that end.                  *)

Works == UNCHANGED <<failed, faults, excused>>

(* n file operations of the running handler fail.                          *)
Fails(n) ==
    /\ faults + n <= MaxFaults
    /\ faults' = faults + n
    /\ failed' = failed + n
    /\ excused' = IF failed + n > 1 THEN excused \cup {op.plugin} ELSE excused

Begins(step, p, c) ==
    /\ ops < MaxOps /\ ops' = ops + 1
    /\ op' = [step |-> step, plugin |-> p, content |-> c]
    /\ failed' = 0 /\ UNCHANGED faults
    /\ excused' = IF held[p] # Absent /\ live[p] = Absent THEN excused ELSE excused \ {p}

Continues(step) == op' = [op EXCEPT !.step = step]

Ends == op' = Idle

(* transaction_dir, with a suffix of its own for each operation.           *)
Dir(kind, c) == [kind |-> kind, plugin |-> op.plugin, content |-> c, n |-> ops]
Staging == Dir("staging", op.content)
Trash == Dir("remove", op.content)
Backups == {d \in trans : d.kind = "backup" /\ d.plugin = op.plugin /\ d.n = ops}

-----------------------------------------------------------------------------
(* Readers of the store and the policy of one plugin.                      *)

(* getManagerSnapshot and getExecutionPlan. *)
Read ==
    /\ op = Idle
    /\ cache' = Snapshot
    /\ UNCHANGED <<live, trans, policy, op, held, failed, excused, ops, grants, faults>>

(* setApplicationPluginPolicy: the plugin must be in the snapshot.         *)
SetPolicy(a, p) ==
    /\ op = Idle /\ grants < MaxGrants /\ grants' = grants + 1
    /\ Serves(p)
    /\ cache' = Snapshot
    /\ policy' = [policy EXCEPT ![a][p] =
           [version |-> Snapshot.plugins[p], fallback |-> Snapshot.stale]]
    /\ UNCHANGED <<live, trans, op, held, failed, excused, ops, faults>>

-----------------------------------------------------------------------------
(* installPlugin: extract, then commit_staged_plugin.                      *)

(* The archive is extracted beside the plugins.  One that does not extract *)
(* changes nothing: what it left is removed.                               *)
Extract(p, v) ==
    /\ op = Idle
    /\ Begins("reset", p, [version |-> v, loads |-> TRUE])
    /\ trans' = trans \cup {[kind |-> "staging", plugin |-> p,
                             content |-> [version |-> v, loads |-> TRUE], n |-> ops + 1]}
    /\ UNCHANGED <<live, policy, cache, held, grants>>

(* Faulty variant: only plugins without an entry get the default one.      *)
ResetPoliciesIfNew ==
    /\ op.step = "reset"
    /\ \/ /\ policy' = [a \in Apps |-> [policy[a] EXCEPT ![op.plugin] =
                                            IF @ = NoPolicy THEN Default ELSE @]]
          /\ Continues("backup") /\ Works
       \/ Fails(1) /\ Ends /\ UNCHANGED policy
    /\ UNCHANGED <<live, trans, cache, held, ops, grants>>

(* Every application's policy for the plugin is reset before the new files *)
(* appear.  On failure the handler returns and the staging stays.          *)
ResetPolicies ==
    /\ op.step = "reset"
    /\ \/ /\ policy' = [a \in Apps |-> [policy[a] EXCEPT ![op.plugin] = Default]]
          /\ Continues("backup") /\ Works
       \/ Fails(1) /\ Ends /\ UNCHANGED policy
    /\ UNCHANGED <<live, trans, cache, held, ops, grants>>

(* The prior directory is moved aside; if it cannot be, the staged one is  *)
(* discarded, unless that fails as well.                                   *)
BackUp ==
    /\ op.step = "backup"
    /\ \/ live[op.plugin] = Absent /\ Continues("publish") /\ Works /\ UNCHANGED <<live, trans>>
       \/ /\ live[op.plugin] # Absent
          /\ \/ /\ trans' = trans \cup {Dir("backup", live[op.plugin])}
                /\ live' = [live EXCEPT ![op.plugin] = Absent]
                /\ Continues("publish") /\ Works
             \/ Fails(1) /\ Ends /\ trans' = trans \ {Staging} /\ UNCHANGED live
             \/ Fails(2) /\ Ends /\ UNCHANGED <<live, trans>>
    /\ UNCHANGED <<policy, cache, held, ops, grants>>

(* The staged directory takes its place.                                   *)
PublishSucceeds ==
    /\ Staging \in trans
    /\ live' = [live EXCEPT ![op.plugin] = op.content]
    /\ trans' = trans \ {Staging}
    /\ held' = [held EXCEPT ![op.plugin] = op.content.version]
    /\ Works
    /\ IF Backups = {} THEN Ends /\ cache' = NoCache
                       ELSE Continues("cleanup") /\ UNCHANGED cache

(* It cannot: the rename fails, or a second Core swept the directory away. *)
(* The prior directory goes back if there is one, and the staged one is    *)
(* discarded; the first n of these operations fail.                        *)
PublishFails(n) ==
    /\ IF Staging \in trans THEN Fails(1 + n) ELSE IF n = 0 THEN Works ELSE Fails(n)
    /\ n > 0 => Backups # {}
    /\ Ends /\ UNCHANGED <<cache, held>>
    /\ trans' = trans \ ({Staging} \cup IF n = 0 THEN Backups ELSE {})
    /\ live' = IF n = 0 /\ Backups # {}
               THEN [live EXCEPT ![op.plugin] = (CHOOSE d \in Backups : TRUE).content]
               ELSE live

(* Faulty variant: a failed publication leaves the prior directory aside.  *)
PublishWithoutRestore ==
    /\ op.step = "publish"
    /\ \/ PublishSucceeds
       \/ /\ Staging \in trans /\ Fails(1) /\ Ends /\ UNCHANGED <<cache, live, held>>
          /\ trans' = trans \ {Staging}
    /\ UNCHANGED <<policy, ops, grants>>

Publish ==
    /\ op.step = "publish"
    /\ PublishSucceeds \/ \E n \in 0..1 : PublishFails(n)
    /\ UNCHANGED <<policy, ops, grants>>

(* The backup is removed and the snapshot dropped; when the removal fails  *)
(* the handler returns an error, with the plugin installed and the         *)
(* snapshot kept.                                                          *)
CleanUp ==
    /\ op.step = "cleanup"
    /\ Ends
    /\ \/ trans' = trans \ Backups /\ cache' = NoCache /\ Works
       \/ Fails(1) /\ Backups # {} /\ UNCHANGED <<trans, cache>>
    /\ UNCHANGED <<live, policy, held, ops, grants>>

-----------------------------------------------------------------------------
(* removePlugin.                                                           *)

(* The plugin must be in the snapshot; its directory is moved aside and    *)
(* the snapshot dropped.                                                   *)
StageRemoval(p) ==
    /\ op = Idle
    /\ Serves(p) /\ live[p] # Absent
    /\ Begins("drop", p, live[p])
    /\ trans' = trans \cup {[kind |-> "remove", plugin |-> p, content |-> live[p],
                             n |-> ops + 1]}
    /\ live' = [live EXCEPT ![p] = Absent]
    /\ held' = [held EXCEPT ![p] = Absent]
    /\ cache' = NoCache
    /\ UNCHANGED <<policy, grants>>

(* Faulty variant: the policies stay dropped when that could not be saved.  *)
DropPoliciesAnyway ==
    /\ op.step = "drop"
    /\ policy' = [a \in Apps |-> [policy[a] EXCEPT ![op.plugin] = NoPolicy]]
    /\ \/ Continues("empty") /\ Works /\ UNCHANGED <<live, trans, held>>
       \/ /\ Trash \in trans /\ Fails(1) /\ Ends
          /\ held' = [held EXCEPT ![op.plugin] = op.content.version]
          /\ live' = [live EXCEPT ![op.plugin] = op.content]
          /\ trans' = trans \ {Trash}
    /\ UNCHANGED <<cache, ops, grants>>

(* The policies for the plugin are dropped; if the state cannot be written *)
(* the directory goes back, and a failure of that is ignored.              *)
DropPolicies ==
    /\ op.step = "drop"
    /\ \/ /\ policy' = [a \in Apps |-> [policy[a] EXCEPT ![op.plugin] = NoPolicy]]
          /\ Continues("empty") /\ Works /\ UNCHANGED <<live, trans, held>>
       \/ /\ Ends /\ UNCHANGED policy
          /\ held' = [held EXCEPT ![op.plugin] = op.content.version]
          /\ \/ /\ Trash \in trans /\ Fails(1)
                /\ live' = [live EXCEPT ![op.plugin] = op.content]
                /\ trans' = trans \ {Trash}
             \/ Fails(2) /\ UNCHANGED <<live, trans>>
    /\ UNCHANGED <<cache, ops, grants>>

EmptyTrash ==
    /\ op.step = "empty"
    /\ Ends
    /\ \/ trans' = trans \ {Trash} /\ Works
       \/ Fails(1) /\ Trash \in trans /\ UNCHANGED trans
    /\ UNCHANGED <<live, policy, cache, held, ops, grants>>

-----------------------------------------------------------------------------
(* Processes and the world outside.                                        *)

Disturbs ==
    /\ faults < MaxFaults /\ faults' = faults + 1
    /\ excused' = IF op = Idle THEN excused ELSE excused \cup {op.plugin}
    /\ UNCHANGED failed

(* sweep_orphaned_transaction_dirs. *)
Sweep == trans' = {}

(* Core dies and a new process starts (CoreService::new). *)
Restart ==
    /\ Sweep
    /\ Ends /\ cache' = NoCache
    /\ Disturbs
    /\ UNCHANGED <<live, policy, held, ops, grants>>

(* A second Core process: it sweeps, then cannot listen and exits.         *)
SecondCore ==
    /\ op # Idle
    /\ Sweep /\ Disturbs
    /\ UNCHANGED <<live, policy, cache, op, held, ops, grants>>

(* A plugin directory is damaged by something else, or repaired.           *)
Damage(p) ==
    /\ op = Idle /\ live[p] # Absent /\ live[p].loads
    /\ faults < MaxFaults /\ faults' = faults + 1
    /\ live' = [live EXCEPT ![p].loads = FALSE]
    /\ UNCHANGED <<trans, policy, cache, op, held, failed, excused, ops, grants>>

Repair(p) ==
    /\ op = Idle /\ live[p] # Absent /\ ~live[p].loads
    /\ live' = [live EXCEPT ![p].loads = TRUE]
    /\ UNCHANGED <<trans, policy, cache, op, held, failed, excused, ops, grants, faults>>

-----------------------------------------------------------------------------
Init ==
    /\ live = [p \in Plugins |-> Absent]
    /\ trans = {}
    /\ policy = [a \in Apps |-> [p \in Plugins |-> NoPolicy]]
    /\ cache = NoCache
    /\ op = Idle
    /\ held = [p \in Plugins |-> Absent]
    /\ failed = 0 /\ excused = {}
    /\ ops = 0 /\ grants = 0 /\ faults = 0

Next ==
    \/ Read
    \/ \E a \in Apps, p \in Plugins : SetPolicy(a, p)
    \/ \E p \in Plugins, v \in Versions : Extract(p, v)
    \/ ResetPolicies \/ BackUp \/ Publish \/ CleanUp
    \/ \E p \in Plugins : StageRemoval(p)
    \/ DropPolicies \/ EmptyTrash
    \/ Restart \/ SecondCore
    \/ \E p \in Plugins : Damage(p) \/ Repair(p)

Spec == Init /\ [][Next]_vars

-----------------------------------------------------------------------------
(* Grants set for one version are never in force for another: an install   *)
(* that puts other files in place has reset them, whatever failed or died  *)
(* on the way.  Grants checked against the last good snapshot, served      *)
(* while a directory is damaged, are the exception.                        *)
GrantsFollowVersion ==
    \A a \in Apps, p \in Plugins :
        (policy[a][p] \in Entries /\ live[p] # Absent /\ ~policy[a][p].fallback)
            => policy[a][p].version = live[p].version

(* Between operations, an installed plugin is in its place, or several     *)
(* things went wrong at once: one failed file operation, in an install or  *)
(* a removal, loses nothing as long as no process dies or starts.          *)
SurvivesOneFailure ==
    op = Idle => \A p \in Plugins : held[p] # Absent => live[p] # Absent \/ p \in excused

(* An install is transactional: it leaves the prior version or the new one *)
(* (docs/PLAN.md:17).  It does not when the process dies between the two   *)
(* renames, as the next one sweeps the prior version away.                 *)
InstallIsTransactional ==
    op = Idle => \A p \in Plugins : held[p] # Absent => live[p] # Absent

(* Whenever every directory loads, a reader gets what is installed,        *)
(* whatever was cached before and wherever the last operation stopped.     *)
ReadsAreCurrent ==
    (op = Idle /\ ScanSucceeds) => Snapshot.plugins = [p \in Plugins |-> VersionAt(p)]

(* While a handler has moved a directory aside and may yet put it back,    *)
(* the plugin is what lies there.                                          *)
MovedAside(p) ==
    IF op = Idle \/ op.plugin # p THEN {}
    ELSE IF op.step = "publish" THEN Backups
    ELSE IF op.step = "drop" THEN {Trash} \cap trans ELSE {}
Registered(p) ==
    IF MovedAside(p) = {} THEN VersionAt(p)
    ELSE (CHOOSE d \in MovedAside(p) : TRUE).content.version

(* The file operations come to what PluginRegistry promises: one step for  *)
(* an install or a removal, and no loss but in an operation in which more  *)
(* went wrong than a file operation.                                       *)
Registry == INSTANCE PluginRegistry WITH
    installed <- [p \in Plugins |-> Registered(p)], troubled <- excused
ImplementsRegistry == Registry!Spec

=============================================================================
