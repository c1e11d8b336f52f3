------------------------------- MODULE Launch -------------------------------
(***************************************************************************)
(* The injector launcher (launcher.rs).  For each start of an application  *)
(* it builds an archive in a cache slot of that application, links the     *)
(* app's native modules beside it, obtains a launch token from Core and    *)
(* starts the target with both in its environment.  A packaged             *)
(* application cannot be started that way: the launcher leaves the         *)
(* environment in a sidecar file, lets Windows activate the application    *)
(* and attaches to the new process.  Launchers are processes of their own: *)
(* any number run at once, each may die at any step, and applications are  *)
(* updated and exit under them.                                            *)
(***************************************************************************)
EXTENDS AsarMerge, IfeoRegistration

CONSTANTS Packaged,     \* the application that is activated (OpenAI.Codex)
          Launchers,    \* launcher processes, one launch each
          Sources,      \* the archives applications ship, by name
          Ships,        \* and what each contains
          Spellings,    \* how the path of an executable is written
          MaxUpdates,   \* bound: updates of applications
          None, Torn

(* An application's own index.js and package.json, if packed, are files:   *)
(* what the archive writer makes of a link there is left open.             *)
ASSUME LaunchAssumption ==
    /\ Packaged \in Apps /\ MaxUpdates \in Nat
    /\ None # Torn /\ {None, Torn, "stub"} \cap Sources = {} /\ "stub" \notin {None, Torn}
    /\ \A s \in Sources : DOMAIN Ships[s].links \cap Overridden = {}
    /\ Spellings \subseteq {"plain", "verbatim", "verbatim_slashes", "unc", "verbatim_unc"}

VARIABLES
    install,   \* each application's own archive and native modules
    slot,      \* the cache: an archive and what lies beside it
    run,       \* each launcher process
    target,    \* the process each launcher's start led to
    sidecar,   \* tronhawk-sidecar.json
    updates

launchVars == <<install, slot, run, target, sidecar, updates>>

(* Faulty variant: one slot for all applications.                          *)
SharedCacheId(a) == CHOOSE b \in Apps : TRUE

(* asar_cache_id: a hash of the canonical path, one slot per application   *)
(* (collisions of the 32-bit hash are left out).                           *)
CacheId(a) == a

(* Faulty variant: the prefix is known in one spelling only.               *)
NormalPathOneSpelling(spelling) ==
    CASE spelling \in {"plain", "verbatim"} -> "plain"
      [] spelling \in {"unc", "verbatim_unc"} -> "unc"
      [] OTHER -> spelling

(* normalize_win_exe_path: either spelling of the verbatim prefix goes.    *)
NormalPath(spelling) ==
    CASE spelling \in {"plain", "verbatim", "verbatim_slashes"} -> "plain"
      [] spelling \in {"unc", "verbatim_unc"} -> "unc"

Built == {"stub"} \cup {s \in Sources : Mergeable(Ships[s])}
Content(built) == IF built = "stub" THEN Stub ELSE Merge(Ships[built])

Places == {"idle", "read", "write", "writing", "link", "unlinked", "session",
           "spawn", "leave", "activate", "wait", "attach", "clean", "ok", "kept", "gone"}

(* Type invariant. *)
LaunchTypeOK ==
    /\ \A a \in Apps : /\ install[a].source \in Sources \cup {None}
                       /\ install[a].native \in BOOLEAN
                       /\ slot[a].of \in Apps \cup {None}
                       /\ slot[a].from \in Built \cup {None, Torn}
                       /\ slot[a].link \in Apps \cup {"absent", "elsewhere", "occupied"}
    /\ \A l \in Launchers :
          /\ run[l].at \in Places /\ run[l].app \in Apps /\ run[l].packaged \in BOOLEAN
          /\ run[l].path \in {"plain", "unc"}
          /\ run[l].work \in Built \cup {None} /\ run[l].mixed \in BOOLEAN
          /\ run[l].token \in Apps \cup {None} /\ run[l].before \subseteq Launchers
          /\ target[l] # None => /\ target[l].app \in Apps /\ target[l].slot \in Apps \cup {None}
                                 /\ target[l].token \in Apps \cup {None}
                                 /\ target[l].clobbered \in BOOLEAN
    /\ sidecar # None => sidecar.app = Packaged /\ sidecar.token \in {Packaged, None}
    /\ updates \in 0..MaxUpdates

LaunchInit ==
    /\ install \in [Apps -> [source : Sources \cup {None}, native : BOOLEAN]]
    /\ slot = [a \in Apps |-> [of |-> None, from |-> None, link |-> "absent"]]
    /\ run = [l \in Launchers |->
                [at |-> "idle", app |-> Packaged, packaged |-> FALSE, path |-> "plain",
                 work |-> None, mixed |-> FALSE, token |-> None, before |-> {}]]
    /\ target = [l \in Launchers |-> None]
    /\ sidecar = None
    /\ updates = 0

Slot(l) == CacheId(run[l].app)
Goes(l, place) == run' = [run EXCEPT ![l].at = place]

-----------------------------------------------------------------------------
(* launch, from IFEO or from the Manager.  The injector's files may be     *)
(* missing (Dies); TRONHAWK_MINIMAL_ASAR asks for the stub.                *)
Start(l, a, spelling) ==
    /\ run[l].at = "idle"
    /\ \/ run' = [run EXCEPT ![l].at = "read", ![l].app = a, ![l].path = NormalPath(spelling)]
       \/ run' = [run EXCEPT ![l].at = "write", ![l].app = a, ![l].path = NormalPath(spelling),
                             ![l].work = "stub"]
    /\ UNCHANGED <<install, slot, target, sidecar, updates>>

(* aumid: the install root and its layout are found first.                 *)
StartPackaged(l) ==
    /\ run[l].at = "idle"
    /\ install[Packaged].source # None
    /\ run' = [run EXCEPT ![l].at = "read", ![l].app = Packaged, ![l].packaged = TRUE]
    /\ UNCHANGED <<install, slot, target, sidecar, updates>>

(* find_real_asar and the first half of build_merged_asar: an app without  *)
(* an archive, or with one that cannot be merged, falls back to the stub;  *)
(* a packaged app has no fallback (Dies).                                  *)
Read(l) ==
    /\ run[l].at = "read"
    /\ LET source == install[run[l].app].source IN
       IF source # None /\ Mergeable(Ships[source])
         THEN run' = [run EXCEPT ![l].at = "write", ![l].work = source]
         ELSE /\ ~run[l].packaged
              /\ run' = [run EXCEPT ![l].at = "write", ![l].work = "stub"]
    /\ UNCHANGED <<install, slot, target, sidecar, updates>>

(* The archive is written in place: created or truncated, then filled.     *)
Writers(l) == {m \in Launchers : run[m].at = "writing" /\ Slot(m) = Slot(l)}

WriteBegins(l) ==
    /\ run[l].at = "write"
    /\ slot' = [slot EXCEPT ![Slot(l)] = [@ EXCEPT !.of = run[l].app, !.from = Torn]]
    /\ run' = [m \in Launchers |->
                 IF m = l THEN [run[m] EXCEPT !.at = "writing", !.mixed = Writers(l) # {}]
                 ELSE [run[m] EXCEPT !.mixed = @ \/ m \in Writers(l)]]
    /\ UNCHANGED <<install, target, sidecar, updates>>

(* Two writers at once may leave any mixture of what they wrote.           *)
WriteEnds(l) ==
    /\ run[l].at = "writing"
    /\ \/ slot' = [slot EXCEPT ![Slot(l)] = [@ EXCEPT !.of = run[l].app, !.from = run[l].work]]
       \/ run[l].mixed /\ slot' = [slot EXCEPT ![Slot(l)].from = Torn]
    /\ Goes(l, IF run[l].work = "stub" THEN "session" ELSE "link")
    /\ UNCHANGED <<install, target, sidecar, updates>>

(* A failed write of the merged archive is followed by the stub.           *)
WriteFails(l) ==
    /\ run[l].at \in {"write", "writing"} /\ run[l].work # "stub" /\ ~run[l].packaged
    /\ run' = [run EXCEPT ![l].at = "write", ![l].work = "stub"]
    /\ UNCHANGED <<install, slot, target, sidecar, updates>>

-----------------------------------------------------------------------------
(* classify_unpacked_link, for a slot whose app has native modules.        *)
LinkState(l) ==
    CASE slot[Slot(l)].link \in {"absent", "occupied"} -> slot[Slot(l)].link
      [] slot[Slot(l)].link = run[l].app /\ install[run[l].app].native -> "linked"
      [] OTHER -> "stale"

SetLink(l, link) == slot' = [slot EXCEPT ![Slot(l)].link = link]

(* link_app_asar_unpacked: every error is logged and passed over.          *)
LinkPasses(l) ==
    /\ run[l].at \in {"link", "unlinked"}
    /\ Goes(l, "session")
    /\ UNCHANGED <<install, slot, target, sidecar, updates>>

(* reconcile_unpacked_link: a stale link goes first.                       *)
RemoveLink(l) ==
    /\ run[l].at = "link" /\ install[run[l].app].native /\ LinkState(l) = "stale"
    /\ SetLink(l, "absent")
    /\ Goes(l, "unlinked")
    /\ UNCHANGED <<install, target, sidecar, updates>>

(* create_unpacked_junction: mklink fails over anything that is there.     *)
CreateLink(l) ==
    /\ run[l].at \in {"link", "unlinked"} /\ install[run[l].app].native
    /\ LinkState(l) = "absent"
    /\ SetLink(l, run[l].app)
    /\ Goes(l, "session")
    /\ UNCHANGED <<install, target, sidecar, updates>>

(* read_control_token, create_launch_session: Core issues the token for    *)
(* the application whose executable the path is.                           *)
Session(l) ==
    /\ run[l].at = "session"
    /\ \/ run' = [run EXCEPT ![l].at = IF run[l].packaged THEN "leave" ELSE "spawn",
                             ![l].token = run[l].app]
       \/ run[l].packaged /\ Goes(l, "leave")          \* launch_session_secret: empty
    /\ UNCHANGED <<install, slot, target, sidecar, updates>>

(* What a process has in its environment once the DLL is loaded: a sidecar *)
(* that is there replaces what it inherited (load_sidecar_env).            *)
Injected(a, s, token) ==
    IF sidecar = None THEN [app |-> a, slot |-> s, token |-> token, clobbered |-> FALSE]
    ELSE [app |-> a, slot |-> CacheId(sidecar.app), token |-> sidecar.token,
          clobbered |-> TRUE]

(* electron_hook::launch, which cannot start a verbatim path.              *)
Spawn(l) ==
    /\ run[l].at = "spawn" /\ run[l].path \in {"plain", "unc"}
    /\ target' = [target EXCEPT ![l] = Injected(run[l].app, Slot(l), run[l].token)]
    /\ Goes(l, "ok")
    /\ UNCHANGED <<install, slot, sidecar, updates>>

-----------------------------------------------------------------------------
(* aumid, 3): the sidecar, in place of an environment.                     *)
WriteSidecar(l) ==
    /\ run[l].at = "leave"
    /\ sidecar' = [app |-> run[l].app, token |-> run[l].token]
    /\ Goes(l, "activate")
    /\ UNCHANGED <<install, slot, target, updates>>

Instances == {m \in Launchers : target[m] # None /\ target[m].app = Packaged}

(* 4): the processes that run before, then the activation, which starts a  *)
(* process or brings the window of a running one to the front.             *)
Snapshot(l) ==
    /\ run[l].at = "activate"
    /\ run' = [run EXCEPT ![l].at = "wait", ![l].before = Instances]
    /\ UNCHANGED <<install, slot, target, sidecar, updates>>

Activated(l) ==
    /\ run[l].at = "wait"
    /\ \/ target' = [target EXCEPT ![l] =
                        [app |-> Packaged, slot |-> None, token |-> None, clobbered |-> FALSE]]
       \/ Instances # {} /\ UNCHANGED target
    /\ Goes(l, "attach")
    /\ UNCHANGED <<install, slot, sidecar, updates>>

(* 5), inject_dll_into_process: some process that was not there before     *)
(* loads the DLL, unless it has it already.  After 10 seconds the wait is  *)
(* an error (Dies), though the process may still load it.                  *)
Attach(l, m, noticed) ==
    /\ run[l].at = "attach" /\ m \in Instances \ run[l].before
    /\ target' = [target EXCEPT ![m] =
                     IF @.slot # None THEN @ ELSE Injected(@.app, None, None)]
    /\ Goes(l, IF noticed THEN "clean" ELSE "gone")
    /\ UNCHANGED <<install, slot, sidecar, updates>>

(* The sidecar goes once the attach is done; best effort.                  *)
RemoveSidecar(l) ==
    /\ run[l].at = "clean"
    /\ \/ sidecar' = None /\ Goes(l, "ok")
       \/ Goes(l, "kept") /\ UNCHANGED sidecar
    /\ UNCHANGED <<install, slot, target, updates>>

(* Any step ends the launcher when it fails, and it may be killed.         *)
Dies(l) ==
    /\ run[l].at \notin {"idle", "ok", "kept", "gone"}
    /\ Goes(l, "gone")
    /\ UNCHANGED <<install, slot, target, sidecar, updates>>

(* A target ends. *)
Exits(l) ==
    /\ target[l] # None
    /\ target' = [target EXCEPT ![l] = None]
    /\ UNCHANGED <<install, slot, run, sidecar, updates>>

(* An application is updated; a junction into the directory of its former  *)
(* version (app-<version>) then leads nowhere.                             *)
Update(a) ==
    /\ updates < MaxUpdates
    /\ updates' = updates + 1
    /\ \E source \in Sources \cup {None}, native \in BOOLEAN :
          install' = [install EXCEPT ![a] = [source |-> source, native |-> native]]
    /\ \E gone \in {b \in Apps : slot[b].link = a} \cup {None} :
          slot' = IF gone = None THEN slot ELSE [slot EXCEPT ![gone].link = "elsewhere"]
    /\ UNCHANGED <<run, target, sidecar>>

LaunchNext ==
    \/ \E l \in Launchers :
          \/ \E a \in Apps, spelling \in Spellings : Start(l, a, spelling)
          \/ StartPackaged(l) \/ Read(l) \/ WriteBegins(l) \/ WriteEnds(l) \/ WriteFails(l)
          \/ LinkPasses(l) \/ RemoveLink(l) \/ CreateLink(l) \/ Session(l) \/ Spawn(l)
          \/ WriteSidecar(l) \/ Snapshot(l) \/ Activated(l) \/ RemoveSidecar(l)
          \/ \E m \in Launchers, noticed \in BOOLEAN : Attach(l, m, noticed)
          \/ Dies(l) \/ Exits(l)
    \/ \E a \in Apps : Update(a)

LaunchSpec == LaunchInit /\ [][LaunchNext]_launchVars

-----------------------------------------------------------------------------
(* What the cache holds under an application's name is that application's: *)
(* its own files, all of them, with our entry point (or the stub), and a   *)
(* link, if it leads anywhere, into its own directory.  Only while some    *)
(* launcher of the application writes, or after one died writing or two    *)
(* wrote at once, is the archive torn.                                     *)
SlotIsItsApps ==
    \A a \in Apps :
       LET s == slot[CacheId(a)] IN
       /\ s.of \in {a, None} /\ s.link \in {a, "absent", "elsewhere", "occupied"}
       /\ s.from \in Sources => StandsInFor(Content(s.from), Ships[s.from])
       /\ s.from = Torn => \E l \in Launchers : /\ run[l].app = a
                                                /\ \/ run[l].at \in {"writing", "write", "gone"}
                                                   \/ run[l].mixed

(* A target runs as the application it is: from that application's slot,   *)
(* with a token for that application (or with none, when Core could not be *)
(* asked for an activated one).  A sidecar replaces this, but is there     *)
(* only while a packaged launch is under way or after one that failed: "it *)
(* must never outlive the attach" (launcher.rs:697).                       *)
RunsAsItself ==
    /\ \A l \in Launchers :
          target[l] # None /\ target[l].slot # None /\ ~target[l].clobbered =>
             /\ target[l].slot = CacheId(target[l].app)
             /\ target[l].token = target[l].app
             /\ slot[target[l].slot].of = target[l].app
    /\ \A l \in Launchers :
          target[l] # None /\ target[l].clobbered =>
             /\ target[l].slot = CacheId(Packaged)
             /\ target[l].token \in {Packaged, None}
             /\ \E m \in Launchers : run[m].packaged
    /\ sidecar # None =>
          \E m \in Launchers : /\ run[m].packaged
                               /\ run[m].at \in {"activate", "wait", "attach", "clean",
                                                 "kept", "gone"}

=============================================================================
