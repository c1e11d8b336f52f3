---------------------------- MODULE CorePolicy ----------------------------
(***************************************************************************)
(* What Core lets a plugin do in an application: the stored policies       *)
(* (state.json, of which memory is a copy), the requests of the Manager    *)
(* that change them, and the execution plan computed from them, from the   *)
(* installed manifests and from the support level (daemon.rs).             *)
(*                                                                         *)
(* Every handler runs under the state mutex and replaces the state by one  *)
(* write that is all or nothing; a write that fails ends the handler with  *)
(* nothing changed, which is a stuttering step here.  How the files of a   *)
(* plugin are put in place is PluginStore; here only what can be left of   *)
(* an install or a removal matters, and which manifests are served.  While *)
(* the plugins' directory cannot be scanned those are the ones of the last *)
(* good scan, which an install may have replaced since: requests are then  *)
(* checked against a manifest that is no longer the installed one.         *)
(***************************************************************************)
EXTENDS Naturals, FiniteSets

CONSTANTS Apps, Plugins,
          Manifests,    \* the manifests of the packages that exist
          Requested,    \* the sets of grants the Manager sends
          Keys,         \* keys of plugin configurations
          Domains,      \* entries of manifests' network.domains
          Absent, NoApp, NoPolicy, NoSnapshot

(* IMPLEMENTED_*_CAPABILITIES. *)
RendererCapabilities == {"renderer.css", "renderer.script"}
LevelTwoCapabilities == RendererCapabilities \cup
    {"renderer.dom", "renderer.storage", "electron.window", "electron.windowControls",
     "network.access"}
AllCapabilities == LevelTwoCapabilities \cup {"runtime.unsafe"}

(* What of a manifest the plan depends on: the permissions it asks for,    *)
(* the payloads it has, the domains it may contact, and the keys of its    *)
(* configuration with those that have a default.                           *)
ManifestType == [permissions : SUBSET AllCapabilities,
                 css : BOOLEAN, renderer : BOOLEAN, main : BOOLEAN,
                 domains : SUBSET Domains, config : SUBSET Keys, defaults : SUBSET Keys]

ASSUME ManifestsAssumption ==
    \A m \in Manifests : m \in ManifestType /\ m.defaults \subseteq m.config
ASSUME RequestedAssumption == Requested \subseteq SUBSET AllCapabilities
ASSUME MarkersAssumption ==
    /\ Absent \notin Manifests
    /\ NoSnapshot \notin [Plugins -> Manifests \cup {Absent}]
    /\ NoApp \notin [level : 0..2, plugins : [Plugins ->
           [enabled : BOOLEAN, grants : SUBSET AllCapabilities, config : SUBSET Keys]
               \cup {NoPolicy}]]
    /\ NoPolicy \notin [enabled : BOOLEAN, grants : SUBSET AllCapabilities,
                        config : SUBSET Keys]

VARIABLES
    developer,    \* state.global.developer_mode
    apps,         \* state.applications
    installed,    \* the manifests in the plugins' directory
    damaged,       \* the directory or some plugin in it cannot be read: a scan fails
    cache,        \* plugin_cache: the manifests of the last good scan
    misread,      \* applications and plugins whose policy was set against a
                  \* manifest that is not the installed one (history)
    drops         \* renderer_gate_drops

state == <<developer, apps>>
manifestVars == <<installed, damaged, cache>>
policyVars == <<developer, apps, installed, damaged, cache, misread, drops>>

(* PluginPolicy. *)
Policies == [enabled : BOOLEAN, grants : SUBSET AllCapabilities, config : SUBSET Keys]
DefaultPolicy == [enabled |-> FALSE, grants |-> {}, config |-> {}]
ApplicationState == [level : 0..2, plugins : [Plugins -> Policies \cup {NoPolicy}]]
NoDrop == {}    \* a recorded set of grants is never empty
NoPolicies == [p \in Plugins |-> NoPolicy]
Dropped == [Apps -> [Plugins -> SUBSET AllCapabilities]]

PolicyTypeOK ==
    /\ developer \in BOOLEAN
    /\ apps \in [Apps -> ApplicationState \cup {NoApp}]
    /\ installed \in [Plugins -> Manifests \cup {Absent}]
    /\ damaged \in BOOLEAN
    /\ cache \in [Plugins -> Manifests \cup {Absent}] \cup {NoSnapshot}
    /\ misread \subseteq Apps \X Plugins
    /\ drops \in Dropped

-----------------------------------------------------------------------------
(* capabilities_for_support_level. *)
Capabilities(level, dev) ==
    IF level = 1 THEN RendererCapabilities
    ELSE IF level = 2 THEN IF dev THEN AllCapabilities ELSE LevelTwoCapabilities
    ELSE {}

Registered(a) == apps[a] # NoApp
Forgotten(f, a) == [f EXCEPT ![a] = [p \in Plugins |-> NoDrop]]

(* One policy of an application. *)
WithPolicy(application, p, policy) ==
    [level |-> application.level, plugins |-> [application.plugins EXCEPT ![p] = policy]]
StoredPolicy(a, p) ==
    IF apps[a].plugins[p] = NoPolicy THEN DefaultPolicy ELSE apps[a].plugins[p]

(* Every application's policy for a plugin is replaced. *)
PolicyEverywhere(p, policy) ==
    [a \in Apps |-> IF Registered(a) THEN WithPolicy(apps[a], p, policy) ELSE NoApp]

(* What was set for an application, or for a plugin, is given up. *)
WithoutApp(a) == {pair \in misread : pair[1] # a}
WithoutPlugin(p) == {pair \in misread : pair[2] # p}

-----------------------------------------------------------------------------
(* installed_plugins: a scan, or while that fails the last good one; with  *)
(* none, an error.  That an unchanged fingerprint spares the scan makes no *)
(* difference (ReadsAreCurrent of PluginStore).                            *)
Snapshot == IF damaged THEN cache ELSE installed
Readable == Snapshot # NoSnapshot
Served(p) == Snapshot[p]

ReadPlugins == Readable /\ cache' = Snapshot

(* The policies set against a manifest that was not the installed one,     *)
(* after one more was set.                                                 *)
MisreadWith(a, p) == IF Served(p) = installed[p] THEN misread ELSE misread \cup {<<a, p>>}

-----------------------------------------------------------------------------
(* Requests of the Manager.                                                *)

(* Faulty variant: policies are kept when the support level changes.       *)
RegisterKeepingPolicies(a, level) ==
    /\ apps' = [apps EXCEPT ![a] =
           [level |-> level, plugins |-> IF Registered(a) THEN apps[a].plugins ELSE NoPolicies]]
    /\ UNCHANGED <<developer, manifestVars, misread, drops>>

(* registerApplication: a change of the level resets the policies.         *)
RegisterApplication(a, level) ==
    /\ apps' = [apps EXCEPT ![a] =
           [level |-> level,
            plugins |-> IF ~Registered(a) THEN NoPolicies
                        ELSE IF apps[a].level = level THEN apps[a].plugins
                        ELSE [p \in Plugins |-> IF apps[a].plugins[p] = NoPolicy
                                                THEN NoPolicy ELSE DefaultPolicy]]]
    /\ misread' = IF Registered(a) /\ apps[a].level = level THEN misread ELSE WithoutApp(a)
    /\ UNCHANGED <<developer, manifestVars, drops>>

RemoveApplication(a) ==
    /\ Registered(a)
    /\ apps' = [apps EXCEPT ![a] = NoApp]
    /\ drops' = Forgotten(drops, a)
    /\ misread' = WithoutApp(a)
    /\ UNCHANGED <<developer, manifestVars>>

WithoutUnsafe(policies) ==
    [p \in Plugins |-> IF policies[p] = NoPolicy THEN NoPolicy
                       ELSE [enabled |-> policies[p].enabled,
                             grants  |-> policies[p].grants \ {"runtime.unsafe"},
                             config  |-> policies[p].config]]

UnsafeRevoked ==
    [a \in Apps |-> IF Registered(a)
                    THEN [level |-> apps[a].level, plugins |-> WithoutUnsafe(apps[a].plugins)]
                    ELSE NoApp]

(* setDeveloperMode: leaving it revokes every runtime.unsafe grant.        *)
SetDeveloperMode(enabled) ==
    /\ developer # enabled
    /\ developer' = enabled
    /\ apps' = IF enabled THEN apps ELSE UnsafeRevoked
    /\ UNCHANGED <<manifestVars, misread, drops>>

(* setApplicationPluginPolicy: the configuration is kept.                  *)
SetPolicy(a, p, enabled, grants) ==
    /\ Registered(a)
    /\ enabled => apps[a].level # 0
    /\ ReadPlugins
    /\ Served(p) # Absent
    /\ grants \subseteq Served(p).permissions
    /\ grants \subseteq Capabilities(apps[a].level, developer)
    /\ apps' = [apps EXCEPT ![a] = WithPolicy(@, p,
           [enabled |-> enabled, grants |-> grants, config |-> StoredPolicy(a, p).config])]
    /\ misread' = MisreadWith(a, p)
    /\ UNCHANGED <<developer, installed, damaged, drops>>

(* setPluginConfig replaces the whole configuration; every key must be     *)
(* declared.  config is the set of the keys that get a value.              *)
SetPluginConfig(a, p, config) ==
    /\ Registered(a)
    /\ ReadPlugins
    /\ Served(p) # Absent
    /\ config \subseteq Served(p).config
    /\ apps' = [apps EXCEPT ![a] = WithPolicy(@, p,
           [enabled |-> StoredPolicy(a, p).enabled, grants |-> StoredPolicy(a, p).grants,
            config |-> config])]
    /\ misread' = MisreadWith(a, p)
    /\ UNCHANGED <<developer, installed, damaged, drops>>

(* The manifest a plugin's directory holds once an install has ended, and  *)
(* the snapshot that is left.  The new version is published; the snapshot  *)
(* is dropped, but for a version before whose backup cannot be removed.    *)
(* Or it is not, and the old version stays, or when it cannot be put back, *)
(* or the process dies, none.                                              *)
Published(p, m) ==
    /\ installed' = [installed EXCEPT ![p] = m]
    /\ \/ cache' = NoSnapshot
       \/ installed[p] # Absent /\ UNCHANGED cache
NotPublished(p) ==
    /\ \E left \in {installed[p], Absent} : installed' = [installed EXCEPT ![p] = left]
    /\ UNCHANGED cache

(* Faulty variant: an update keeps the grants the new version asks for.    *)
InstallKeepingGrants(p, m) ==
    /\ apps' = [a \in Apps |->
           IF ~Registered(a) THEN NoApp
           ELSE WithPolicy(apps[a], p, [enabled |-> StoredPolicy(a, p).enabled,
                    grants |-> StoredPolicy(a, p).grants \cap m.permissions, config |-> {}])]
    /\ misread' = WithoutPlugin(p)
    /\ Published(p, m) \/ NotPublished(p)
    /\ UNCHANGED <<developer, damaged, drops>>

(* installPlugin: every application's policy for the plugin is reset, then *)
(* the files are put in place.                                             *)
InstallPlugin(p, m) ==
    /\ apps' = PolicyEverywhere(p, DefaultPolicy)
    /\ misread' = WithoutPlugin(p)
    /\ Published(p, m) \/ NotPublished(p)
    /\ UNCHANGED <<developer, damaged, drops>>

(* removePlugin: what is served must be in the directory to be moved away. *)
RemovePlugin(p) ==
    /\ Readable /\ Served(p) # Absent
    /\ installed[p] # Absent
    /\ apps' = PolicyEverywhere(p, NoPolicy)
    /\ installed' = [installed EXCEPT ![p] = Absent]
    /\ cache' = NoSnapshot
    /\ misread' = WithoutPlugin(p)
    /\ UNCHANGED <<developer, damaged, drops>>

(* The files are moved away first: when the state cannot be written, or    *)
(* the process dies before it is, the policies stay behind; the files may  *)
(* be moved back.                                                          *)
RemovalCutShort(p) ==
    /\ Readable /\ Served(p) # Absent
    /\ installed[p] # Absent
    /\ \E left \in {installed[p], Absent} : installed' = [installed EXCEPT ![p] = left]
    /\ cache' = NoSnapshot
    /\ UNCHANGED <<developer, apps, damaged, misread, drops>>

-----------------------------------------------------------------------------
(* execution_plan.                                                         *)

(* The empty plan of an application that is not registered or at level 0   *)
(* needs no manifest.                                                      *)
ReadsForPlan(a) == Registered(a) /\ apps[a].level # 0

Effective(a, p) ==
    apps[a].plugins[p].grants \cap Served(p).permissions
        \cap Capabilities(apps[a].level, developer)

Planned(a) ==
    IF ~ReadsForPlan(a) \/ ~Readable THEN {}
    ELSE {p \in Plugins : /\ Served(p) # Absent
                          /\ apps[a].plugins[p] # NoPolicy
                          /\ apps[a].plugins[p].enabled
                          /\ Effective(a, p) # {}}

HasGate(a, p) == Effective(a, p) \cap {"renderer.script", "runtime.unsafe"} # {}
ActiveDrops(a) == {p \in Planned(a) : Served(p).renderer /\ ~HasGate(a, p)}

(* merge_plugin_config: the declared keys that are stored or have a        *)
(* default.                                                                *)
MergedConfig(a, p) ==
    Served(p).config \cap (apps[a].plugins[p].config \cup Served(p).defaults)

(* What the application's plugins get: the plugins that are not in the     *)
(* domain get nothing.                                                     *)
Plan(a) ==
    [p \in Planned(a) |->
        [granted  |-> Effective(a, p),
         css      |-> Served(p).css /\ "renderer.css" \in Effective(a, p),
         renderer |-> Served(p).renderer /\ HasGate(a, p),
         main     |-> /\ Served(p).main
                      /\ Effective(a, p) \cap {"electron.window", "runtime.unsafe"} # {},
         config   |-> MergedConfig(a, p)]]

(* The drops of this computation for which an event is logged: those that  *)
(* are not recorded with the same grants.                                  *)
NewDrops(a) == {p \in ActiveDrops(a) : drops[a][p] # Effective(a, p)}

(* Recorded drops: the new ones are inserted, those of planned plugins     *)
(* with nothing to drop removed, and of this application's others only the *)
(* active ones retained.                                                   *)
DropsAfter(a) ==
    [drops EXCEPT ![a] = [p \in Plugins |->
        IF p \in NewDrops(a) THEN Effective(a, p)
        ELSE IF p \in ActiveDrops(a) THEN drops[a][p]
        ELSE NoDrop]]

(* The plan of one application is computed, for a poll or to authorise     *)
(* logs or a network request.                                              *)
ComputePlan(a) ==
    /\ IF ReadsForPlan(a) THEN ReadPlugins ELSE UNCHANGED cache
    /\ drops' = DropsAfter(a)
    /\ UNCHANGED <<developer, apps, installed, damaged, misread>>

(* Another request that reads the plugins: the Manager's snapshot, a       *)
(* plugin's configuration, or one that is refused afterwards.              *)
Read == ReadPlugins /\ UNCHANGED <<developer, apps, installed, damaged, misread, drops>>

(* From outside: a plugin's directory is damaged, or repaired.             *)
DirectoryChanges ==
    /\ damaged' = ~damaged
    /\ UNCHANGED <<developer, apps, installed, cache, misread, drops>>

-----------------------------------------------------------------------------
(* A new Core process reads the state it finds; the snapshot and what it   *)
(* logged are forgotten.                                                   *)
Restart ==
    /\ drops' = [a \in Apps |-> [p \in Plugins |-> NoDrop]]
    /\ cache' = NoSnapshot
    /\ UNCHANGED <<developer, apps, installed, damaged, misread>>

(* Core starts with no application registered; plugins may be installed    *)
(* and developer mode on.                                                  *)
PolicyInit ==
    /\ developer \in BOOLEAN
    /\ apps = [a \in Apps |-> NoApp]
    /\ installed \in [Plugins -> Manifests \cup {Absent}]
    /\ damaged = FALSE /\ cache = NoSnapshot /\ misread = {}
    /\ drops = [a \in Apps |-> [p \in Plugins |-> NoDrop]]

Manage ==
    \/ \E a \in Apps, level \in 0..2 : RegisterApplication(a, level)
    \/ \E a \in Apps : RemoveApplication(a)
    \/ \E enabled \in BOOLEAN : SetDeveloperMode(enabled)
    \/ \E a \in Apps, p \in Plugins, enabled \in BOOLEAN, grants \in Requested :
           SetPolicy(a, p, enabled, grants)
    \/ \E a \in Apps, p \in Plugins, config \in SUBSET Keys : SetPluginConfig(a, p, config)
    \/ \E p \in Plugins, m \in Manifests : InstallPlugin(p, m)
    \/ \E p \in Plugins : RemovePlugin(p) \/ RemovalCutShort(p)

PolicyNext == Manage \/ (\E a \in Apps : ComputePlan(a)) \/ Read \/ DirectoryChanges \/ Restart

PolicySpec == PolicyInit /\ [][PolicyNext]_policyVars

-----------------------------------------------------------------------------
(* No history leaves a policy that Core would refuse today: stored grants  *)
(* are within the capabilities of the application's level (so none is      *)
(* runtime.unsafe outside developer mode) and nothing is enabled at level  *)
(* 0; grants are within the installed manifest and stored configuration is *)
(* declared by it, but for a policy that was set while an older manifest   *)
(* was served in its place (misread), until it is reset.  What a removal   *)
(* that was cut short leaves behind never reaches another version of the   *)
(* plugin.                                                                 *)
Acceptable(a, p) ==
    LET policy == apps[a].plugins[p]
    IN  /\ policy.grants \subseteq Capabilities(apps[a].level, developer)
        /\ policy.enabled => apps[a].level # 0
        /\ (installed[p] # Absent /\ <<a, p>> \notin misread) =>
               /\ policy.grants \subseteq installed[p].permissions
               /\ policy.config \subseteq installed[p].config

StoredPoliciesAcceptable ==
    \A a \in Apps, p \in Plugins :
        (apps[a] # NoApp /\ apps[a].plugins[p] # NoPolicy) => Acceptable(a, p)

(* Default deny (the test default_deny_and_session_identity_isolation):    *)
(* what a plugin may do in an application, by the installed manifest or    *)
(* the one a fallback would serve, is never added to but by                *)
(* setApplicationPluginPolicy for these two.  A level or developer mode    *)
(* set back, an application registered again, a plugin that returns after  *)
(* a removal or one cut short, or a directory that loads again bring       *)
(* nothing back.  And a version that comes to be served in place of        *)
(* another starts with nothing, even where it asks for the same, unless    *)
(* the policy was set against the older one when it was already replaced.  *)
AsksFor(manifest) == IF manifest = Absent THEN {} ELSE manifest.permissions
MayAskFor(p) == AsksFor(installed[p]) \cup (IF cache = NoSnapshot THEN {} ELSE AsksFor(cache[p]))
Allowed(a, p) ==
    IF apps[a] = NoApp \/ apps[a].plugins[p] = NoPolicy \/ ~apps[a].plugins[p].enabled THEN {}
    ELSE apps[a].plugins[p].grants \cap Capabilities(apps[a].level, developer) \cap MayAskFor(p)
Given(a, p) == IF p \in Planned(a) THEN Effective(a, p) ELSE {}
Asked(a, p) == \E enabled \in BOOLEAN, grants \in Requested : SetPolicy(a, p, enabled, grants)
Replaced(p) == Readable /\ Readable' /\ Served(p)' # Served(p)

NothingGrantedUnasked ==
    [][\A a \in Apps, p \in Plugins :
           /\ Allowed(a, p)' \subseteq Allowed(a, p) \/ Asked(a, p)
           /\ Replaced(p) /\ <<a, p>> \notin misread' => Given(a, p)' = {}]_policyVars

=============================================================================
