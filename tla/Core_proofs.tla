----------------------------- MODULE Core_proofs -----------------------------
(***************************************************************************)
(* Proofs about Core: its policies for any applications, plugins,          *)
(* manifests and requests; the exchanges of the network proxy for any      *)
(* whitelists and answers; its start for any commands, processes and       *)
(* faults.                                                                 *)
(***************************************************************************)
EXTENDS MCCore, Selection_proofs, TLAPS

(* Acceptable of one policy, by its values; and grants are only there when *)
(* what a fallback would serve is up to date.                              *)
Fits(policy, level, dev, manifest, current) ==
    /\ policy.grants \subseteq Capabilities(level, dev)
    /\ policy.enabled => level # 0
    /\ manifest # Absent =>
           /\ policy.grants \subseteq manifest.permissions
           /\ policy.config \subseteq manifest.config
    /\ policy.grants # {} => current

(* The manifest a policy was set against, none where that is not the       *)
(* installed one; and whether the last good scan has the installed one.    *)
Against(a, p) == IF <<a, p>> \in misread THEN Absent ELSE installed[p]
Current(a, p) == <<a, p>> \in misread \/ cache = NoSnapshot \/ cache[p] = installed[p]

(* What is true of every application and plugin: a policy has its type and *)
(* fits.  Policy(f, a, p) is what the applications f hold for them.        *)
Policy(f, a, p) == f[a].plugins[p]
WellTyped(f) == f \in [Apps -> ApplicationState \cup {NoApp}]
AllFit ==
    \A a \in Apps, p \in Plugins :
        (apps[a] # NoApp /\ Policy(apps, a, p) # NoPolicy) =>
            Fits(Policy(apps, a, p), apps[a].level, developer, Against(a, p), Current(a, p))

PolicyInv == PolicyTypeOK /\ AllFit
ManifestTypes == [Plugins -> Manifests \cup {Absent}]

-----------------------------------------------------------------------------
(* AllFit is stronger than StoredPoliciesAcceptable. *)
LEMMA AllFitIsAcceptable == AllFit => StoredPoliciesAcceptable
  BY DEF AllFit, Policy, Fits, Against, StoredPoliciesAcceptable, Acceptable

(* The same as the invariant after a step, pair by pair. *)
LEMMA AllFitAfter ==
  ASSUME \A b \in Apps, q \in Plugins :
             (apps'[b] # NoApp /\ Policy(apps', b, q) # NoPolicy) =>
                 Fits(Policy(apps', b, q), apps'[b].level, developer',
                      Against(b, q)', Current(b, q)')
  PROVE  AllFit'
  BY DEF AllFit, Policy

(* Nothing has changed for a pair whose manifests and mark stay.           *)
LEMMA SamePair ==
  ASSUME NEW b \in Apps, NEW q \in Plugins, UNCHANGED <<installed, cache>>,
         <<b, q>> \in misread' <=> <<b, q>> \in misread
  PROVE  Against(b, q)' = Against(b, q) /\ (Current(b, q)' <=> Current(b, q))
  BY DEF Against, Current

(* What is up to date stays so when the manifests are read.                *)
LEMMA ReadPair ==
  ASSUME NEW b \in Apps, NEW q \in Plugins, UNCHANGED installed, ReadPlugins,
         <<b, q>> \in misread' <=> <<b, q>> \in misread
  PROVE  Against(b, q)' = Against(b, q) /\ (Current(b, q) => Current(b, q)')
  BY DEF Against, Current, ReadPlugins, Snapshot

LEMMA SnapshotType ==
  ASSUME PolicyTypeOK, ReadPlugins
  PROVE  Snapshot \in ManifestTypes /\ cache' \in ManifestTypes \cup {NoSnapshot}
  BY DEF PolicyTypeOK, ReadPlugins, Snapshot, Readable, ManifestTypes

(* The default policy has its type, and fits everywhere. *)
LEMMA DefaultFits ==
  /\ DefaultPolicy \in Policies
  /\ \A level, dev, manifest, current : Fits(DefaultPolicy, level, dev, manifest, current)
  BY DEF DefaultPolicy, Policies, Fits

(* Developer mode adds capabilities and takes none away; all of them exist *)
(* in AllCapabilities.  Without it nobody has runtime.unsafe, and that is  *)
(* the only difference.                                                    *)
LEMMA DeveloperCapabilities ==
  ASSUME NEW level \in 0..2
  PROVE  /\ Capabilities(level, FALSE) = Capabilities(level, TRUE) \ {"runtime.unsafe"}
         /\ Capabilities(level, FALSE) \subseteq Capabilities(level, TRUE)
         /\ Capabilities(level, TRUE) \subseteq AllCapabilities
  BY DEF Capabilities, RendererCapabilities, LevelTwoCapabilities, AllCapabilities

(* An application keeps its type when its policies are policies. *)
LEMMA StateOf ==
  ASSUME NEW level \in 0..2, NEW policies \in [Plugins -> Policies \cup {NoPolicy}]
  PROVE  [level |-> level, plugins |-> policies] \in ApplicationState
  BY DEF ApplicationState

LEMMA StateHas ==
  ASSUME NEW s \in ApplicationState
  PROVE  /\ s.level \in 0..2
         /\ s.plugins \in [Plugins -> Policies \cup {NoPolicy}]
         /\ s = [level |-> s.level, plugins |-> s.plugins]
  BY DEF ApplicationState

LEMMA NotNoApp ==
  ASSUME NEW s \in ApplicationState
  PROVE  s # NoApp
  BY MarkersAssumption DEF ApplicationState, Policies

LEMMA NotNoPolicy ==
  ASSUME NEW policy \in Policies
  PROVE  policy # NoPolicy
  BY MarkersAssumption DEF Policies

-----------------------------------------------------------------------------
(* The recorded drops stay what they are when a plan is computed: sets of  *)
(* capabilities.                                                           *)
LEMMA EffectiveCapabilities ==
  ASSUME PolicyTypeOK, NEW a \in Apps, NEW p \in Plugins, p \in Planned(a)
  PROVE  Effective(a, p) \in SUBSET AllCapabilities
  <1>1. apps[a] # NoApp /\ apps[a].level # 0
    BY DEF Planned, ReadsForPlan, Registered
  <1>2. apps[a] \in ApplicationState
    BY <1>1 DEF PolicyTypeOK
  <1>3. developer \in BOOLEAN /\ apps[a].level \in 0..2
    BY <1>2, StateHas DEF PolicyTypeOK
  <1>4. Capabilities(apps[a].level, developer) \subseteq AllCapabilities
    BY <1>3, DeveloperCapabilities
  <1> QED  BY <1>4 DEF Effective

LEMMA PlanReadKeeps ==
  ASSUME PolicyInv, UNCHANGED <<developer, apps, installed, damaged, misread>>,
         ReadPlugins \/ UNCHANGED cache, drops' \in Dropped
  PROVE  PolicyInv'
  <1>1. PolicyTypeOK'
    BY SnapshotType DEF PolicyInv, PolicyTypeOK, ManifestTypes
  <1>2. ASSUME NEW b \in Apps, NEW q \in Plugins, apps[b] # NoApp, Policy(apps, b, q) # NoPolicy
        PROVE  Fits(Policy(apps, b, q), apps[b].level, developer, Against(b, q)', Current(b, q)')
    <2>1. Against(b, q)' = Against(b, q) /\ (Current(b, q) => Current(b, q)')
      BY SamePair, ReadPair
    <2>2. Fits(Policy(apps, b, q), apps[b].level, developer, Against(b, q), Current(b, q))
      BY <1>2 DEF PolicyInv, AllFit
    <2> QED  BY <2>1, <2>2 DEF Fits
  <1>3. AllFit'
    BY <1>2 DEF AllFit, Policy
  <1> QED  BY <1>1, <1>3 DEF PolicyInv

LEMMA ComputePlanKeeps ==
  ASSUME PolicyInv, NEW a \in Apps, ComputePlan(a)
  PROVE  PolicyInv'
  <1>1. /\ UNCHANGED <<developer, apps, installed, damaged, misread>>
        /\ ReadPlugins \/ UNCHANGED cache
    BY DEF ComputePlan
  <1>2. drops' \in Dropped
    <2> DEFINE new == [p \in Plugins |->
                 IF p \in NewDrops(a) THEN Effective(a, p)
                 ELSE IF p \in ActiveDrops(a) THEN drops[a][p] ELSE NoDrop]
    <2>1. drops \in Dropped /\ drops' = [drops EXCEPT ![a] = new]
      BY DEF PolicyInv, PolicyTypeOK, ComputePlan, DropsAfter
    <2>2. \A p \in Plugins : new[p] \in SUBSET AllCapabilities
      <3> SUFFICES ASSUME NEW p \in Plugins
                   PROVE  new[p] \in SUBSET AllCapabilities
        OBVIOUS
      <3>1. CASE p \in NewDrops(a)
        <4>1. p \in Planned(a)  BY <3>1 DEF NewDrops, ActiveDrops
        <4> QED  BY <3>1, <4>1, EffectiveCapabilities DEF PolicyInv
      <3>2. CASE p \notin NewDrops(a)
        BY <3>2, <2>1 DEF Dropped, NoDrop
      <3> QED  BY <3>1, <3>2
    <2>3. new \in [Plugins -> SUBSET AllCapabilities]
      BY <2>2
    <2> QED  BY <2>1, <2>3 DEF Dropped
  <1> QED  BY <1>1, <1>2, PlanReadKeeps

(* Reading keeps the policies as they fit. *)
LEMMA ReadKeeps ==
  ASSUME PolicyInv, Read
  PROVE  PolicyInv'
  <1>1. drops' \in Dropped /\ ReadPlugins /\ UNCHANGED <<developer, apps, installed, damaged, misread>>
    BY DEF Read, PolicyInv, PolicyTypeOK
  <1> QED  BY <1>1, PlanReadKeeps

LEMMA DirectoryChangesKeeps ==
  ASSUME PolicyInv, DirectoryChanges
  PROVE  PolicyInv'
  BY DEF PolicyInv, PolicyTypeOK, DirectoryChanges, AllFit, Policy, Against, Current

LEMMA RestartKeeps ==
  ASSUME PolicyInv, Restart
  PROVE  PolicyInv'
  <1>1. AllFit'
    BY DEF PolicyInv, Restart, AllFit, Policy, Against, Current, Fits
  <1> QED  BY <1>1 DEF PolicyInv, PolicyTypeOK, Restart, Dropped, NoDrop
-----------------------------------------------------------------------------
(* RegisterApplication: what is kept was there at the same level, and what *)
(* is not kept is the default.                                             *)
LEMMA RegisterApplicationKeeps ==
  ASSUME PolicyInv, NEW a \in Apps, NEW level \in 0..2, RegisterApplication(a, level)
  PROVE  PolicyInv'
  <1> DEFINE policies == IF ~Registered(a) THEN NoPolicies
                         ELSE IF apps[a].level = level THEN apps[a].plugins
                         ELSE [p \in Plugins |-> IF apps[a].plugins[p] = NoPolicy
                                                 THEN NoPolicy ELSE DefaultPolicy]
  <1>1. /\ apps' = [apps EXCEPT ![a] = [level |-> level, plugins |-> policies]]
        /\ misread' = IF Registered(a) /\ apps[a].level = level THEN misread ELSE WithoutApp(a)
        /\ UNCHANGED <<developer, installed, damaged, cache, drops>>
    BY DEF RegisterApplication, manifestVars
  <1>2. PolicyTypeOK /\ AllFit /\ WellTyped(apps)
    BY DEF PolicyInv, PolicyTypeOK, WellTyped
  <1>3. Registered(a) => apps[a] \in ApplicationState
    BY <1>2 DEF Registered, WellTyped
  <1>4. policies \in [Plugins -> Policies \cup {NoPolicy}]
    BY <1>3, StateHas, DefaultFits DEF NoPolicies
  <1> DEFINE new == [level |-> level, plugins |-> policies]
  <1>5. new \in ApplicationState
    BY <1>4, StateOf
  <1>6. WellTyped(apps')
    BY <1>1, <1>2, <1>5 DEF WellTyped
  <1>7. AllFit'
    <2> SUFFICES ASSUME NEW b \in Apps, NEW p \in Plugins,
                        apps'[b] # NoApp, Policy(apps', b, p) # NoPolicy
                 PROVE  Fits(Policy(apps', b, p), apps'[b].level, developer',
                             Against(b, p)', Current(b, p)')
      BY AllFitAfter
    <2>1. CASE b # a
      <3>1. apps'[b] = apps[b]  BY <2>1, <1>1, <1>2 DEF WellTyped
      <3>2. <<b, p>> \in misread' <=> <<b, p>> \in misread  BY <1>1, <2>1 DEF WithoutApp
      <3>3. Against(b, p)' = Against(b, p) /\ (Current(b, p)' <=> Current(b, p))
        BY <1>1, <3>2, SamePair
      <3>4. Fits(Policy(apps, b, p), apps[b].level, developer, Against(b, p), Current(b, p))
        BY <1>2, <3>1 DEF AllFit, Policy
      <3> QED  BY <1>1, <3>1, <3>3, <3>4 DEF Policy, Fits
    <2>2. CASE b = a
      <3>1. apps'[b] = new  BY <2>2, <1>1, <1>2 DEF WellTyped
      <3>2. Policy(apps', b, p) = policies[p] /\ apps'[b].level = level
        BY <3>1 DEF Policy
      <3>3. CASE Registered(a) /\ apps[a].level = level
        <4>1. policies[p] = Policy(apps, a, p)  BY <3>3 DEF Policy
        <4>2. Against(a, p)' = Against(a, p) /\ (Current(a, p)' <=> Current(a, p))
          BY <1>1, <3>3, SamePair
        <4>3. Fits(Policy(apps, a, p), apps[a].level, developer, Against(a, p), Current(a, p))
          BY <1>2, <2>2, <3>2, <3>3, <4>1 DEF AllFit, Registered
        <4> QED  BY <1>1, <2>2, <3>2, <3>3, <4>1, <4>2, <4>3 DEF Fits
      <3>4. CASE ~(Registered(a) /\ apps[a].level = level)
        <4>1. policies[p] \in {NoPolicy, DefaultPolicy}  BY <3>4 DEF NoPolicies
        <4> QED  BY <3>2, <4>1, DefaultFits
      <3> QED  BY <3>3, <3>4
    <2> QED  BY <2>1, <2>2
  <1>8. misread' \subseteq Apps \X Plugins
    BY <1>1, <1>2 DEF PolicyTypeOK, WithoutApp
  <1> QED  BY <1>1, <1>2, <1>6, <1>7, <1>8 DEF PolicyInv, PolicyTypeOK, WellTyped

LEMMA RemoveApplicationKeeps ==
  ASSUME PolicyInv, NEW a \in Apps, RemoveApplication(a)
  PROVE  PolicyInv'
  <1>1. /\ apps' = [apps EXCEPT ![a] = NoApp]
        /\ drops' = [drops EXCEPT ![a] = [p \in Plugins |-> {}]]
        /\ misread' = WithoutApp(a)
        /\ UNCHANGED <<developer, installed, damaged, cache>>
    BY DEF RemoveApplication, Forgotten, NoDrop, manifestVars
  <1>2. PolicyTypeOK /\ AllFit
    BY DEF PolicyInv
  <1>3. drops' \in Dropped
    BY <1>1, <1>2 DEF PolicyTypeOK, Dropped
  <1>4. AllFit'
    <2> SUFFICES ASSUME NEW b \in Apps, NEW p \in Plugins,
                        apps'[b] # NoApp, Policy(apps', b, p) # NoPolicy
                 PROVE  Fits(Policy(apps', b, p), apps'[b].level, developer',
                             Against(b, p)', Current(b, p)')
      BY AllFitAfter
    <2>1. b # a /\ apps'[b] = apps[b]
      BY <1>1, <1>2 DEF PolicyTypeOK
    <2>2. <<b, p>> \in misread' <=> <<b, p>> \in misread
      BY <1>1, <2>1 DEF WithoutApp
    <2>3. Against(b, p)' = Against(b, p) /\ (Current(b, p)' <=> Current(b, p))
      BY <1>1, <2>2, SamePair
    <2>4. Fits(Policy(apps, b, p), apps[b].level, developer, Against(b, p), Current(b, p))
      BY <1>2, <2>1 DEF AllFit, Policy
    <2> QED  BY <1>1, <2>1, <2>3, <2>4 DEF Policy, Fits
  <1>5. misread' \subseteq Apps \X Plugins
    BY <1>1, <1>2 DEF PolicyTypeOK, WithoutApp
  <1> QED  BY <1>1, <1>2, <1>3, <1>4, <1>5 DEF PolicyInv, PolicyTypeOK
-----------------------------------------------------------------------------
(* One plugin of one application gets another policy, which fits what it   *)
(* was set against.                                                        *)
LEMMA OnePolicyChanged ==
  ASSUME PolicyInv, NEW a \in Apps, NEW p \in Plugins, NEW new \in Policies,
         Registered(a),
         new.grants \subseteq Capabilities(apps[a].level, developer),
         new.enabled => apps[a].level # 0,
         (<<a, p>> \notin misread /\ Served(p) = installed[p]) =>
             /\ new.grants \subseteq installed[p].permissions
             /\ new.config \subseteq installed[p].config,
         apps' = [apps EXCEPT ![a] = WithPolicy(@, p, new)],
         ReadPlugins, misread' = MisreadWith(a, p),
         UNCHANGED <<developer, installed, damaged, drops>>
  PROVE  PolicyInv'
  <1>1. PolicyTypeOK /\ AllFit
    BY DEF PolicyInv
  <1>2. apps[a] \in ApplicationState
    BY <1>1 DEF PolicyTypeOK, Registered
  <1> DEFINE policies == [apps[a].plugins EXCEPT ![p] = new]
             changed == [level |-> apps[a].level, plugins |-> policies]
  <1>3. policies \in [Plugins -> Policies \cup {NoPolicy}]
    BY <1>2, StateHas
  <1>4. changed \in ApplicationState
    BY <1>2, <1>3, StateHas, StateOf
  <1>5. apps' = [apps EXCEPT ![a] = changed]
    BY DEF WithPolicy
  <1>6. apps' \in [Apps -> ApplicationState \cup {NoApp}]
    BY <1>1, <1>4, <1>5 DEF PolicyTypeOK
  <1>7. AllFit'
    <2> SUFFICES ASSUME NEW b \in Apps, NEW q \in Plugins,
                        apps'[b] # NoApp, Policy(apps', b, q) # NoPolicy
                 PROVE  Fits(Policy(apps', b, q), apps'[b].level, developer',
                             Against(b, q)', Current(b, q)')
      BY AllFitAfter
    <2>1. ASSUME b # a \/ q # p, apps[b] # NoApp, Policy(apps, b, q) # NoPolicy
          PROVE  Fits(Policy(apps, b, q), apps[b].level, developer,
                      Against(b, q)', Current(b, q)')
      <3>1. <<b, q>> \in misread' <=> <<b, q>> \in misread
        BY <2>1 DEF MisreadWith
      <3>2. Against(b, q)' = Against(b, q) /\ (Current(b, q) => Current(b, q)')
        BY <3>1, ReadPair
      <3>3. Fits(Policy(apps, b, q), apps[b].level, developer, Against(b, q), Current(b, q))
        BY <1>1, <2>1 DEF AllFit
      <3> QED  BY <3>2, <3>3 DEF Fits
    <2>2. CASE b # a
      <3>1. apps'[b] = apps[b]  BY <2>2, <1>1, <1>5 DEF PolicyTypeOK
      <3> QED  BY <2>1, <2>2, <3>1 DEF Policy
    <2>3. CASE b = a
      <3>1. apps'[b] = changed  BY <2>3, <1>1, <1>5 DEF PolicyTypeOK
      <3>2. apps'[b].plugins = policies /\ apps'[b].level = apps[a].level
        BY <3>1
      <3>3. CASE q = p
        <4>1. policies[q] = new  BY <3>3, <1>2, StateHas
        <4>2. Policy(apps', b, q) = new  BY <3>2, <4>1 DEF Policy
        <4>3. <<a, p>> \notin misread' =>
                 /\ <<a, p>> \notin misread /\ Served(p) = installed[p]
          BY DEF MisreadWith
        <4>4. cache' = Snapshot  BY DEF ReadPlugins
        <4>5. Current(a, p)'
          BY <4>3, <4>4 DEF Current, Served
        <4>6. Against(a, p)' # Absent =>
                 /\ Against(a, p)' = installed[p]
                 /\ <<a, p>> \notin misread /\ Served(p) = installed[p]
          BY <4>3 DEF Against
        <4> QED  BY <2>3, <3>2, <3>3, <4>2, <4>5, <4>6 DEF Fits
      <3>4. CASE q # p
        <4>1. policies[q] = Policy(apps, a, q)  BY <3>4, <1>2, StateHas DEF Policy
        <4>2. Policy(apps', b, q) = Policy(apps, b, q)  BY <2>3, <3>2, <4>1 DEF Policy
        <4> QED  BY <2>1, <2>3, <3>2, <3>4, <4>2 DEF Registered
      <3> QED  BY <3>3, <3>4
    <2> QED  BY <2>2, <2>3
  <1>8. misread' \subseteq Apps \X Plugins
    BY <1>1 DEF PolicyTypeOK, MisreadWith
  <1>9. cache' \in ManifestTypes \cup {NoSnapshot}
    BY <1>1, SnapshotType
  <1> QED  BY <1>1, <1>6, <1>7, <1>8, <1>9 DEF PolicyInv, PolicyTypeOK, ManifestTypes

(* Every registered application gets other policies, which fit what        *)
(* developer mode and the installed manifests have become.                 *)
LEMMA AllPoliciesChanged ==
  ASSUME PolicyInv, NEW new \in [Apps -> [Plugins -> Policies \cup {NoPolicy}]],
         apps' = [b \in Apps |-> IF Registered(b)
                                 THEN [level |-> apps[b].level, plugins |-> new[b]]
                                 ELSE NoApp],
         developer' \in BOOLEAN,
         installed' \in ManifestTypes, cache' \in ManifestTypes \cup {NoSnapshot},
         misread' \subseteq Apps \X Plugins,
         UNCHANGED <<damaged, drops>>,
         \A b \in Apps, q \in Plugins :
             (Registered(b) /\ new[b][q] # NoPolicy) =>
                 Fits(new[b][q], apps[b].level, developer', Against(b, q)', Current(b, q)')
  PROVE  PolicyInv'
  <1>1. PolicyTypeOK
    BY DEF PolicyInv
  <1>2. ASSUME NEW b \in Apps, Registered(b)
        PROVE  /\ apps'[b] \in ApplicationState
               /\ apps'[b].level = apps[b].level /\ apps'[b].plugins = new[b]
    <2>1. apps[b] \in ApplicationState
      BY <1>1, <1>2 DEF PolicyTypeOK, Registered
    <2>2. apps'[b] = [level |-> apps[b].level, plugins |-> new[b]]
      BY <1>2
    <2> QED  BY <2>1, <2>2, StateHas, StateOf
  <1>3. ASSUME NEW b \in Apps, ~Registered(b)
        PROVE  apps'[b] = NoApp
    BY <1>3
  <1>4. apps' \in [Apps -> ApplicationState \cup {NoApp}]
    <2>1. \A b \in Apps : apps'[b] \in ApplicationState \cup {NoApp}
      BY <1>2, <1>3
    <2>2. apps' = [b \in Apps |-> apps'[b]]
      OBVIOUS
    <2> QED  BY <2>1, <2>2
  <1>5. AllFit'
    BY <1>2, <1>3, AllFitAfter DEF Policy
  <1> QED  BY <1>1, <1>4, <1>5 DEF PolicyInv, PolicyTypeOK, ManifestTypes
-----------------------------------------------------------------------------
(* The policy stored for a plugin, or the default, fits.                   *)
LEMMA StoredPolicyFits ==
  ASSUME PolicyInv, NEW a \in Apps, NEW p \in Plugins, Registered(a)
  PROVE  /\ StoredPolicy(a, p) \in Policies
         /\ Fits(StoredPolicy(a, p), apps[a].level, developer, Against(a, p), Current(a, p))
  <1>1. apps[a] \in ApplicationState
    BY DEF PolicyInv, PolicyTypeOK, Registered
  <1>2. apps[a].plugins[p] \in Policies \cup {NoPolicy}
    BY <1>1, StateHas
  <1>3. CASE apps[a].plugins[p] = NoPolicy
    BY <1>3, DefaultFits DEF StoredPolicy
  <1>4. CASE apps[a].plugins[p] # NoPolicy
    BY <1>2, <1>4 DEF StoredPolicy, PolicyInv, AllFit, Policy, Registered
  <1> QED  BY <1>3, <1>4

(* A policy that was set against the installed manifest fits it. *)
LEMMA StoredPolicyFitsInstalled ==
  ASSUME PolicyInv, NEW a \in Apps, NEW p \in Plugins, Registered(a),
         <<a, p>> \notin misread, installed[p] # Absent
  PROVE  /\ StoredPolicy(a, p).grants \subseteq installed[p].permissions
         /\ StoredPolicy(a, p).config \subseteq installed[p].config
  <1>1. Fits(StoredPolicy(a, p), apps[a].level, developer, Against(a, p), Current(a, p))
    BY StoredPolicyFits
  <1>2. Against(a, p) = installed[p]
    BY DEF Against
  <1> QED  BY <1>1, <1>2 DEF Fits

LEMMA SetPolicyKeeps ==
  ASSUME PolicyInv, NEW a \in Apps, NEW p \in Plugins, NEW enabled \in BOOLEAN,
         NEW grants \in Requested, SetPolicy(a, p, enabled, grants)
  PROVE  PolicyInv'
  <1> DEFINE old == StoredPolicy(a, p)
             new == [enabled |-> enabled, grants |-> grants, config |-> old.config]
  <1>1. /\ Registered(a)
        /\ enabled => apps[a].level # 0
        /\ Served(p) # Absent
        /\ grants \subseteq Served(p).permissions
        /\ grants \subseteq Capabilities(apps[a].level, developer)
        /\ ReadPlugins /\ misread' = MisreadWith(a, p)
        /\ UNCHANGED <<developer, installed, damaged, drops>>
    BY DEF SetPolicy
  <1>2. apps' = [apps EXCEPT ![a] = WithPolicy(@, p, new)]
    BY DEF SetPolicy
  <1>3. old \in Policies
    BY <1>1, StoredPolicyFits
  <1>4. new \in Policies
    BY <1>3, RequestedAssumption DEF Policies
  <1>5. (<<a, p>> \notin misread /\ Served(p) = installed[p]) =>
            /\ new.grants \subseteq installed[p].permissions
            /\ new.config \subseteq installed[p].config
    BY <1>1, StoredPolicyFitsInstalled
  <1>6. /\ new.grants \subseteq Capabilities(apps[a].level, developer)
        /\ new.enabled => apps[a].level # 0
    BY <1>1
  <1> HIDE DEF new
  <1> QED  BY <1>1, <1>2, <1>4, <1>5, <1>6, OnePolicyChanged

LEMMA SetPluginConfigKeeps ==
  ASSUME PolicyInv, NEW a \in Apps, NEW p \in Plugins, NEW config \in SUBSET Keys,
         SetPluginConfig(a, p, config)
  PROVE  PolicyInv'
  <1> DEFINE old == StoredPolicy(a, p)
             new == [enabled |-> old.enabled, grants |-> old.grants, config |-> config]
  <1>1. /\ Registered(a)
        /\ Served(p) # Absent
        /\ config \subseteq Served(p).config
        /\ ReadPlugins /\ misread' = MisreadWith(a, p)
        /\ UNCHANGED <<developer, installed, damaged, drops>>
    BY DEF SetPluginConfig
  <1>2. apps' = [apps EXCEPT ![a] = WithPolicy(@, p, new)]
    BY DEF SetPluginConfig
  <1>3. /\ old \in Policies
        /\ Fits(old, apps[a].level, developer, Against(a, p), Current(a, p))
    BY <1>1, StoredPolicyFits
  <1>4. new \in Policies
    BY <1>3 DEF Policies
  <1>5. (<<a, p>> \notin misread /\ Served(p) = installed[p]) =>
            /\ new.grants \subseteq installed[p].permissions
            /\ new.config \subseteq installed[p].config
    BY <1>1, StoredPolicyFitsInstalled
  <1>6. /\ new.grants \subseteq Capabilities(apps[a].level, developer)
        /\ new.enabled => apps[a].level # 0
    BY <1>3 DEF Fits
  <1> HIDE DEF new
  <1> QED  BY <1>1, <1>2, <1>4, <1>5, <1>6, OnePolicyChanged

LEMMA SetDeveloperModeKeeps ==
  ASSUME PolicyInv, NEW enabled \in BOOLEAN, SetDeveloperMode(enabled)
  PROVE  PolicyInv'
  <1>1. PolicyTypeOK /\ AllFit
    BY DEF PolicyInv
  <1>2. /\ developer' = enabled /\ developer # enabled
        /\ UNCHANGED <<installed, damaged, cache, misread, drops>>
    BY DEF SetDeveloperMode, manifestVars
  <1>0. \A b \in Apps, q \in Plugins :
            Against(b, q)' = Against(b, q) /\ (Current(b, q)' <=> Current(b, q))
    BY <1>2, SamePair
  <1>3. CASE enabled
    <2>1. developer' = TRUE /\ developer = FALSE /\ UNCHANGED apps
      BY <1>1, <1>2, <1>3 DEF SetDeveloperMode, PolicyTypeOK
    <2>2. AllFit'
      <3> SUFFICES ASSUME NEW a \in Apps, NEW p \in Plugins,
                          apps[a] # NoApp, Policy(apps, a, p) # NoPolicy
                   PROVE  Fits(Policy(apps, a, p), apps[a].level, TRUE,
                               Against(a, p)', Current(a, p)')
        BY <2>1, AllFitAfter DEF Policy
      <3>1. Fits(Policy(apps, a, p), apps[a].level, FALSE, Against(a, p), Current(a, p))
        BY <1>1, <2>1 DEF AllFit
      <3>2. apps[a].level \in 0..2
        BY <1>1, StateHas DEF PolicyTypeOK
      <3>3. Capabilities(apps[a].level, FALSE) \subseteq Capabilities(apps[a].level, TRUE)
        BY <3>2, DeveloperCapabilities
      <3> QED  BY <1>0, <3>1, <3>3 DEF Fits
    <2> QED  BY <1>1, <1>2, <2>1, <2>2 DEF PolicyInv, PolicyTypeOK
  <1>4. CASE ~enabled
    <2>1. developer' = FALSE /\ developer = TRUE
      BY <1>1, <1>2, <1>4 DEF PolicyTypeOK
    <2> DEFINE new == [b \in Apps |-> IF Registered(b) THEN WithoutUnsafe(apps[b].plugins)
                                      ELSE NoPolicies]
    <2>2. apps' = [b \in Apps |-> IF Registered(b)
                     THEN [level |-> apps[b].level, plugins |-> new[b]] ELSE NoApp]
      BY <1>4 DEF SetDeveloperMode, UnsafeRevoked
    <2>3. ASSUME NEW b \in Apps, NEW q \in Plugins
          PROVE  /\ new[b][q] \in Policies \cup {NoPolicy}
                 /\ (Registered(b) /\ new[b][q] # NoPolicy) =>
                        Fits(new[b][q], apps[b].level, FALSE, Against(b, q)', Current(b, q)')
      <3>1. CASE ~Registered(b)
        BY <3>1 DEF NoPolicies
      <3>2. CASE Registered(b) /\ apps[b].plugins[q] = NoPolicy
        BY <3>2 DEF WithoutUnsafe
      <3>3. CASE Registered(b) /\ apps[b].plugins[q] # NoPolicy
        <4> DEFINE old == apps[b].plugins[q]
                   less == [enabled |-> old.enabled,
                            grants  |-> old.grants \ {"runtime.unsafe"},
                            config  |-> old.config]
        <4>1. new[b][q] = less
          BY <3>3 DEF WithoutUnsafe
        <4>2. apps[b] \in ApplicationState
          BY <1>1, <3>3 DEF PolicyTypeOK, Registered
        <4>3. old \in Policies
          BY <3>3, <4>2, StateHas
        <4>4. less \in Policies
          BY <4>3 DEF Policies
        <4>5. Fits(old, apps[b].level, TRUE, Against(b, q), Current(b, q))
          BY <1>1, <2>1, <3>3 DEF AllFit, Policy, Registered
        <4>6. apps[b].level \in 0..2
          BY <4>2, StateHas
        <4>7. less.grants \subseteq Capabilities(apps[b].level, FALSE)
          BY <4>5, <4>6, DeveloperCapabilities DEF Fits
        <4>8. Fits(less, apps[b].level, FALSE, Against(b, q)', Current(b, q)')
          BY <1>0, <4>5, <4>7 DEF Fits
        <4> QED  BY <4>1, <4>4, <4>8
      <3> QED  BY <3>1, <3>2, <3>3
    <2>4. new \in [Apps -> [Plugins -> Policies \cup {NoPolicy}]]
      <3>1. ASSUME NEW b \in Apps
            PROVE  new[b] \in [Plugins -> Policies \cup {NoPolicy}]
        <4>1. new[b] = [q \in Plugins |-> new[b][q]]
          BY DEF WithoutUnsafe, NoPolicies
        <4> QED  BY <4>1, <2>3
      <3> QED  BY <3>1
    <2>5. /\ developer' \in BOOLEAN /\ UNCHANGED <<damaged, drops>>
          /\ installed' \in ManifestTypes /\ cache' \in ManifestTypes \cup {NoSnapshot}
          /\ misread' \subseteq Apps \X Plugins
      BY <1>1, <1>2, <2>1 DEF PolicyTypeOK, ManifestTypes
    <2>6. \A b \in Apps, q \in Plugins :
            (Registered(b) /\ new[b][q] # NoPolicy) =>
                Fits(new[b][q], apps[b].level, developer', Against(b, q)', Current(b, q)')
      BY <1>2, <2>1, <2>3
    <2> HIDE DEF new
    <2> QED  BY <2>2, <2>4, <2>5, <2>6, AllPoliciesChanged
  <1> QED  BY <1>3, <1>4

(* One plugin's policy is replaced everywhere, by the default or by none,  *)
(* nothing changes in the manifests but that plugin's, and the last good   *)
(* scan stays or is dropped.                                               *)
LEMMA PolicyReplacedEverywhere ==
  ASSUME PolicyInv, NEW p \in Plugins, NEW policy \in {DefaultPolicy, NoPolicy},
         NEW new \in [Apps -> [Plugins -> Policies \cup {NoPolicy}]],
         \A b \in Apps : Registered(b) => new[b] = [apps[b].plugins EXCEPT ![p] = policy],
         apps' = [b \in Apps |-> IF Registered(b)
                                 THEN [level |-> apps[b].level, plugins |-> new[b]]
                                 ELSE NoApp],
         installed' \in ManifestTypes,
         \A q \in Plugins \ {p} : installed'[q] = installed[q],
         cache' \in {cache, NoSnapshot}, misread' = WithoutPlugin(p),
         UNCHANGED <<developer, damaged, drops>>
  PROVE  PolicyInv'
  <1>1. ASSUME NEW b \in Apps, NEW q \in Plugins, Registered(b), new[b][q] # NoPolicy
        PROVE  Fits(new[b][q], apps[b].level, developer', Against(b, q)', Current(b, q)')
    <2>1. apps[b] \in ApplicationState
      BY <1>1 DEF PolicyInv, PolicyTypeOK, Registered
    <2>2. apps[b].plugins \in [Plugins -> Policies \cup {NoPolicy}]
      BY <2>1, StateHas
    <2>3. CASE q = p
      <3>1. new[b][q] = DefaultPolicy  BY <1>1, <2>2, <2>3
      <3> QED  BY <3>1, DefaultFits
    <2>4. CASE q # p
      <3>1. new[b][q] = Policy(apps, b, q)  BY <1>1, <2>2, <2>4 DEF Policy
      <3>2. Fits(Policy(apps, b, q), apps[b].level, developer, Against(b, q), Current(b, q))
        BY <1>1, <3>1 DEF PolicyInv, AllFit, Registered
      <3>3. installed'[q] = installed[q] /\ (<<b, q>> \in misread' <=> <<b, q>> \in misread)
        BY <2>4 DEF WithoutPlugin
      <3>4. Against(b, q)' = Against(b, q) /\ (Current(b, q) => Current(b, q)')
        BY <3>3 DEF Against, Current
      <3> QED  BY <3>1, <3>2, <3>4 DEF Fits
    <2> QED  BY <2>3, <2>4
  <1>2. /\ developer' \in BOOLEAN /\ cache' \in ManifestTypes \cup {NoSnapshot}
        /\ misread' \subseteq Apps \X Plugins
    BY DEF PolicyInv, PolicyTypeOK, ManifestTypes, WithoutPlugin
  <1> QED  BY <1>1, <1>2, AllPoliciesChanged

(* The policies with one replaced. *)
WithReplaced(p, policy) ==
    [b \in Apps |-> IF Registered(b) THEN [apps[b].plugins EXCEPT ![p] = policy]
                    ELSE NoPolicies]

LEMMA ReplacedArePolicies ==
  ASSUME PolicyInv, NEW p \in Plugins, NEW policy \in {DefaultPolicy, NoPolicy}
  PROVE  /\ WithReplaced(p, policy) \in [Apps -> [Plugins -> Policies \cup {NoPolicy}]]
         /\ \A b \in Apps : Registered(b) =>
                WithReplaced(p, policy)[b] = [apps[b].plugins EXCEPT ![p] = policy]
  <1>1. ASSUME NEW b \in Apps
        PROVE  WithReplaced(p, policy)[b] \in [Plugins -> Policies \cup {NoPolicy}]
    <2>1. CASE Registered(b)
      <3>1. apps[b] \in ApplicationState
        BY <2>1 DEF PolicyInv, PolicyTypeOK, Registered
      <3> QED  BY <2>1, <3>1, StateHas, DefaultFits DEF WithReplaced
    <2>2. CASE ~Registered(b)
      BY <2>2 DEF WithReplaced, NoPolicies
    <2> QED  BY <2>1, <2>2
  <1>2. WithReplaced(p, policy) = [b \in Apps |-> WithReplaced(p, policy)[b]]
    BY DEF WithReplaced
  <1>3. WithReplaced(p, policy) \in [Apps -> [Plugins -> Policies \cup {NoPolicy}]]
    BY <1>1, <1>2
  <1> QED  BY <1>3 DEF WithReplaced

LEMMA InstallPluginKeeps ==
  ASSUME PolicyInv, NEW p \in Plugins, NEW m \in Manifests, InstallPlugin(p, m)
  PROVE  PolicyInv'
  <1> DEFINE new == WithReplaced(p, DefaultPolicy)
  <1>1. apps' = [b \in Apps |-> IF Registered(b)
                   THEN [level |-> apps[b].level, plugins |-> new[b]] ELSE NoApp]
    BY DEF InstallPlugin, PolicyEverywhere, WithPolicy, WithReplaced
  <1>2. /\ \E left \in {m, installed[p], Absent} : installed' = [installed EXCEPT ![p] = left]
        /\ cache' \in {cache, NoSnapshot} /\ misread' = WithoutPlugin(p)
        /\ UNCHANGED <<developer, damaged, drops>>
    BY DEF InstallPlugin, Published, NotPublished
  <1>3. /\ installed' \in ManifestTypes
        /\ \A q \in Plugins \ {p} : installed'[q] = installed[q]
    BY <1>2 DEF PolicyInv, PolicyTypeOK, ManifestTypes
  <1>4. /\ new \in [Apps -> [Plugins -> Policies \cup {NoPolicy}]]
        /\ \A b \in Apps : Registered(b) =>
               new[b] = [apps[b].plugins EXCEPT ![p] = DefaultPolicy]
    BY ReplacedArePolicies
  <1> HIDE DEF new
  <1> QED  BY <1>1, <1>2, <1>3, <1>4, PolicyReplacedEverywhere

LEMMA RemovePluginKeeps ==
  ASSUME PolicyInv, NEW p \in Plugins, RemovePlugin(p)
  PROVE  PolicyInv'
  <1> DEFINE new == WithReplaced(p, NoPolicy)
  <1>1. apps' = [b \in Apps |-> IF Registered(b)
                   THEN [level |-> apps[b].level, plugins |-> new[b]] ELSE NoApp]
    BY DEF RemovePlugin, PolicyEverywhere, WithPolicy, WithReplaced
  <1>2. /\ installed' = [installed EXCEPT ![p] = Absent]
        /\ cache' \in {cache, NoSnapshot} /\ misread' = WithoutPlugin(p)
        /\ UNCHANGED <<developer, damaged, drops>>
    BY DEF RemovePlugin
  <1>3. /\ installed' \in ManifestTypes
        /\ \A q \in Plugins \ {p} : installed'[q] = installed[q]
    BY <1>2 DEF PolicyInv, PolicyTypeOK, ManifestTypes
  <1>4. /\ new \in [Apps -> [Plugins -> Policies \cup {NoPolicy}]]
        /\ \A b \in Apps : Registered(b) =>
               new[b] = [apps[b].plugins EXCEPT ![p] = NoPolicy]
    BY ReplacedArePolicies
  <1> HIDE DEF new
  <1> QED  BY <1>1, <1>2, <1>3, <1>4, PolicyReplacedEverywhere

LEMMA RemovalCutShortKeeps ==
  ASSUME PolicyInv, NEW p \in Plugins, RemovalCutShort(p)
  PROVE  PolicyInv'
  <1>1. /\ \E left \in {installed[p], Absent} : installed' = [installed EXCEPT ![p] = left]
        /\ cache' = NoSnapshot
        /\ UNCHANGED <<developer, apps, damaged, misread, drops>>
    BY DEF RemovalCutShort
  <1>2. PolicyTypeOK /\ AllFit
    BY DEF PolicyInv
  <1>3. \A q \in Plugins : installed'[q] \in {installed[q], Absent}
    BY <1>1, <1>2 DEF PolicyTypeOK
  <1>4. AllFit'
    <2> SUFFICES ASSUME NEW b \in Apps, NEW q \in Plugins,
                        apps[b] # NoApp, Policy(apps, b, q) # NoPolicy
                 PROVE  Fits(Policy(apps, b, q), apps[b].level, developer,
                             Against(b, q)', Current(b, q)')
      BY <1>1, AllFitAfter DEF Policy
    <2>1. Against(b, q)' \in {Against(b, q), Absent} /\ Current(b, q)'
      BY <1>1, <1>3 DEF Against, Current
    <2>2. Fits(Policy(apps, b, q), apps[b].level, developer, Against(b, q), Current(b, q))
      BY <1>2 DEF AllFit
    <2> QED  BY <2>1, <2>2 DEF Fits
  <1>5. PolicyTypeOK'
    BY <1>1, <1>2 DEF PolicyTypeOK
  <1> QED  BY <1>4, <1>5 DEF PolicyInv
-----------------------------------------------------------------------------
LEMMA PolicyInitHasInv ==
  ASSUME PolicyInit
  PROVE  PolicyInv
  BY DEF PolicyInit, PolicyInv, PolicyTypeOK, Dropped, NoDrop, AllFit

LEMMA PolicyNextKeepsInv ==
  ASSUME PolicyInv, PolicyNext
  PROVE  PolicyInv'
  <1>1. ASSUME NEW a \in Apps, NEW level \in 0..2, RegisterApplication(a, level)
        PROVE  PolicyInv'
    BY <1>1, RegisterApplicationKeeps
  <1>2. ASSUME NEW a \in Apps, RemoveApplication(a)
        PROVE  PolicyInv'
    BY <1>2, RemoveApplicationKeeps
  <1>3. ASSUME NEW enabled \in BOOLEAN, SetDeveloperMode(enabled)
        PROVE  PolicyInv'
    BY <1>3, SetDeveloperModeKeeps
  <1>4. ASSUME NEW a \in Apps, NEW p \in Plugins, NEW enabled \in BOOLEAN,
               NEW grants \in Requested, SetPolicy(a, p, enabled, grants)
        PROVE  PolicyInv'
    BY <1>4, SetPolicyKeeps
  <1>5. ASSUME NEW a \in Apps, NEW p \in Plugins, NEW config \in SUBSET Keys,
               SetPluginConfig(a, p, config)
        PROVE  PolicyInv'
    BY <1>5, SetPluginConfigKeeps
  <1>6. ASSUME NEW p \in Plugins, NEW m \in Manifests, InstallPlugin(p, m)
        PROVE  PolicyInv'
    BY <1>6, InstallPluginKeeps
  <1>7. ASSUME NEW p \in Plugins, RemovePlugin(p)
        PROVE  PolicyInv'
    BY <1>7, RemovePluginKeeps
  <1>8. ASSUME NEW p \in Plugins, RemovalCutShort(p)
        PROVE  PolicyInv'
    BY <1>8, RemovalCutShortKeeps
  <1>9. CASE Manage
    BY <1>1, <1>2, <1>3, <1>4, <1>5, <1>6, <1>7, <1>8, <1>9 DEF Manage
  <1>10. ASSUME NEW a \in Apps, ComputePlan(a)
         PROVE  PolicyInv'
    BY <1>10, ComputePlanKeeps
  <1> QED  BY <1>9, <1>10, ReadKeeps, DirectoryChangesKeeps, RestartKeeps DEF PolicyNext

LEMMA PolicyStutterKeepsInv ==
  ASSUME PolicyInv, UNCHANGED policyVars
  PROVE  PolicyInv'
  BY DEF PolicyInv, PolicyTypeOK, AllFit, Policy, Against, Current, policyVars

THEOREM PolicyInvariance == PolicySpec => []PolicyInv
  <1>1. PolicyInit => PolicyInv
    BY PolicyInitHasInv
  <1>2. PolicyInv /\ [PolicyNext]_policyVars => PolicyInv'
    BY PolicyNextKeepsInv, PolicyStutterKeepsInv
  <1> QED  BY <1>1, <1>2, PTL DEF PolicySpec

(* Policies, installed manifests and recorded drops keep their types.      *)
THEOREM PolicyTypeCorrect == PolicySpec => []PolicyTypeOK
  <1>1. PolicyInv => PolicyTypeOK
    BY DEF PolicyInv
  <1> QED  BY <1>1, PolicyInvariance, PTL

(* Whatever the Manager asks in whatever order (levels and developer mode  *)
(* changed, plugins replaced and removed, installs that fail half way,     *)
(* reads that fall back), no stored policy is one that set_policy or       *)
(* set_plugin_config would refuse now, but for one that was set against a  *)
(* manifest served in place of the installed one.                          *)
THEOREM StoredPoliciesStayAcceptable == PolicySpec => []StoredPoliciesAcceptable
  <1>1. PolicyInv => StoredPoliciesAcceptable
    BY AllFitIsAcceptable DEF PolicyInv
  <1> QED  BY <1>1, PolicyInvariance, PTL

(* Who has grants that were given to the installed version is served this  *)
(* version, also while the directory cannot be scanned.                    *)
HasGrants(s, p) == s # NoApp /\ s.plugins[p] # NoPolicy /\ s.plugins[p].grants # {}

LEMMA ServedIsInstalled ==
  ASSUME PolicyInv, Readable, NEW a \in Apps, NEW p \in Plugins,
         HasGrants(apps[a], p), <<a, p>> \notin misread
  PROVE  Served(p) = installed[p]
  <1>1. Fits(Policy(apps, a, p), apps[a].level, developer, Against(a, p), Current(a, p))
    BY DEF PolicyInv, AllFit, Policy, HasGrants
  <1>2. Current(a, p)
    BY <1>1 DEF Fits, Policy, HasGrants
  <1> QED  BY <1>2 DEF Current, Served, Snapshot, Readable

LEMMA ServedIsInstalledAfter ==
  ASSUME PolicyInv', Readable', NEW a \in Apps, NEW p \in Plugins,
         HasGrants(apps'[a], p), <<a, p>> \notin misread'
  PROVE  Served(p)' = installed'[p]
  <1>1. Fits(Policy(apps', a, p), apps'[a].level, developer', Against(a, p)', Current(a, p)')
    BY DEF PolicyInv, AllFit, Policy, HasGrants
  <1>2. Current(a, p)'
    BY <1>1 DEF Fits, Policy, HasGrants
  <1> QED  BY <1>2 DEF Current, Served, Snapshot, Readable

(* The three filters of the execution plan take nothing away: a planned    *)
(* plugin runs with exactly the grants the Manager shows for it, unless    *)
(* they were given to a version that had already been replaced.            *)
GrantsTakeEffect ==
    \A a \in Apps : \A p \in Planned(a) :
        <<a, p>> \notin misread => Effective(a, p) = apps[a].plugins[p].grants

THEOREM GrantsAlwaysTakeEffect == PolicySpec => []GrantsTakeEffect
  <1>1. ASSUME PolicyInv
        PROVE  GrantsTakeEffect
    <2> SUFFICES ASSUME NEW a \in Apps, NEW p \in Planned(a), <<a, p>> \notin misread
                 PROVE  Effective(a, p) = apps[a].plugins[p].grants
      BY DEF GrantsTakeEffect
    <2>1. /\ p \in Plugins /\ Registered(a) /\ Readable
          /\ apps[a].plugins[p] # NoPolicy /\ Effective(a, p) # {}
          /\ Served(p) # Absent
      BY DEF Planned, ReadsForPlan
    <2>2. HasGrants(apps[a], p)
      BY <2>1 DEF HasGrants, Registered, Effective
    <2>3. Served(p) = installed[p]
      BY <1>1, <2>1, <2>2, ServedIsInstalled
    <2>4. Fits(Policy(apps, a, p), apps[a].level, developer, installed[p], Current(a, p))
      BY <1>1, <2>1 DEF PolicyInv, AllFit, Policy, Registered, Against
    <2> QED  BY <2>1, <2>3, <2>4 DEF Fits, Policy, Effective
  <1> QED  BY <1>1, PolicyInvariance, PTL

-----------------------------------------------------------------------------
(* Nothing is granted unasked.  Level and developer mode drop out of what  *)
(* is allowed, as a policy that fits needs neither.                        *)
HasEnabled(s, p) == s # NoApp /\ s.plugins[p] # NoPolicy /\ s.plugins[p].enabled

LEMMA AllowedIs ==
  ASSUME PolicyInv, NEW a \in Apps, NEW p \in Plugins
  PROVE  Allowed(a, p) = IF HasEnabled(apps[a], p) THEN apps[a].plugins[p].grants \cap MayAskFor(p)
                         ELSE {}
  <1>1. CASE HasEnabled(apps[a], p)
    <2>1. Fits(Policy(apps, a, p), apps[a].level, developer, Against(a, p), Current(a, p))
      BY <1>1 DEF PolicyInv, AllFit, Policy, HasEnabled
    <2> QED  BY <1>1, <2>1 DEF Allowed, HasEnabled, Fits, Policy
  <1>2. CASE ~HasEnabled(apps[a], p)
    BY <1>2 DEF Allowed, HasEnabled
  <1> QED  BY <1>1, <1>2

(* What a step may do to a pair without anybody asking: the grants are     *)
(* gone, or there are no more of them than before, an old mark stays, and  *)
(* neither the directory nor the last good scan gets a manifest that was   *)
(* not there.                                                              *)
ManifestsOnlyRead(p) ==
    /\ installed'[p] \in {installed[p], Absent}
    /\ cache' \in {cache, NoSnapshot} \/ ReadPlugins
NoMore(a, p) ==
    \/ ~HasGrants(apps'[a], p)
    \/ /\ HasGrants(apps[a], p) /\ apps'[a].plugins[p].grants \subseteq apps[a].plugins[p].grants
       /\ HasEnabled(apps'[a], p) => HasEnabled(apps[a], p)
       /\ <<a, p>> \in misread => <<a, p>> \in misread'
       /\ ManifestsOnlyRead(p)

(* What was set for a plugin just now, against what was served. *)
JustSet(a, p) ==
    /\ ReadPlugins /\ UNCHANGED <<installed, damaged>>
    /\ Served(p) # installed[p] => <<a, p>> \in misread'

LEMMA ReadAsksNoMore ==
  ASSUME PolicyTypeOK, NEW p \in Plugins, ManifestsOnlyRead(p)
  PROVE  MayAskFor(p)' \subseteq MayAskFor(p)
  <1>1. AsksFor(installed'[p]) \subseteq AsksFor(installed[p])
    BY DEF ManifestsOnlyRead, AsksFor
  <1>2. CASE cache' = cache \/ cache' = NoSnapshot \/ cache' = installed
    BY <1>1, <1>2 DEF MayAskFor, AsksFor
  <1>3. CASE ReadPlugins
    BY <1>2, <1>3 DEF ReadPlugins, Snapshot
  <1> QED  BY <1>2, <1>3 DEF ManifestsOnlyRead

LEMMA NoMoreAllowsNoMore ==
  ASSUME PolicyInv, PolicyInv', NEW a \in Apps, NEW p \in Plugins, NoMore(a, p)
  PROVE  Allowed(a, p)' \subseteq Allowed(a, p)
  <1>1. CASE ~HasGrants(apps'[a], p)
    BY <1>1 DEF Allowed, HasGrants
  <1>2. CASE HasGrants(apps'[a], p)
    <2>1. MayAskFor(p)' \subseteq MayAskFor(p)
      BY <1>2, ReadAsksNoMore DEF NoMore, PolicyInv
    <2>2. Allowed(a, p)' \subseteq (IF HasEnabled(apps'[a], p)
                                    THEN apps'[a].plugins[p].grants \cap MayAskFor(p)' ELSE {})
      BY DEF Allowed, HasEnabled
    <2> QED  BY <1>2, <2>1, <2>2, AllowedIs DEF NoMore
  <1> QED  BY <1>1, <1>2

(* Another version that comes to be served starts with nothing.            *)
LEMMA ReplacedStartsWithNothing ==
  ASSUME PolicyInv, PolicyInv', NEW a \in Apps, NEW p \in Plugins,
         NoMore(a, p) \/ JustSet(a, p), Replaced(p), <<a, p>> \notin misread'
  PROVE  Given(a, p)' = {}
  <1> SUFFICES ASSUME Given(a, p)' # {}
               PROVE  FALSE
    OBVIOUS
  <1>1. p \in Planned(a)' /\ Effective(a, p)' # {}
    BY DEF Given
  <1>2. HasGrants(apps'[a], p) /\ Served(p)' # Absent
    BY <1>1 DEF Planned, ReadsForPlan, Registered, Effective, HasGrants
  <1>3. Readable /\ Readable' /\ Served(p)' # Served(p)
    BY DEF Replaced
  <1>4. Served(p)' = installed'[p]
    BY <1>2, <1>3, ServedIsInstalledAfter
  <1>5. CASE NoMore(a, p)
    <2>1. installed'[p] = installed[p] /\ HasGrants(apps[a], p) /\ <<a, p>> \notin misread
      BY <1>2, <1>4, <1>5 DEF NoMore, ManifestsOnlyRead
    <2>2. Served(p) = installed[p]
      BY <1>3, <2>1, ServedIsInstalled
    <2> QED  BY <1>3, <1>4, <2>1, <2>2
  <1>6. CASE JustSet(a, p)
    BY <1>3, <1>4, <1>6 DEF JustSet
  <1> QED  BY <1>5, <1>6

(* The handlers one by one.  Reading, a restart or a directory that is     *)
(* damaged or repaired touch no policy.                                    *)
LEMMA UntouchedGivesNoMore ==
  ASSUME UNCHANGED <<apps, misread>>, NEW b \in Apps, NEW p \in Plugins, ManifestsOnlyRead(p)
  PROVE  NoMore(b, p)
  BY DEF NoMore

(* A level that stays keeps the policies, one that changes leaves only     *)
(* default ones.                                                           *)
LEMMA NothingGiven ==
  ASSUME NEW s, NEW p, s # NoApp => s.plugins[p] \in {NoPolicy, DefaultPolicy}
  PROVE  ~HasGrants(s, p)
  BY DEF HasGrants, DefaultPolicy

LEMMA RegisterGivesNoMore ==
  ASSUME PolicyInv, NEW a \in Apps, NEW level \in 0..2, RegisterApplication(a, level),
         NEW b \in Apps, NEW p \in Plugins
  PROVE  NoMore(b, p)
  <1>1. ManifestsOnlyRead(p)
    BY DEF RegisterApplication, manifestVars, ManifestsOnlyRead
  <1>2. apps \in [Apps -> ApplicationState \cup {NoApp}]
    BY DEF PolicyInv, PolicyTypeOK
  <1>3. CASE b # a
    <2>1. apps'[b] = apps[b] /\ (<<b, p>> \in misread => <<b, p>> \in misread')
      BY <1>2, <1>3 DEF RegisterApplication, WithoutApp
    <2> QED  BY <1>1, <2>1 DEF NoMore
  <1>4. CASE b = a /\ Registered(a) /\ apps[a].level = level
    <2>1. apps'[b].plugins = apps[b].plugins /\ misread' = misread
      BY <1>2, <1>4 DEF RegisterApplication
    <2> QED  BY <1>1, <1>4, <2>1 DEF NoMore, HasGrants, HasEnabled, Registered
  <1>5. CASE b = a /\ ~(Registered(a) /\ apps[a].level = level)
    <2>1. apps'[b].plugins[p] \in {NoPolicy, DefaultPolicy}
      BY <1>2, <1>5 DEF RegisterApplication, NoPolicies
    <2> QED  BY <2>1, NothingGiven DEF NoMore
  <1> QED  BY <1>3, <1>4, <1>5

LEMMA RemoveApplicationGivesNoMore ==
  ASSUME PolicyInv, NEW a \in Apps, RemoveApplication(a), NEW b \in Apps, NEW p \in Plugins
  PROVE  NoMore(b, p)
  <1>1. CASE b = a
    BY <1>1 DEF RemoveApplication, PolicyInv, PolicyTypeOK, NoMore, HasGrants
  <1>2. CASE b # a
    BY <1>2 DEF RemoveApplication, PolicyInv, PolicyTypeOK, NoMore, WithoutApp, manifestVars,
                ManifestsOnlyRead
  <1> QED  BY <1>1, <1>2

LEMMA DeveloperModeGivesNoMore ==
  ASSUME PolicyInv, NEW enabled \in BOOLEAN, SetDeveloperMode(enabled),
         NEW b \in Apps, NEW p \in Plugins
  PROVE  NoMore(b, p)
  <1>1. /\ ManifestsOnlyRead(p) /\ misread' = misread
        /\ apps' = apps \/ apps' = UnsafeRevoked
    BY DEF SetDeveloperMode, manifestVars, ManifestsOnlyRead
  <1>2. CASE apps' = apps
    BY <1>1, <1>2 DEF NoMore
  <1>3. CASE apps' = UnsafeRevoked /\ ~Registered(b)
    BY <1>3 DEF NoMore, UnsafeRevoked, HasGrants
  <1>4. CASE apps' = UnsafeRevoked /\ Registered(b)
    <2>1. apps'[b].plugins[p] = WithoutUnsafe(apps[b].plugins)[p]
      BY <1>4 DEF UnsafeRevoked
    <2>2. CASE apps[b].plugins[p] = NoPolicy
      BY <2>1, <2>2 DEF NoMore, WithoutUnsafe, HasGrants
    <2>3. CASE apps[b].plugins[p] # NoPolicy
      <3>1. /\ apps'[b].plugins[p].enabled = apps[b].plugins[p].enabled
            /\ apps'[b].plugins[p].grants \subseteq apps[b].plugins[p].grants
        BY <2>1, <2>3 DEF WithoutUnsafe
      <3>2. HasEnabled(apps'[b], p) => HasEnabled(apps[b], p)
        BY <1>4, <2>3, <3>1 DEF HasEnabled, Registered
      <3>3. HasGrants(apps'[b], p) => HasGrants(apps[b], p)
        BY <1>4, <2>3, <3>1 DEF HasGrants, Registered
      <3> QED  BY <1>1, <3>1, <3>2, <3>3 DEF NoMore
    <2> QED  BY <2>2, <2>3
  <1> QED  BY <1>1, <1>2, <1>3, <1>4

(* One policy is replaced: it is the new one, and the others stay. *)
LEMMA PolicyIsSet ==
  ASSUME PolicyInv, NEW a \in Apps, NEW q \in Plugins, NEW new, Registered(a),
         apps' = [apps EXCEPT ![a] = WithPolicy(@, q, new)]
  PROVE  apps'[a].plugins[q] = new
  <1>1. apps \in [Apps -> ApplicationState \cup {NoApp}] /\ apps[a] \in ApplicationState
    BY DEF PolicyInv, PolicyTypeOK, Registered
  <1>2. apps'[a].plugins = [apps[a].plugins EXCEPT ![q] = new]
    BY <1>1 DEF WithPolicy
  <1> QED  BY <1>1, <1>2, StateHas

LEMMA OthersStay ==
  ASSUME PolicyInv, NEW a \in Apps, NEW q \in Plugins, NEW new \in Policies, Registered(a),
         apps' = [apps EXCEPT ![a] = WithPolicy(@, q, new)]
  PROVE  \A b \in Apps, p \in Plugins : b # a \/ p # q =>
             /\ HasGrants(apps'[b], p) <=> HasGrants(apps[b], p)
             /\ HasEnabled(apps'[b], p) <=> HasEnabled(apps[b], p)
             /\ HasGrants(apps[b], p) => apps'[b].plugins[p] = apps[b].plugins[p]
  <1> SUFFICES ASSUME NEW b \in Apps, NEW p \in Plugins, b # a \/ p # q
               PROVE  /\ HasGrants(apps'[b], p) <=> HasGrants(apps[b], p)
                      /\ HasEnabled(apps'[b], p) <=> HasEnabled(apps[b], p)
                      /\ HasGrants(apps[b], p) => apps'[b].plugins[p] = apps[b].plugins[p]
    OBVIOUS
  <1>1. apps \in [Apps -> ApplicationState \cup {NoApp}] /\ apps[a] \in ApplicationState
    BY DEF PolicyInv, PolicyTypeOK, Registered
  <1>2. CASE b # a
    <2>1. apps'[b] = apps[b]
      BY <1>1, <1>2
    <2> QED  BY <1>2, <2>1
  <1>3. CASE b = a
    <2>1. /\ apps'[b] = [level |-> apps[a].level, plugins |-> [apps[a].plugins EXCEPT ![q] = new]]
          /\ apps[a].plugins \in [Plugins -> Policies \cup {NoPolicy}]
      BY <1>1, <1>3, StateHas DEF WithPolicy
    <2>2. apps'[b].plugins[p] = apps[b].plugins[p]
      BY <1>3, <2>1
    <2>3. apps[b] # NoApp
      BY <1>3 DEF Registered
    <2>4. apps'[b] # NoApp
      <3>1. apps'[b] \in ApplicationState
        BY <1>1, <2>1, StateHas, StateOf
      <3> QED  BY <3>1, NotNoApp
    <2> QED  BY <1>3, <2>2, <2>3, <2>4 DEF HasGrants, HasEnabled
  <1> QED  BY <1>2, <1>3

(* A request that sets one policy gives the others no more.                *)
LEMMA OthersGetNoMore ==
  ASSUME PolicyInv, NEW a \in Apps, NEW q \in Plugins, NEW new \in Policies, Registered(a),
         apps' = [apps EXCEPT ![a] = WithPolicy(@, q, new)],
         ReadPlugins, UNCHANGED installed, misread' = MisreadWith(a, q),
         NEW b \in Apps, NEW p \in Plugins, ~(b = a /\ p = q)
  PROVE  NoMore(b, p)
  <1>1. /\ HasGrants(apps'[b], p) <=> HasGrants(apps[b], p)
        /\ HasEnabled(apps'[b], p) <=> HasEnabled(apps[b], p)
        /\ HasGrants(apps[b], p) => apps'[b].plugins[p] = apps[b].plugins[p]
    <2>1. b # a \/ p # q
      OBVIOUS
    <2>2. \A c \in Apps, r \in Plugins : c # a \/ r # q =>
              /\ HasGrants(apps'[c], r) <=> HasGrants(apps[c], r)
              /\ HasEnabled(apps'[c], r) <=> HasEnabled(apps[c], r)
              /\ HasGrants(apps[c], r) => apps'[c].plugins[r] = apps[c].plugins[r]
      BY OthersStay
    <2> QED  BY <2>1, <2>2
  <1>2. ManifestsOnlyRead(p) /\ (<<b, p>> \in misread => <<b, p>> \in misread')
    BY DEF ManifestsOnlyRead, MisreadWith
  <1> QED  BY <1>1, <1>2 DEF NoMore

LEMMA SetPolicyGivesWhatWasAsked ==
  ASSUME PolicyInv, NEW a \in Apps, NEW q \in Plugins, NEW enabled \in BOOLEAN,
         NEW grants \in Requested, SetPolicy(a, q, enabled, grants),
         NEW b \in Apps, NEW p \in Plugins
  PROVE  NoMore(b, p) \/ (JustSet(b, p) /\ Asked(b, p))
  <1> DEFINE new == [enabled |-> enabled, grants |-> grants,
                     config |-> StoredPolicy(a, q).config]
  <1>1. /\ Registered(a) /\ UNCHANGED <<installed, damaged>>
        /\ ReadPlugins /\ misread' = MisreadWith(a, q)
        /\ apps' = [apps EXCEPT ![a] = WithPolicy(@, q, new)]
    BY DEF SetPolicy
  <1>2. CASE b = a /\ p = q
    <2>1. Asked(b, p)
      BY <1>2 DEF Asked
    <2> QED  BY <1>1, <1>2, <2>1 DEF JustSet, MisreadWith
  <1>3. CASE ~(b = a /\ p = q)
    <2>1. new \in Policies
      BY <1>1, StoredPolicyFits, RequestedAssumption DEF Policies
    <2> HIDE DEF new
    <2> QED  BY <1>1, <1>3, <2>1, OthersGetNoMore
  <1> QED  BY <1>2, <1>3

(* A configuration leaves the rest of the policy as it was, or default.    *)
LEMMA ConfigGivesNoMore ==
  ASSUME PolicyInv, NEW a \in Apps, NEW q \in Plugins, NEW config \in SUBSET Keys,
         SetPluginConfig(a, q, config), NEW b \in Apps, NEW p \in Plugins
  PROVE  NoMore(b, p)
  <1> DEFINE new == [enabled |-> StoredPolicy(a, q).enabled, grants |-> StoredPolicy(a, q).grants,
                     config |-> config]
  <1>1. /\ Registered(a) /\ UNCHANGED installed
        /\ ReadPlugins /\ misread' = MisreadWith(a, q)
        /\ apps' = [apps EXCEPT ![a] = WithPolicy(@, q, new)]
    BY DEF SetPluginConfig
  <1>2. new \in Policies /\ new.enabled = StoredPolicy(a, q).enabled
                         /\ new.grants = StoredPolicy(a, q).grants
    BY <1>1, StoredPolicyFits DEF Policies
  <1> HIDE DEF new
  <1>3. CASE b = a /\ p = q
    <2>0. apps'[a].plugins[q] = new
      BY <1>1, <1>2, PolicyIsSet
    <2>1. apps'[b].plugins[p] = new
      BY <1>3, <2>0
    <2>2. CASE apps[a].plugins[q] = NoPolicy
      BY <1>2, <2>1, <2>2 DEF StoredPolicy, DefaultPolicy, NoMore, HasGrants
    <2>3. CASE apps[a].plugins[q] # NoPolicy
      <3>1. StoredPolicy(a, q) = apps[b].plugins[p]
        BY <1>3, <2>3 DEF StoredPolicy
      <3>2. HasEnabled(apps'[b], p) => HasEnabled(apps[b], p)
        BY <1>1, <1>2, <1>3, <2>1, <2>3, <3>1 DEF HasEnabled, Registered
      <3>3. HasGrants(apps'[b], p) => HasGrants(apps[b], p)
        BY <1>1, <1>2, <1>3, <2>1, <2>3, <3>1 DEF HasGrants, Registered
      <3>4. ManifestsOnlyRead(p) /\ (<<b, p>> \in misread => <<b, p>> \in misread')
        BY <1>1 DEF ManifestsOnlyRead, MisreadWith
      <3> QED  BY <1>2, <2>1, <3>1, <3>2, <3>3, <3>4 DEF NoMore
    <2> QED  BY <2>2, <2>3
  <1>4. CASE ~(b = a /\ p = q)
    BY <1>1, <1>2, <1>4, OthersGetNoMore
  <1> QED  BY <1>3, <1>4

(* An installation or a removal gives its plugin nothing in any            *)
(* application, and takes nothing from the others.                         *)
LEMMA ReplacedGivesNoMore ==
  ASSUME PolicyInv, NEW q \in Plugins, NEW policy \in {DefaultPolicy, NoPolicy},
         apps' = PolicyEverywhere(q, policy),
         \A r \in Plugins \ {q} : installed'[r] = installed[r],
         cache' \in {cache, NoSnapshot}, misread' = WithoutPlugin(q),
         NEW b \in Apps, NEW p \in Plugins
  PROVE  NoMore(b, p)
  <1>1. CASE ~Registered(b)
    <2>1. apps'[b] = NoApp
      BY <1>1 DEF PolicyEverywhere
    <2> QED  BY <2>1, NothingGiven DEF NoMore
  <1>2. CASE Registered(b)
    <2>1. apps[b] \in ApplicationState /\ apps[b] # NoApp
      BY <1>2 DEF PolicyInv, PolicyTypeOK, Registered
    <2>2. /\ apps'[b] = [level |-> apps[b].level,
                         plugins |-> [apps[b].plugins EXCEPT ![q] = policy]]
          /\ apps[b].plugins \in [Plugins -> Policies \cup {NoPolicy}]
      BY <1>2, <2>1, StateHas DEF PolicyEverywhere, WithPolicy
    <2>3. CASE p = q
      <3>1. apps'[b].plugins[p] \in {NoPolicy, DefaultPolicy}
        BY <2>2, <2>3
      <3> QED  BY <3>1, NothingGiven DEF NoMore
    <2>4. CASE p # q
      <3>1. apps'[b].plugins[p] = apps[b].plugins[p]
        BY <2>2, <2>4
      <3>2. ManifestsOnlyRead(p) /\ (<<b, p>> \in misread => <<b, p>> \in misread')
        BY <2>4 DEF ManifestsOnlyRead, WithoutPlugin
      <3> QED  BY <2>1, <3>1, <3>2 DEF NoMore, HasGrants, HasEnabled
    <2> QED  BY <2>3, <2>4
  <1> QED  BY <1>1, <1>2

LEMMA InstallGivesNoMore ==
  ASSUME PolicyInv, NEW q \in Plugins, NEW m \in Manifests, InstallPlugin(q, m),
         NEW b \in Apps, NEW p \in Plugins
  PROVE  NoMore(b, p)
  <1>1. /\ \A r \in Plugins \ {q} : installed'[r] = installed[r]
        /\ cache' \in {cache, NoSnapshot} /\ misread' = WithoutPlugin(q)
    BY DEF InstallPlugin, Published, NotPublished, PolicyInv, PolicyTypeOK
  <1>2. apps' = PolicyEverywhere(q, DefaultPolicy)
    BY DEF InstallPlugin
  <1> QED  BY <1>1, <1>2, ReplacedGivesNoMore

LEMMA RemoveGivesNoMore ==
  ASSUME PolicyInv, NEW q \in Plugins, RemovePlugin(q), NEW b \in Apps, NEW p \in Plugins
  PROVE  NoMore(b, p)
  <1>1. /\ \A r \in Plugins \ {q} : installed'[r] = installed[r]
        /\ cache' \in {cache, NoSnapshot} /\ misread' = WithoutPlugin(q)
    BY DEF RemovePlugin, PolicyInv, PolicyTypeOK
  <1>2. apps' = PolicyEverywhere(q, NoPolicy)
    BY DEF RemovePlugin
  <1> QED  BY <1>1, <1>2, ReplacedGivesNoMore

LEMMA CutShortGivesNoMore ==
  ASSUME PolicyInv, NEW q \in Plugins, RemovalCutShort(q), NEW b \in Apps, NEW p \in Plugins
  PROVE  NoMore(b, p)
  <1>1. UNCHANGED <<apps, misread>> /\ ManifestsOnlyRead(p)
    BY DEF RemovalCutShort, PolicyInv, PolicyTypeOK, ManifestsOnlyRead
  <1> QED  BY <1>1, UntouchedGivesNoMore

-----------------------------------------------------------------------------
(* A step of Core grants nothing unasked. *)
OnlyAsked(a, p) ==
    /\ Allowed(a, p)' \subseteq Allowed(a, p) \/ Asked(a, p)
    /\ Replaced(p) /\ <<a, p>> \notin misread' => Given(a, p)' = {}
NothingUnasked == \A a \in Apps, p \in Plugins : OnlyAsked(a, p)

LEMMA PolicyStepGrantsNothingUnasked ==
  ASSUME PolicyInv, PolicyNext
  PROVE  NothingUnasked
  <1> SUFFICES ASSUME NEW b \in Apps, NEW p \in Plugins
               PROVE  OnlyAsked(b, p)
    BY DEF NothingUnasked
  <1>1. PolicyInv'
    BY PolicyNextKeepsInv
  <1>2. NoMore(b, p) \/ (JustSet(b, p) /\ Asked(b, p))
    <2>1. CASE \E a \in Apps, level \in 0..2 : RegisterApplication(a, level)
      BY <2>1, RegisterGivesNoMore
    <2>2. CASE \E a \in Apps : RemoveApplication(a)
      BY <2>2, RemoveApplicationGivesNoMore
    <2>3. CASE \E enabled \in BOOLEAN : SetDeveloperMode(enabled)
      BY <2>3, DeveloperModeGivesNoMore
    <2>4. CASE \E a \in Apps, q \in Plugins, enabled \in BOOLEAN, grants \in Requested :
                   SetPolicy(a, q, enabled, grants)
      BY <2>4, SetPolicyGivesWhatWasAsked
    <2>5. CASE \E a \in Apps, q \in Plugins, config \in SUBSET Keys : SetPluginConfig(a, q, config)
      BY <2>5, ConfigGivesNoMore
    <2>6. CASE \E q \in Plugins, m \in Manifests : InstallPlugin(q, m)
      BY <2>6, InstallGivesNoMore
    <2>7. CASE \E q \in Plugins : RemovePlugin(q) \/ RemovalCutShort(q)
      BY <2>7, RemoveGivesNoMore, CutShortGivesNoMore
    <2>8. CASE (\E a \in Apps : ComputePlan(a)) \/ Read \/ DirectoryChanges \/ Restart
      <3>1. UNCHANGED <<apps, misread>> /\ ManifestsOnlyRead(p)
        BY <2>8 DEF ComputePlan, Read, DirectoryChanges, Restart, ManifestsOnlyRead
      <3> QED  BY <3>1, UntouchedGivesNoMore
    <2> QED  BY <2>1, <2>2, <2>3, <2>4, <2>5, <2>6, <2>7, <2>8 DEF PolicyNext, Manage
  <1>3. CASE NoMore(b, p)
    BY <1>1, <1>3, NoMoreAllowsNoMore, ReplacedStartsWithNothing DEF OnlyAsked
  <1>4. CASE JustSet(b, p) /\ Asked(b, p)
    BY <1>1, <1>4, ReplacedStartsWithNothing DEF OnlyAsked
  <1> QED  BY <1>2, <1>3, <1>4

(* Whatever the Manager asks in whatever order, and whatever is served     *)
(* while the directory cannot be scanned: a plugin is allowed more only by *)
(* a policy set for it in that application, and another version of it      *)
(* starts with nothing, but for what was given to the old one when it had  *)
(* already been replaced.                                                  *)
THEOREM GrantsAreAlwaysAsked == PolicySpec => NothingGrantedUnasked
  <1>1. PolicyInv /\ [PolicyNext]_policyVars => [NothingUnasked]_policyVars
    BY PolicyStepGrantsNothingUnasked
  <1> QED  BY <1>1, PolicyInvariance, PTL DEF PolicySpec, NothingGrantedUnasked, NothingUnasked, OnlyAsked

-----------------------------------------------------------------------------
(* The network proxy.  What is true of an exchange that is under way.      *)
SafeHop(n) ==
    n.phase \in {"ready", "waiting"} =>
        /\ DomainAllows(n.at, n.whitelist)
        /\ n.creds => n.at.host = n.home
        /\ n.body => n.method = n.asked

NetInv == PolicyInv /\ TypeOK /\ SafeHop(net)

LEMMA ExchangeHas ==
  ASSUME NEW n \in Exchange
  PROVE  /\ n.phase \in {"ready", "waiting", "answered"} /\ n.whitelist \subseteq Domains
         /\ n.at \in Origins /\ n.at.host \in Hosts /\ n.method \in Methods
         /\ n.body \in BOOLEAN /\ n.creds \in BOOLEAN /\ n.redirects \in 0..MaxRedirects
         /\ n.home \in Hosts /\ n.asked \in Methods /\ n.audits \in 0..1
  BY NetworkAssumption DEF Exchange

(* Of the exchange's steps only Follow leads to another hop.               *)
LEMMA PolicyUntouched ==
  ASSUME NetInv, NEW phase \in {"ready", "waiting"}, Exchanges(phase)
  PROVE  /\ PolicyInv' /\ changes' \in 0..MaxChanges /\ requests' \in 0..MaxRequests
         /\ net \in Exchange
         /\ DomainAllows(net.at, net.whitelist)
         /\ net.creds => net.at.host = net.home
         /\ net.body => net.method = net.asked
  <1>1. PolicyInv'
    BY PolicyStutterKeepsInv DEF NetInv, Exchanges
  <1>2. net # NoExchange
    BY DEF Exchanges, NoExchange
  <1> QED  BY <1>1, <1>2 DEF NetInv, TypeOK, SafeHop, Exchanges

LEMMA AnswerKeeps ==
  ASSUME NetInv, Exchanges("waiting"), NEW audits \in 0..1, Answer(audits)
  PROVE  NetInv'
  <1>1. net \in Exchange /\ PolicyInv' /\ changes' \in 0..MaxChanges /\ requests' \in 0..MaxRequests
    BY PolicyUntouched
  <1>2. net' \in Exchange /\ net'.phase = "answered"
    BY <1>1 DEF Answer, Exchange
  <1> QED  BY <1>1, <1>2 DEF NetInv, TypeOK, PolicyInv, SafeHop

LEMMA FollowKeeps ==
  ASSUME NetInv, NEW status \in {302, 303, 307}, NEW origin \in Origins, Follow(status, origin)
  PROVE  NetInv'
  <1> DEFINE toGet == \/ status = 303 /\ net.method # "HEAD"
                      \/ status = 302 /\ net.method \notin {"GET", "HEAD"}
             method == IF toGet THEN "GET" ELSE net.method
             body == net.body /\ ~toGet /\ status # 303
             creds == net.creds /\ origin.host = net.at.host
  <1>1. /\ Exchanges("waiting") /\ net.redirects < MaxRedirects
        /\ DomainAllows(origin, net.whitelist)
        /\ net' = [net EXCEPT !.phase = "ready", !.redirects = @ + 1, !.at = origin,
                      !.method = method, !.body = body, !.creds = creds]
    BY DEF Follow
  <1>2. /\ PolicyInv' /\ changes' \in 0..MaxChanges /\ requests' \in 0..MaxRequests
        /\ net \in Exchange
        /\ net.creds => net.at.host = net.home
        /\ net.body => net.method = net.asked
    BY <1>1, PolicyUntouched
  <1>3. /\ method \in Methods /\ body \in BOOLEAN /\ creds \in BOOLEAN
        /\ net.redirects + 1 \in 0..MaxRedirects
    BY <1>1, <1>2, ExchangeHas, NetworkAssumption
  <1>4. body => method = net.method /\ net.body
    OBVIOUS
  <1>5. creds => origin.host = net.at.host /\ net.creds
    OBVIOUS
  <1> HIDE DEF method, body, creds
  <1>6. /\ net' \in Exchange /\ net'.at = origin /\ net'.whitelist = net.whitelist
        /\ net'.creds = creds /\ net'.body = body /\ net'.method = method
        /\ net'.home = net.home /\ net'.asked = net.asked
    BY <1>1, <1>2, <1>3 DEF Exchange
  <1>7. SafeHop(net')
    BY <1>1, <1>2, <1>4, <1>5, <1>6 DEF SafeHop
  <1> QED  BY <1>2, <1>6, <1>7 DEF NetInv, TypeOK, PolicyInv

LEMMA RequestKeeps ==
  ASSUME NetInv, NEW a \in Apps, NEW p \in Plugins, NEW origin \in Origins, NEW method \in Methods,
         NEW body \in BOOLEAN, NEW creds \in BOOLEAN,
         Request(a, p, origin, method, body, creds)
  PROVE  NetInv'
  <1>1. PolicyInv'
    BY ComputePlanKeeps DEF NetInv, Request
  <1>2. Whitelist(a, p) \subseteq Domains
    <2>1. CASE p \in Planned(a)
      <3>1. Served(p) \in Manifests
        BY <2>1 DEF Planned, Readable, Served, Snapshot, NetInv, PolicyInv, PolicyTypeOK
      <3>2. Served(p).domains \subseteq Domains
        BY <3>1, ManifestsAssumption DEF ManifestType
      <3> QED  BY <3>2 DEF Whitelist
    <2>2. CASE p \notin Planned(a)
      BY <2>2 DEF Whitelist
    <2> QED  BY <2>1, <2>2
  <1>3. /\ DomainAllows(origin, Whitelist(a, p))
        /\ requests < MaxRequests /\ requests' = requests + 1 /\ changes' = changes
        /\ net' = [phase |-> "ready", whitelist |-> Whitelist(a, p), at |-> origin,
                   method |-> method, body |-> body, creds |-> creds, redirects |-> 0,
                   home |-> origin.host, asked |-> method, audits |-> 0]
    BY DEF Request
  <1> DEFINE listed == Whitelist(a, p)
  <1> HIDE DEF listed
  <1>4. listed \subseteq Domains /\ origin.host \in Hosts /\ MaxRedirects \in Nat
    BY <1>2, NetworkAssumption DEF listed
  <1>5. /\ net' \in Exchange /\ net'.at = origin /\ net'.whitelist = listed
        /\ net'.home = origin.host /\ net'.asked = method /\ net'.method = method
    BY <1>3, <1>4 DEF Exchange, listed
  <1>6. requests' \in 0..MaxRequests /\ changes' \in 0..MaxChanges
    BY <1>3, NetworkAssumption DEF NetInv, TypeOK
  <1> QED  BY <1>1, <1>3, <1>5, <1>6 DEF NetInv, TypeOK, PolicyInv, SafeHop, listed

LEMMA NetNextKeepsInv ==
  ASSUME NetInv, Next
  PROVE  NetInv'
  <1>1. CASE Change
    <2>1. PolicyInv'
      BY <1>1, PolicyNextKeepsInv DEF NetInv, Change, PolicyNext
    <2> QED  BY <1>1, <2>1, NetworkAssumption DEF Change, NetInv, TypeOK, PolicyInv
  <1>2. CASE Poll
    <2>1. PolicyInv'
      BY <1>2, ComputePlanKeeps, ReadKeeps, DirectoryChangesKeeps DEF NetInv, Poll
    <2> QED  BY <1>2, <2>1 DEF Poll, NetInv, TypeOK, PolicyInv
  <1>3. CASE CoreRestarts
    <2>1. PolicyInv'
      BY <1>3, RestartKeeps DEF NetInv, CoreRestarts
    <2> QED  BY <1>3, <2>1 DEF CoreRestarts, NetInv, TypeOK, PolicyInv, SafeHop, NoExchange
  <1>4. ASSUME NEW a \in Apps, NEW p \in Plugins, NEW origin \in Origins, NEW method \in Methods,
               NEW body \in BOOLEAN, NEW creds \in BOOLEAN,
               Request(a, p, origin, method, body, creds)
        PROVE  NetInv'
    BY <1>4, RequestKeeps
  <1>5. CASE Execute
    <2>1. Exchanges("ready") /\ net' = [net EXCEPT !.phase = "waiting"]
      BY <1>5 DEF Execute
    <2>2. /\ PolicyInv' /\ changes' \in 0..MaxChanges /\ requests' \in 0..MaxRequests
          /\ net \in Exchange /\ DomainAllows(net.at, net.whitelist)
          /\ net.creds => net.at.host = net.home
          /\ net.body => net.method = net.asked
      BY <2>1, PolicyUntouched
    <2>3. /\ net' \in Exchange /\ net'.at = net.at /\ net'.whitelist = net.whitelist
          /\ net'.creds = net.creds /\ net'.body = net.body /\ net'.method = net.method
          /\ net'.home = net.home /\ net'.asked = net.asked
      BY <2>1, <2>2 DEF Exchange
    <2> QED  BY <2>2, <2>3 DEF NetInv, TypeOK, PolicyInv, SafeHop
  <1>6. CASE TransportFails \/ FinalAnswer \/ TooManyRedirects \/ RefuseRedirect
    <2>1. Exchanges("waiting") /\ \E audits \in 0..1 : Answer(audits)
      BY <1>6 DEF TransportFails, FinalAnswer, TooManyRedirects, RefuseRedirect
    <2> QED  BY <2>1, AnswerKeeps
  <1>7. CASE Redirects
    BY <1>7, FollowKeeps DEF Redirects
  <1> QED  BY <1>1, <1>2, <1>3, <1>4, <1>5, <1>6, <1>7 DEF Next, Receive

LEMMA NetStutterKeepsInv ==
  ASSUME NetInv, UNCHANGED vars
  PROVE  NetInv'
  <1>1. PolicyInv' /\ UNCHANGED <<net, changes, requests>>
    BY PolicyStutterKeepsInv DEF NetInv, vars
  <1> QED  BY <1>1 DEF NetInv, TypeOK, PolicyInv, SafeHop

(* To the policies a step of an exchange is a plan computed or nothing.    *)
LEMMA NetStepIsPolicyStep ==
  ASSUME NetInv, [Next]_vars
  PROVE  [PolicyNext]_policyVars
  <1>1. CASE Change
    BY <1>1 DEF Change, PolicyNext
  <1>2. CASE Poll \/ CoreRestarts
    BY <1>2 DEF Poll, CoreRestarts, PolicyNext
  <1>3. ASSUME NEW a \in Apps, NEW p \in Plugins, NEW origin \in Origins, NEW method \in Methods,
               NEW body \in BOOLEAN, NEW creds \in BOOLEAN,
               Request(a, p, origin, method, body, creds)
        PROVE  PolicyNext
    BY <1>3 DEF Request, PolicyNext
  <1>4. CASE Execute
    BY <1>4 DEF Execute, Exchanges
  <1>5. CASE TransportFails \/ FinalAnswer \/ TooManyRedirects \/ RefuseRedirect \/ Redirects
    BY <1>5 DEF TransportFails, FinalAnswer, TooManyRedirects, RefuseRedirect, Redirects, Follow,
                Exchanges
  <1>6. CASE UNCHANGED vars
    BY <1>6 DEF vars
  <1> QED  BY <1>1, <1>2, <1>3, <1>4, <1>5, <1>6 DEF Next, Receive

LEMMA NetInitHasInv ==
  ASSUME Init
  PROVE  NetInv
  <1>1. PolicyInv
    BY PolicyInitHasInv DEF Init
  <1> QED  BY <1>1, NetworkAssumption DEF Init, NetInv, TypeOK, PolicyInv, SafeHop, NoExchange

THEOREM NetInvariance == Spec => []NetInv
  <1>1. NetInv /\ [Next]_vars => NetInv'
    BY NetNextKeepsInv, NetStutterKeepsInv
  <1> QED  BY <1>1, NetInitHasInv, PTL DEF Spec

(* Whatever servers answer and whatever the Manager changes meanwhile: a   *)
(* hop stays within the whitelist its request was authorised with,         *)
(* credentials go to the first host only, and a body only with the method  *)
(* the plugin gave (network_request in daemon.rs).                         *)
THEOREM HopsAreAlwaysSafe == Spec => []HopsAreSafe
  <1>1. NetInv => HopsAreSafe
    BY DEF NetInv, SafeHop, HopsAreSafe
  <1> QED  BY <1>1, NetInvariance, PTL

-----------------------------------------------------------------------------
(* How Core is started.  What is said of a process, with the files there.  *)
Alive(r) == r.at \notin {"none", "exited"}

(* Nothing was moved yet, or everything was. *)
Clean(f, old) == old = Files /\ f.state = "absent"
AllMoved(f) == f.data = "old" /\ f.token = "old" /\ f.state \in {"old", "edited"}

(* It has in memory what is on disk. *)
Synced(r, f) ==
    /\ r.at \in {"token", "fill", "bind", "serving"} => r.state = f.state
    /\ r.at \in {"bind", "serving"} => r.token = f.token

(* How far the move of the old data is, if no start was cut short.         *)
Sound(r, f, old) ==
    /\ r.at = "started" => Clean(f, old) \/ AllMoved(f)
    /\ r.at = "copy" => old = Files /\ \A x \in Files \ r.todo : f[x] = "old"
    /\ r.at \notin {"none", "exited", "started", "copy"} => AllMoved(f)
    /\ r.at \notin {"write", "fill"}

(* A backup is not lost. *)
Rescued(r, f, there) ==
    /\ f.state # "default" /\ (f.state = "absent" => there)
    /\ r.state # "default"

Orderly(r) ==
    /\ r.todo # {} => r.at = "copy"
    /\ r.at = "write" => r.state \in {"rescued", "default"}

(* A process that somebody waits for was started by the holder of the gate. *)
Waited ==
    \A k \in Cores : core[k].by # "none" =>
        /\ Alive(core[k]) /\ Holds(core[k].by)
        /\ command[core[k].by].at \in {"wait", "reproving"}

OneAlive == \A j, k \in Cores : Alive(core[j]) /\ Alive(core[k]) => j = k
NoneAlive == \A k \in Cores : ~Alive(core[k])

StartInv ==
    /\ StartupTypeOK /\ Waited
    /\ \A k \in Cores : Orderly(core[k])
    /\ initially.backup => \A k \in Cores : Rescued(core[k], file, backup)
    /\ ~loose =>
           /\ OneAlive
           /\ \A k \in Cores : Synced(core[k], file)
    /\ (~loose /\ ~broken /\ initially.legacy) =>
           /\ \A k \in Cores : Sound(core[k], file, legacy)
           /\ NoneAlive => Clean(file, legacy) \/ AllMoved(file)

LEMMA StartupTypes ==
  ASSUME StartInv
  PROVE  /\ legacy \subseteq Files /\ temp \subseteq Cores
         /\ file \in [Files -> Contents] /\ backup \in BOOLEAN
         /\ command \in [Commands -> [at : CommandPlaces, token : Contents]]
         /\ gate \in Seq(Commands)
         /\ core \in [Cores -> [at : CorePlaces, by : Commands \cup {"none"},
                                todo : SUBSET Files, state : Contents, token : Contents]]
         /\ faults \in 0..MaxFaults
         /\ initially \in [legacy : BOOLEAN, backup : BOOLEAN]
         /\ broken \in BOOLEAN /\ loose \in BOOLEAN
  BY DEF StartInv, StartupTypeOK

(* Whoever holds the gate holds it until it leaves itself.                 *)
LEMMA GateKeepsHolder ==
  ASSUME gate \in Seq(Commands), NEW c \in Commands
  PROVE  /\ GateWithout(c) \in Seq(Commands)
         /\ \A d \in Commands : Holds(d) /\ d # c =>
              GateWithout(c) # <<>> /\ Head(GateWithout(c)) = d
  <1> DEFINE kept == GateWithout(c)
             n == Len(gate)
  <1>1. kept \in Seq(Commands) /\ \E f : Lists(f, kept, gate, Commands \ {c}, n)
    BY KeptProperties DEF GateWithout
  <1>2. PICK f : Lists(f, kept, gate, Commands \ {c}, n)
    BY <1>1
  <1> HIDE DEF kept
  <1>3. ASSUME NEW d \in Commands, Holds(d), d # c
        PROVE  kept # <<>> /\ Head(kept) = d
    <2>1. n \in Nat /\ n > 0 /\ gate[1] = d
      BY <1>3 DEF Holds
    <2>2. PICK k \in 1..Len(kept) : f[k] = 1
      BY <1>2, <1>3, <2>1 DEF Lists
    <2>3. Len(kept) \in Nat
      BY <1>1
    <2>4. k = 1
      <3> SUFFICES ASSUME k # 1
                   PROVE  FALSE
        OBVIOUS
      <3>1. 1 \in 1..Len(kept) /\ 1 < k
        BY <2>3
      <3>2. f[1] \in 1..n /\ f[1] < f[k]
        BY <1>2, <3>1 DEF Lists
      <3> QED  BY <2>1, <2>2, <3>2
    <2>5. kept[1] = d
      BY <1>2, <2>1, <2>2, <2>4 DEF Lists
    <2> QED  BY <1>1, <2>2, <2>3, <2>4, <2>5
  <1> QED  BY <1>1, <1>3 DEF kept

(* A step that leaves the files alone, and of a process changes only who   *)
(* waits for it, keeps what is said of files and processes.                *)
LEMMA SameProcessesKeep ==
  ASSUME StartInv, StartupTypeOK', Waited', CoreClient,
         \A k \in Cores : /\ core'[k].at = core[k].at /\ core'[k].todo = core[k].todo
                          /\ core'[k].state = core[k].state /\ core'[k].token = core[k].token
  PROVE  StartInv'
  <1>1. UNCHANGED <<legacy, file, backup, temp, faults, initially, broken, loose>>
    BY DEF CoreClient, disk
  <1>2. \A k \in Cores : Orderly(core'[k])
    BY DEF StartInv, Orderly
  <1>3. initially.backup => \A k \in Cores : Rescued(core'[k], file, backup)
    BY DEF StartInv, Rescued
  <1>4. ~loose => OneAlive' /\ \A k \in Cores : Synced(core'[k], file)
    BY DEF StartInv, OneAlive, Alive, Synced
  <1>5. NoneAlive' <=> NoneAlive
    BY DEF NoneAlive, Alive
  <1>6. (~loose /\ ~broken /\ initially.legacy) =>
           /\ \A k \in Cores : Sound(core'[k], file, legacy)
           /\ NoneAlive' => Clean(file, legacy) \/ AllMoved(file)
    BY <1>5 DEF StartInv, Sound
  <1> QED  BY <1>1, <1>2, <1>3, <1>4, <1>6 DEF StartInv

(* A command leaves the gate. *)
LEMMA LeavesKeeps ==
  ASSUME StartInv, NEW c \in Commands, NEW place \in {"call", "done"}, Moves(c, place), Leaves(c)
  PROVE  StartInv'
  <1>1. /\ gate' = GateWithout(c) /\ CoreClient
        /\ core' = [k \in Cores |-> IF core[k].by = c THEN [core[k] EXCEPT !.by = "none"] ELSE core[k]]
        /\ command' = [command EXCEPT ![c].at = place, ![c].token = "absent"]
    BY DEF Leaves, Moves
  <1>2. /\ command \in [Commands -> [at : CommandPlaces, token : Contents]]
        /\ core \in [Cores -> [at : CorePlaces, by : Commands \cup {"none"},
                               todo : SUBSET Files, state : Contents, token : Contents]]
        /\ gate \in Seq(Commands)
    BY StartupTypes
  <1>3. /\ command' \in [Commands -> [at : CommandPlaces, token : Contents]]
        /\ \A d \in Commands : d # c => command'[d] = command[d]
    <2>1. place \in CommandPlaces /\ "absent" \in Contents
      BY DEF CommandPlaces, Contents
    <2> QED  BY <1>1, <1>2, <2>1
  <1>4. /\ core' \in [Cores -> [at : CorePlaces, by : Commands \cup {"none"},
                                todo : SUBSET Files, state : Contents, token : Contents]]
        /\ \A k \in Cores :
             /\ core'[k].by = IF core[k].by = c THEN "none" ELSE core[k].by
             /\ core'[k].at = core[k].at /\ core'[k].todo = core[k].todo
             /\ core'[k].state = core[k].state /\ core'[k].token = core[k].token
    BY <1>1, <1>2
  <1>5. gate' \in Seq(Commands)
    BY <1>1, <1>2, GateKeepsHolder
  <1>6. StartupTypeOK'
    BY <1>1, <1>3, <1>4, <1>5 DEF StartInv, StartupTypeOK, CoreClient, disk
  <1>7. Waited'
    <2> SUFFICES ASSUME NEW k \in Cores, core'[k].by # "none"
                 PROVE  /\ Alive(core'[k])
                        /\ gate' # <<>> /\ Head(gate') = core'[k].by
                        /\ command'[core'[k].by].at \in {"wait", "reproving"}
      BY DEF Waited, Holds
    <2> DEFINE d == core[k].by
    <2>1. d # "none" /\ d # c /\ d \in Commands /\ core'[k].by = d
      BY <1>2, <1>4
    <2>2. Alive(core[k]) /\ Holds(d) /\ command[d].at \in {"wait", "reproving"}
      BY <2>1 DEF StartInv, Waited
    <2>3. gate' # <<>> /\ Head(gate') = d
      BY <1>1, <1>2, <2>1, <2>2, GateKeepsHolder
    <2> QED  BY <1>3, <1>4, <2>1, <2>2, <2>3 DEF Alive
  <1> QED  BY <1>1, <1>4, <1>6, <1>7, SameProcessesKeep

(* A command moves on at the gate or behind it, and nobody waits for what  *)
(* it started, or still does.                                              *)
LEMMA MovesKeeps ==
  ASSUME StartInv, NEW c \in Commands, CoreClient, UNCHANGED core,
         NEW place \in CommandPlaces, NEW token \in Contents,
         command' = [command EXCEPT ![c].at = place, ![c].token = token],
         command[c].at \in {"wait", "reproving"} => place \in {"wait", "reproving"},
         gate' \in Seq(Commands),
         \A d \in Commands : Holds(d) => gate' # <<>> /\ Head(gate') = d
  PROVE  StartInv'
  <1>1. /\ command \in [Commands -> [at : CommandPlaces, token : Contents]]
        /\ core \in [Cores -> [at : CorePlaces, by : Commands \cup {"none"},
                               todo : SUBSET Files, state : Contents, token : Contents]]
    BY StartupTypes
  <1>2. /\ command' \in [Commands -> [at : CommandPlaces, token : Contents]]
        /\ \A d \in Commands : command'[d].at = IF d = c THEN place ELSE command[d].at
    BY <1>1
  <1>3. StartupTypeOK'
    BY <1>2 DEF StartInv, StartupTypeOK, CoreClient, disk
  <1>4. Waited'
    <2> SUFFICES ASSUME NEW k \in Cores, core[k].by # "none"
                 PROVE  /\ Alive(core[k])
                        /\ gate' # <<>> /\ Head(gate') = core[k].by
                        /\ command'[core[k].by].at \in {"wait", "reproving"}
      BY DEF Waited, Holds
    <2>1. core[k].by \in Commands
      BY <1>1
    <2>2. /\ Alive(core[k]) /\ Holds(core[k].by)
          /\ command[core[k].by].at \in {"wait", "reproving"}
      BY DEF StartInv, Waited
    <2> QED  BY <1>2, <2>1, <2>2
  <1> QED  BY <1>3, <1>4, SameProcessesKeep

ProcessType == [at : CorePlaces, by : Commands \cup {"none"}, todo : SUBSET Files,
                state : Contents, token : Contents]

(* The files, and how far the process k was, after a step that makes it r. *)
Becomes(k, r) ==
    /\ core' \in [Cores -> ProcessType] /\ core'[k] = r
    /\ \A j \in Cores : j # k => core'[j] = core[j]
    /\ legacy' \subseteq Files /\ temp' \subseteq Cores
    /\ file' \in [Files -> Contents] /\ backup' \in BOOLEAN
    /\ faults' \in 0..MaxFaults /\ broken' \in BOOLEAN /\ (broken => broken')
    /\ UNCHANGED <<gate, initially, loose>>
    /\ Orderly(r)
    /\ initially.backup => Rescued(r, file', backup')
    /\ ~loose => Synced(r, file')
    /\ (~loose /\ ~broken' /\ initially.legacy) =>
           /\ Sound(r, file', legacy')
           /\ ~Alive(r) => Clean(file', legacy') \/ AllMoved(file')

(* As long as no start was left to itself there is no other process.       *)
LEMMA BecomesKeeps ==
  ASSUME StartInv, NEW k \in Cores, Alive(core[k]), NEW r, Becomes(k, r), Waited',
         command' \in [Commands -> [at : CommandPlaces, token : Contents]]
  PROVE  StartInv'
  <1>1. /\ core \in [Cores -> ProcessType] /\ gate \in Seq(Commands)
        /\ initially \in [legacy : BOOLEAN, backup : BOOLEAN] /\ loose \in BOOLEAN
    BY StartupTypes DEF ProcessType
  <1>2. /\ core' \in [Cores -> ProcessType]
        /\ core'[k] = r /\ \A j \in Cores : j # k => core'[j] = core[j]
    BY DEF Becomes
  <1>3. StartupTypeOK'
    BY <1>1, <1>2 DEF Becomes, StartupTypeOK, ProcessType
  <1>4. \A j \in Cores : Orderly(core'[j])
    BY <1>2 DEF StartInv, Becomes
  <1>5. initially'.backup => \A j \in Cores : Rescued(core'[j], file', backup')
    BY <1>2 DEF StartInv, Becomes, Rescued
  <1>6. ASSUME ~loose
        PROVE  /\ OneAlive' /\ \A j \in Cores : j # k => ~Alive(core[j])
    <2>1. OneAlive /\ \A j \in Cores : j # k => ~Alive(core[j])
      BY <1>6 DEF StartInv, OneAlive
    <2> QED  BY <1>2, <2>1 DEF OneAlive
  <1>7. ASSUME ~loose
        PROVE  \A j \in Cores : Synced(core'[j], file')
    BY <1>2, <1>6, <1>7 DEF Becomes, Synced, Alive
  <1>8. ASSUME ~loose, ~broken', initially.legacy
        PROVE  /\ \A j \in Cores : Sound(core'[j], file', legacy')
               /\ NoneAlive' => Clean(file', legacy') \/ AllMoved(file')
    <2>1. /\ Sound(r, file', legacy')
          /\ ~Alive(r) => Clean(file', legacy') \/ AllMoved(file')
      BY <1>8 DEF Becomes
    <2>2. \A j \in Cores : j # k => Sound(core'[j], file', legacy')
      BY <1>2, <1>6, <1>8 DEF Sound, Alive
    <2> QED  BY <1>2, <2>1, <2>2 DEF NoneAlive
  <1>9. loose' = loose /\ initially' = initially
    BY DEF Becomes
  <1> QED  BY <1>3, <1>4, <1>5, <1>6, <1>7, <1>8, <1>9 DEF StartInv

(* A process takes a step by itself. *)
LEMMA ProcessKeeps ==
  ASSUME StartInv, NEW k \in Cores, Alive(core[k]), NEW r, Becomes(k, r), UNCHANGED command,
         r.by \in {core[k].by, "none"}, ~Alive(r) => r.by = "none"
  PROVE  StartInv'
  <1>1. core \in [Cores -> ProcessType] /\ command \in [Commands -> [at : CommandPlaces, token : Contents]]
    BY StartupTypes DEF ProcessType
  <1>2. core'[k] = r /\ (\A j \in Cores : j # k => core'[j] = core[j]) /\ gate' = gate
    BY DEF Becomes
  <1>3. Waited'
    <2> SUFFICES ASSUME NEW j \in Cores, core'[j].by # "none"
                 PROVE  /\ Alive(core'[j])
                        /\ gate # <<>> /\ Head(gate) = core'[j].by
                        /\ command[core'[j].by].at \in {"wait", "reproving"}
      BY <1>2 DEF Waited, Holds
    <2>1. core'[j].by = core[j].by /\ Alive(core'[j])
      BY <1>2 DEF StartInv, Waited
    <2> QED  BY <2>1 DEF StartInv, Waited, Holds
  <1> QED  BY <1>1, <1>3, BecomesKeeps

(* What is known of a process before its step. *)
LEMMA ProcessHas ==
  ASSUME StartInv, NEW k \in Cores
  PROVE  /\ core[k] \in ProcessType /\ Orderly(core[k])
         /\ initially.backup => Rescued(core[k], file, backup)
         /\ ~loose => Synced(core[k], file)
         /\ (~loose /\ ~broken /\ initially.legacy) => Sound(core[k], file, legacy)
  BY StartupTypes DEF StartInv, ProcessType

LEMMA ContentsAre ==
  /\ {"absent", "torn", "stub", "old", "default", "rescued", "edited"} \subseteq Contents
  /\ Cores \subseteq Contents
  /\ "default" \notin Cores /\ "absent" \notin Cores /\ "old" \notin Cores
  /\ Files = {"state", "token", "data"}
  BY StartupAssumption DEF Contents, States, Files

-----------------------------------------------------------------------------
(* The steps of a command.                                                 *)

(* Proved, SpawnFails, StartupTimesOut and Cancel. *)
LEMMA LeavingKeeps ==
  ASSUME StartInv, NEW c \in Commands,
         Proved(c) \/ SpawnFails(c) \/ StartupTimesOut(c) \/ Cancel(c)
  PROVE  StartInv'
  <1>1. CASE Proved(c)
    BY <1>1, LeavesKeeps DEF Proved
  <1>2. CASE SpawnFails(c) \/ StartupTimesOut(c)
    BY <1>2, LeavesKeeps DEF SpawnFails, StartupTimesOut, GivesUp
  <1>3. CASE Cancel(c)
    BY <1>3, LeavesKeeps DEF Cancel
  <1> QED  BY <1>1, <1>2, <1>3

LEMMA AbsentMoves ==
  ASSUME StartInv, NEW c \in Commands, NEW place \in CommandPlaces, Moves(c, place), Queues,
         command[c].at \in {"wait", "reproving"} => place \in {"wait", "reproving"}
  PROVE  StartInv'
  <1>1. /\ command' = [command EXCEPT ![c].at = place, ![c].token = "absent"]
        /\ UNCHANGED <<gate, core>> /\ CoreClient
    BY DEF Moves, Queues
  <1>2. gate' \in Seq(Commands) /\ "absent" \in Contents
    BY <1>1, StartupTypes, ContentsAre
  <1>3. \A d \in Commands : Holds(d) => gate' # <<>> /\ Head(gate') = d
    BY <1>1 DEF Holds
  <1> QED  BY <1>1, <1>2, <1>3, MovesKeeps

(* The steps of a command that neither holds up nor leaves the gate.       *)
LEMMA MovingKeeps ==
  ASSUME StartInv, NEW c \in Commands,
         NotReproved(c) \/ CallEnds(c) \/ CallLaunches(c) \/ LauncherEnds(c)
  PROVE  StartInv'
  <1>1. {"wait", "done", "launching"} \subseteq CommandPlaces
    BY DEF CommandPlaces
  <1>2. CASE NotReproved(c)
    BY <1>1, <1>2, AbsentMoves DEF NotReproved
  <1>3. CASE CallEnds(c)
    BY <1>1, <1>3, AbsentMoves DEF CallEnds
  <1>4. CASE CallLaunches(c)
    BY <1>1, <1>4, AbsentMoves DEF CallLaunches
  <1>5. CASE LauncherEnds(c)
    BY <1>1, <1>5, AbsentMoves DEF LauncherEnds
  <1> QED  BY <1>2, <1>3, <1>4, <1>5

LEMMA BeginKeeps ==
  ASSUME StartInv, NEW c \in Commands, Begin(c)
  PROVE  StartInv'
  <1>1. /\ command' = [command EXCEPT ![c].at = "gate", ![c].token = "absent"]
        /\ command[c].at = "idle"
        /\ gate' = Append(gate, c) /\ UNCHANGED core /\ CoreClient
    BY DEF Begin, Moves
  <1>2. gate \in Seq(Commands) /\ "absent" \in Contents /\ "gate" \in CommandPlaces
    BY StartupTypes, ContentsAre DEF CommandPlaces
  <1>3. gate' \in Seq(Commands)
    BY <1>1, <1>2
  <1>4. \A d \in Commands : Holds(d) => gate' # <<>> /\ Head(gate') = d
    BY <1>1, <1>2 DEF Holds
  <1>5. command[c].at \notin {"wait", "reproving"}
    BY <1>1
  <1> QED  BY <1>1, <1>2, <1>3, <1>4, <1>5, MovesKeeps

LEMMA ProbeKeeps ==
  ASSUME StartInv, NEW c \in Commands, Verify(c) \/ Reverify(c)
  PROVE  StartInv'
  <1>1. PICK place \in {"proving", "reproving"} :
          /\ command' = [command EXCEPT ![c].at = place, ![c].token = file.token]
          /\ command[c].at \in {"wait", "reproving"} => place = "reproving"
          /\ UNCHANGED <<gate, core>> /\ CoreClient
    BY DEF Verify, Reverify, Probe, Queues
  <1>2. /\ gate' \in Seq(Commands) /\ file.token \in Contents
        /\ {"proving", "reproving"} \subseteq CommandPlaces
    BY <1>1, StartupTypes, ContentsAre DEF CommandPlaces
  <1>3. \A d \in Commands : Holds(d) => gate' # <<>> /\ Head(gate') = d
    BY <1>1 DEF Holds
  <1> QED  BY <1>1, <1>2, <1>3, MovesKeeps

(* A process that is created; nothing else of Core changes.                *)
LEMMA CreatedIs ==
  ASSUME StartInv, NEW k \in Cores, NEW by \in Commands \cup {"none"}, Created(k, by)
  PROVE  /\ core' \in [Cores -> ProcessType]
         /\ core'[k].at = "started" /\ core'[k].by = by /\ core'[k].todo = {}
         /\ core'[k].state = "absent" /\ core'[k].token = "absent"
         /\ \A j \in Cores : j # k => core'[j] = core[j]
  <1>1. core \in [Cores -> ProcessType]
    BY StartupTypes DEF ProcessType
  <1>2. /\ [Without("started") EXCEPT !.by = by] =
             [at |-> "started", by |-> by, todo |-> {}, state |-> "absent", token |-> "absent"]
    BY DEF Without
  <1>3. [Without("started") EXCEPT !.by = by] \in ProcessType
    BY <1>2, ContentsAre DEF ProcessType, CorePlaces
  <1> QED  BY <1>1, <1>2, <1>3 DEF Created

(* When no start was left to itself there is no process yet, and the new   *)
(* one finds the files as they were.                                       *)
LEMMA CreationKeeps ==
  ASSUME StartInv, NEW k \in Cores, NEW by \in Commands \cup {"none"}, Created(k, by),
         core[k].at = "none",
         UNCHANGED <<legacy, file, backup, temp, gate, faults, initially, broken>>,
         command' \in [Commands -> [at : CommandPlaces, token : Contents]], Waited',
         loose' \in BOOLEAN, ~loose' => ~loose /\ NoneAlive
  PROVE  StartInv'
  <1>1. /\ core' \in [Cores -> ProcessType]
        /\ core'[k].at = "started" /\ core'[k].by = by /\ core'[k].todo = {}
        /\ core'[k].state = "absent" /\ core'[k].token = "absent"
        /\ \A j \in Cores : j # k => core'[j] = core[j]
    BY CreatedIs
  <1>2. StartupTypeOK'
    BY <1>1 DEF StartInv, StartupTypeOK, ProcessType
  <1>3. \A j \in Cores : Orderly(core'[j])
    BY <1>1 DEF StartInv, Orderly
  <1>4. initially.backup => \A j \in Cores : Rescued(core'[j], file, backup)
    BY <1>1 DEF StartInv, Rescued
  <1>5. ASSUME ~loose'
        PROVE  OneAlive' /\ \A j \in Cores : Synced(core'[j], file)
    BY <1>1, <1>5 DEF StartInv, OneAlive, NoneAlive, Alive, Synced
  <1>6. ASSUME ~loose', ~broken, initially.legacy
        PROVE  /\ \A j \in Cores : Sound(core'[j], file, legacy)
               /\ ~NoneAlive'
    <2>1. Clean(file, legacy) \/ AllMoved(file)
      BY <1>6 DEF StartInv
    <2>2. \A j \in Cores : Sound(core'[j], file, legacy)
      BY <1>1, <1>6, <2>1 DEF StartInv, Sound
    <2>3. ~NoneAlive'
      BY <1>1 DEF NoneAlive, Alive
    <2> QED  BY <2>2, <2>3
  <1> QED  BY <1>2, <1>3, <1>4, <1>5, <1>6 DEF StartInv

LEMMA SpawnKeeps ==
  ASSUME StartInv, NEW c \in Commands, NEW k \in Cores, Spawn(c, k)
  PROVE  StartInv'
  <1>1. /\ Holds(c) /\ command[c].at \in {"proving", "gate"} /\ core[k].at = "none"
        /\ Created(k, c)
        /\ command' = [command EXCEPT ![c].at = "wait", ![c].token = "absent"]
        /\ loose' = (loose \/ Another)
        /\ UNCHANGED <<legacy, file, backup, temp, gate, faults, initially, broken>>
    BY DEF Spawn, Unverified, Moves, disk
  <1>2. /\ command \in [Commands -> [at : CommandPlaces, token : Contents]]
        /\ loose \in BOOLEAN /\ core \in [Cores -> ProcessType]
        /\ c # "none"
    BY StartupTypes, StartupAssumption DEF ProcessType
  <1>3. "wait" \in CommandPlaces /\ "absent" \in Contents
    BY ContentsAre DEF CommandPlaces
  <1>4. /\ command' \in [Commands -> [at : CommandPlaces, token : Contents]]
        /\ command'[c].at = "wait" /\ \A d \in Commands : d # c => command'[d] = command[d]
    BY <1>1, <1>2, <1>3
  <1>5. \A j \in Cores : core[j].by = "none"
    <2> SUFFICES ASSUME NEW j \in Cores, core[j].by # "none"
                 PROVE  FALSE
      OBVIOUS
    <2>1. Holds(core[j].by) /\ command[core[j].by].at \in {"wait", "reproving"}
      BY DEF StartInv, Waited
    <2>2. core[j].by = c
      BY <1>1, <2>1 DEF Holds
    <2> QED  BY <1>1, <2>1, <2>2
  <1>6. /\ core'[k].at = "started" /\ core'[k].by = c
        /\ \A j \in Cores : j # k => core'[j] = core[j]
    BY <1>1, CreatedIs
  <1>7. Waited'
    BY <1>1, <1>4, <1>5, <1>6 DEF Waited, Alive, Holds
  <1>8. loose' \in BOOLEAN /\ (~loose' => ~loose /\ NoneAlive)
    BY <1>1, <1>2, <1>5 DEF Another, NoneAlive, Alive
  <1> QED  BY <1>1, <1>4, <1>7, <1>8, CreationKeeps

LEMMA LogonKeeps ==
  ASSUME StartInv, NEW k \in Cores, Logon(k)
  PROVE  StartInv'
  <1>1. /\ \A j \in Cores : core[j].at = "none"
        /\ Created(k, "none")
        /\ UNCHANGED <<legacy, file, backup, temp, command, gate, faults, initially, broken, loose>>
    BY DEF Logon, disk
  <1>2. /\ core'[k].by = "none" /\ \A j \in Cores : j # k => core'[j] = core[j]
    BY <1>1, CreatedIs
  <1>3. \A j \in Cores : core[j].by = "none"
    BY <1>1 DEF StartInv, Waited, Alive
  <1>4. Waited'
    BY <1>2, <1>3 DEF Waited
  <1>5. NoneAlive
    BY <1>1 DEF NoneAlive, Alive
  <1>6. /\ loose' \in BOOLEAN
        /\ command' \in [Commands -> [at : CommandPlaces, token : Contents]]
    BY <1>1, StartupTypes
  <1> QED  BY <1>1, <1>4, <1>5, <1>6, CreationKeeps

-----------------------------------------------------------------------------
(* The steps of a process.                                                 *)

(* How a step of a process is written down, and what it makes of it.       *)
Keeps(p, r) == r.by = p.by /\ r.todo = p.todo /\ r.state = p.state /\ r.token = p.token
Others(k) == \A j \in Cores : j # k => core'[j] = core[j]

LEMMA EntersIs ==
  ASSUME StartInv, NEW k \in Cores, NEW place \in CorePlaces, Enters(k, place)
  PROVE  /\ core' \in [Cores -> ProcessType] /\ Others(k)
         /\ core'[k].at = place /\ Keeps(core[k], core'[k])
  BY StartupTypes DEF Enters, ProcessType, Others, Keeps

LEMMA ExitsIs ==
  ASSUME StartInv, NEW k \in Cores, Exits(k)
  PROVE  /\ core' \in [Cores -> ProcessType] /\ Others(k)
         /\ core'[k] = Without("exited") /\ Without("exited") \in ProcessType
  <1>1. Without("exited") \in ProcessType
    BY ContentsAre DEF Without, ProcessType, CorePlaces
  <1> QED  BY <1>1, StartupTypes DEF Exits, ProcessType, Others

(* Nothing is stored in a step. *)
NothingStored ==
    UNCHANGED <<legacy, file, backup, temp, command, gate, faults, initially, broken, loose>>

LEMMA NothingStoredTypes ==
  ASSUME StartInv, NothingStored
  PROVE  /\ legacy' \subseteq Files /\ temp' \subseteq Cores
         /\ file' \in [Files -> Contents] /\ backup' \in BOOLEAN
         /\ faults' \in 0..MaxFaults /\ broken' \in BOOLEAN /\ (broken => broken')
         /\ UNCHANGED <<gate, initially, loose, command>>
  BY StartupTypes DEF NothingStored

LEMMA MigrateKeeps ==
  ASSUME StartInv, NEW k \in Cores, Migrate(k)
  PROVE  StartInv'
  <1> DEFINE p == core[k]
             r == core'[k]
  <1>1. /\ p.at = "started" /\ NothingStored
        /\ IF legacy = {} \/ file.state # "absent"
             THEN Enters(k, "state")
             ELSE core' = [core EXCEPT ![k].at = "copy", ![k].todo = legacy]
    BY DEF Migrate, At, Process, NothingStored, Owned, disk
  <1>2. /\ p \in ProcessType /\ Orderly(p) /\ Alive(p)
        /\ initially.backup => Rescued(p, file, backup)
        /\ (~loose /\ ~broken /\ initially.legacy) => Sound(p, file, legacy)
    BY <1>1, ProcessHas DEF Alive
  <1>3. legacy \subseteq Files /\ "state" \in CorePlaces /\ "copy" \in CorePlaces
    BY StartupTypes DEF CorePlaces
  <1>4. p.todo = {}
    BY <1>1, <1>2 DEF Orderly
  <1>5. CASE legacy = {} \/ file.state # "absent"
    <2>1. /\ core' \in [Cores -> ProcessType] /\ Others(k)
          /\ r.at = "state" /\ Keeps(p, r)
      BY <1>1, <1>3, <1>5, EntersIs
    <2>2. Orderly(r) /\ Alive(r) /\ Synced(r, file')
      BY <1>4, <2>1 DEF Orderly, Alive, Synced, Keeps
    <2>3. initially.backup => Rescued(r, file', backup')
      BY <1>1, <1>2, <2>1 DEF Rescued, NothingStored, Keeps
    <2>4. (~loose /\ ~broken' /\ initially.legacy) => Sound(r, file', legacy')
      <3> SUFFICES ASSUME ~loose, ~broken, initially.legacy
                   PROVE  Sound(r, file, legacy)
        BY <1>1 DEF NothingStored
      <3>1. Clean(file, legacy) \/ AllMoved(file)
        BY <1>1, <1>2 DEF Sound
      <3>2. AllMoved(file)
        BY <1>5, <3>1 DEF Clean, Files
      <3> QED  BY <2>1, <3>2 DEF Sound
    <2>5. Becomes(k, r)
      BY <1>1, <2>1, <2>2, <2>3, <2>4, NothingStoredTypes DEF Becomes, Others
    <2> QED  BY <1>1, <1>2, <2>1, <2>2, <2>5, ProcessKeeps DEF NothingStored, Keeps
  <1>6. CASE ~(legacy = {} \/ file.state # "absent")
    <2>1. /\ core' \in [Cores -> ProcessType] /\ Others(k)
          /\ r.at = "copy" /\ r.by = p.by /\ r.todo = legacy
          /\ r.state = p.state /\ r.token = p.token
      BY <1>1, <1>3, <1>6, StartupTypes DEF ProcessType, Others
    <2>2. Orderly(r) /\ Alive(r) /\ Synced(r, file')
      BY <2>1 DEF Orderly, Alive, Synced
    <2>3. initially.backup => Rescued(r, file', backup')
      BY <1>1, <1>2, <2>1 DEF Rescued, NothingStored
    <2>4. (~loose /\ ~broken' /\ initially.legacy) => Sound(r, file', legacy')
      <3> SUFFICES ASSUME ~loose, ~broken, initially.legacy
                   PROVE  Sound(r, file, legacy)
        BY <1>1 DEF NothingStored
      <3>1. Clean(file, legacy) \/ AllMoved(file)
        BY <1>1, <1>2 DEF Sound
      <3>2. legacy = Files
        BY <1>6, <3>1 DEF Clean, AllMoved
      <3> QED  BY <2>1, <3>2 DEF Sound
    <2>5. Becomes(k, r)
      BY <1>1, <2>1, <2>2, <2>3, <2>4, NothingStoredTypes DEF Becomes, Others
    <2> QED  BY <1>1, <1>2, <2>1, <2>2, <2>5, ProcessKeeps DEF NothingStored
  <1> QED  BY <1>5, <1>6

LEMMA CopyKeeps ==
  ASSUME StartInv, NEW k \in Cores, NEW f \in Files, Copy(k, f)
  PROVE  StartInv'
  <1> DEFINE p == core[k]
             r == core'[k]
  <1>1. /\ p.at = "copy" /\ core' = [core EXCEPT ![k].todo = p.todo \ {f}]
        /\ file' = [file EXCEPT ![f] = "old"]
        /\ UNCHANGED <<legacy, backup, temp, command, gate, faults, initially, broken, loose>>
    BY DEF Copy, At, Process
  <1>2. /\ p \in ProcessType /\ Alive(p)
        /\ initially.backup => Rescued(p, file, backup)
        /\ (~loose /\ ~broken /\ initially.legacy) => Sound(p, file, legacy)
    BY <1>1, ProcessHas DEF Alive
  <1>3. file \in [Files -> Contents] /\ "old" \in Contents /\ "state" \in Files
    BY StartupTypes, ContentsAre
  <1>4. /\ file' \in [Files -> Contents] /\ file'[f] = "old"
        /\ \A x \in Files : x # f => file'[x] = file[x]
    BY <1>1, <1>3
  <1>5. /\ core' \in [Cores -> ProcessType] /\ Others(k)
        /\ r.at = "copy" /\ r.by = p.by /\ r.todo = p.todo \ {f}
        /\ r.state = p.state /\ r.token = p.token
    BY <1>1, <1>2, StartupTypes DEF ProcessType, Others
  <1>6. Orderly(r) /\ Alive(r) /\ Synced(r, file')
    BY <1>5 DEF Orderly, Alive, Synced
  <1>7. initially.backup => Rescued(r, file', backup')
    BY <1>1, <1>2, <1>3, <1>4, <1>5 DEF Rescued
  <1>8. (~loose /\ ~broken' /\ initially.legacy) => Sound(r, file', legacy')
    BY <1>1, <1>2, <1>4, <1>5 DEF Sound
  <1>9. /\ legacy' \subseteq Files /\ temp' \subseteq Cores /\ backup' \in BOOLEAN
        /\ faults' \in 0..MaxFaults /\ broken' \in BOOLEAN /\ (broken => broken')
    BY <1>1, StartupTypes
  <1>10. Becomes(k, r)
    BY <1>1, <1>4, <1>5, <1>6, <1>7, <1>8, <1>9 DEF Becomes, Others
  <1> QED  BY <1>1, <1>2, <1>5, <1>6, <1>10, ProcessKeeps

(* The file that was being copied is left as it was, or torn.              *)
LEMMA LeftHalfIs ==
  ASSUME StartInv, NEW k \in Cores, file' \in LeftHalf(k)
  PROVE  /\ file' \in [Files -> Contents]
         /\ \A x \in Files : file'[x] \in {file[x], "torn"}
         /\ core[k].todo = {} => file' = file
  BY StartupTypes, ContentsAre DEF LeftHalf, ProcessType

LEMMA CopyFailsKeeps ==
  ASSUME StartInv, NEW k \in Cores, CopyFails(k)
  PROVE  StartInv'
  <1> DEFINE p == core[k]
             r == core'[k]
  <1>1. /\ p.at = "copy" /\ core' = [core EXCEPT ![k].at = "state", ![k].todo = {}]
        /\ broken' = TRUE
        /\ UNCHANGED <<legacy, backup, temp, command, gate, initially, loose>>
    BY DEF CopyFails, At, Process
  <1>2. /\ file' \in [Files -> Contents]
        /\ file'.state \in {file.state, "torn"}
        /\ faults' \in 0..MaxFaults
    <2>1. file \in [Files -> Contents] /\ faults \in 0..MaxFaults /\ MaxFaults \in Nat
          /\ "state" \in Files
      BY StartupTypes, StartupAssumption, ContentsAre
    <2>2. CASE UNCHANGED <<file, faults>>
      BY <2>1, <2>2
    <2>3. CASE file' \in LeftHalf(k) /\ Fault
      <3>1. faults' \in 0..MaxFaults
        BY <2>1, <2>3 DEF Fault
      <3>2. file' \in [Files -> Contents] /\ \A x \in Files : file'[x] \in {file[x], "torn"}
        BY <2>3, LeftHalfIs
      <3> QED  BY <2>1, <3>1, <3>2
    <2> QED  BY <2>2, <2>3 DEF CopyFails
  <1>3. /\ p \in ProcessType /\ Alive(p)
        /\ initially.backup => Rescued(p, file, backup)
    BY <1>1, ProcessHas DEF Alive
  <1>4. /\ core' \in [Cores -> ProcessType] /\ Others(k)
        /\ r.at = "state" /\ r.by = p.by /\ r.todo = {}
        /\ r.state = p.state /\ r.token = p.token
    <2>1. "state" \in CorePlaces
      BY DEF CorePlaces
    <2> QED  BY <1>1, <1>3, <2>1, StartupTypes DEF ProcessType, Others
  <1>5. Orderly(r) /\ Alive(r) /\ Synced(r, file')
    BY <1>4 DEF Orderly, Alive, Synced
  <1>6. initially.backup => Rescued(r, file', backup')
    BY <1>1, <1>2, <1>3, <1>4 DEF Rescued
  <1>7. /\ legacy' \subseteq Files /\ temp' \subseteq Cores /\ backup' \in BOOLEAN
        /\ broken' \in BOOLEAN
    BY <1>1, StartupTypes
  <1>8. Becomes(k, r)
    BY <1>1, <1>2, <1>4, <1>5, <1>6, <1>7 DEF Becomes, Others
  <1> QED  BY <1>1, <1>3, <1>4, <1>5, <1>8, ProcessKeeps

LEMMA CopiedKeeps ==
  ASSUME StartInv, NEW k \in Cores, Copied(k)
  PROVE  StartInv'
  <1> DEFINE p == core[k]
             r == core'[k]
  <1>1. p.at = "copy" /\ p.todo = {} /\ NothingStored /\ Enters(k, "moved")
    BY DEF Copied, At, Process, NothingStored, disk
  <1>2. /\ p \in ProcessType /\ Alive(p)
        /\ initially.backup => Rescued(p, file, backup)
        /\ (~loose /\ ~broken /\ initially.legacy) => Sound(p, file, legacy)
    BY <1>1, ProcessHas DEF Alive
  <1>3. /\ core' \in [Cores -> ProcessType] /\ Others(k)
        /\ r.at = "moved" /\ Keeps(p, r)
    <2>1. "moved" \in CorePlaces
      BY DEF CorePlaces
    <2> QED  BY <1>1, <2>1, EntersIs
  <1>4. Orderly(r) /\ Alive(r) /\ Synced(r, file')
    BY <1>1, <1>3 DEF Orderly, Alive, Synced, Keeps
  <1>5. initially.backup => Rescued(r, file', backup')
    BY <1>1, <1>2, <1>3 DEF Rescued, NothingStored, Keeps
  <1>6. (~loose /\ ~broken' /\ initially.legacy) => Sound(r, file', legacy')
    <2> SUFFICES ASSUME ~loose, ~broken, initially.legacy
                 PROVE  Sound(r, file, legacy)
      BY <1>1 DEF NothingStored
    <2>1. \A x \in Files : file[x] = "old"
      BY <1>1, <1>2 DEF Sound
    <2>2. AllMoved(file)
      BY <2>1, ContentsAre DEF AllMoved
    <2> QED  BY <1>3, <2>2 DEF Sound
  <1>7. Becomes(k, r)
    BY <1>1, <1>3, <1>4, <1>5, <1>6, NothingStoredTypes DEF Becomes, Others
  <1> QED  BY <1>1, <1>2, <1>3, <1>4, <1>7, ProcessKeeps DEF NothingStored, Keeps

LEMMA RemoveLegacyKeeps ==
  ASSUME StartInv, NEW k \in Cores, RemoveLegacy(k)
  PROVE  StartInv'
  <1> DEFINE p == core[k]
             r == core'[k]
  <1>1. /\ p.at = "moved" /\ Enters(k, "state")
        /\ UNCHANGED <<file, backup, temp, broken, command, gate, initially, loose>>
    BY DEF RemoveLegacy, At, Process
  <1>2. legacy' \subseteq Files /\ faults' \in 0..MaxFaults
    <2>1. legacy \subseteq Files /\ faults \in 0..MaxFaults /\ MaxFaults \in Nat
      BY StartupTypes, StartupAssumption
    <2> QED  BY <2>1 DEF RemoveLegacy, Fault
  <1>3. /\ p \in ProcessType /\ Orderly(p) /\ Alive(p)
        /\ initially.backup => Rescued(p, file, backup)
        /\ (~loose /\ ~broken /\ initially.legacy) => Sound(p, file, legacy)
    BY <1>1, ProcessHas DEF Alive
  <1>4. /\ core' \in [Cores -> ProcessType] /\ Others(k)
        /\ r.at = "state" /\ Keeps(p, r)
    <2>1. "state" \in CorePlaces
      BY DEF CorePlaces
    <2> QED  BY <1>1, <2>1, EntersIs
  <1>5. Orderly(r) /\ Alive(r) /\ Synced(r, file')
    BY <1>1, <1>3, <1>4 DEF Orderly, Alive, Synced, Keeps
  <1>6. initially.backup => Rescued(r, file', backup')
    BY <1>1, <1>3, <1>4 DEF Rescued, Keeps
  <1>7. (~loose /\ ~broken' /\ initially.legacy) => Sound(r, file', legacy')
    BY <1>1, <1>3, <1>4 DEF Sound
  <1>8. /\ temp' \subseteq Cores /\ backup' \in BOOLEAN /\ file' \in [Files -> Contents]
        /\ broken' \in BOOLEAN /\ (broken => broken')
    BY <1>1, StartupTypes
  <1>9. Becomes(k, r)
    BY <1>1, <1>2, <1>4, <1>5, <1>6, <1>7, <1>8 DEF Becomes, Others
  <1> QED  BY <1>1, <1>3, <1>4, <1>5, <1>9, ProcessKeeps DEF Keeps

(* A process that exits by itself, while it was sound for others. *)
LEMMA ExitKeeps ==
  ASSUME StartInv, NEW k \in Cores, Alive(core[k]), Exits(k),
         UNCHANGED <<legacy, backup, temp, command, gate, initially, loose>>,
         file' \in [Files -> Contents], faults' \in 0..MaxFaults,
         broken' \in BOOLEAN, broken => broken',
         initially.backup => file'.state # "default" /\ (file'.state = "absent" => backup),
         (~loose /\ ~broken' /\ initially.legacy) =>
             Clean(file', legacy) \/ AllMoved(file')
  PROVE  StartInv'
  <1> DEFINE r == core'[k]
  <1>1. /\ core' \in [Cores -> ProcessType] /\ Others(k)
        /\ r.at = "exited" /\ r.by = "none" /\ r.todo = {} /\ r.state = "absent"
    BY ExitsIs DEF Without
  <1>2. Orderly(r) /\ ~Alive(r) /\ Synced(r, file')
    BY <1>1 DEF Orderly, Alive, Synced
  <1>3. initially.backup => Rescued(r, file', backup')
    BY <1>1 DEF Rescued
  <1>4. (~loose /\ ~broken' /\ initially.legacy) => Sound(r, file', legacy')
    BY <1>1 DEF Sound
  <1>5. legacy' \subseteq Files /\ temp' \subseteq Cores /\ backup' \in BOOLEAN
    BY StartupTypes
  <1>6. Becomes(k, r)
    BY <1>1, <1>2, <1>3, <1>4, <1>5 DEF Becomes, Others
  <1> QED  BY <1>1, <1>2, <1>6, ProcessKeeps

LEMMA ReadStateKeeps ==
  ASSUME StartInv, NEW k \in Cores, ReadState(k)
  PROVE  StartInv'
  <1> DEFINE p == core[k]
             r == core'[k]
  <1>1. /\ p.at = "state" /\ broken' = (broken \/ file.state = "torn")
        /\ UNCHANGED <<legacy, file, backup, faults, command, gate, initially, loose>>
    BY DEF ReadState, At, Process
  <1>2. /\ p \in ProcessType /\ Orderly(p) /\ Alive(p)
        /\ initially.backup => Rescued(p, file, backup)
        /\ (~loose /\ ~broken /\ initially.legacy) => Sound(p, file, legacy)
    BY <1>1, ProcessHas DEF Alive
  <1>3. /\ legacy \subseteq Files /\ temp \subseteq Cores /\ file \in [Files -> Contents]
        /\ backup \in BOOLEAN /\ faults \in 0..MaxFaults /\ broken \in BOOLEAN
        /\ core \in [Cores -> ProcessType]
    BY StartupTypes DEF ProcessType
  <1>4. broken' \in BOOLEAN /\ (broken => broken')
    BY <1>1, <1>3
  <1>5. p.todo = {}
    BY <1>1, <1>2 DEF Orderly
  <1>6. (~loose /\ ~broken' /\ initially.legacy) => AllMoved(file)
    BY <1>1, <1>2, <1>4 DEF Sound
  <1>7. {"write", "token"} \subseteq CorePlaces
    BY DEF CorePlaces
  <1>8. CASE file.state = "torn"
    <2>1. Exits(k) /\ UNCHANGED temp
      BY <1>8 DEF ReadState
    <2>2. initially.backup => file.state # "default" /\ (file.state = "absent" => backup)
      BY <1>2 DEF Rescued
    <2> QED  BY <1>1, <1>2, <1>3, <1>4, <1>6, <2>1, <2>2, ExitKeeps
  <1>9. CASE file.state = "absent"
    <2>1. /\ core' = [core EXCEPT ![k].at = "write", ![k].state = FirstState]
          /\ temp' = temp \cup {k}
      BY <1>9 DEF ReadState
    <2>2. FirstState \in {"rescued", "default"} /\ {"rescued", "default"} \subseteq Contents
      BY ContentsAre DEF FirstState
    <2>3. /\ core' \in [Cores -> ProcessType] /\ Others(k)
          /\ r.at = "write" /\ r.by = p.by /\ r.todo = p.todo
          /\ r.state = FirstState /\ r.token = p.token
      BY <1>3, <1>7, <2>1, <2>2 DEF ProcessType, Others
    <2>4. Orderly(r) /\ Alive(r) /\ Synced(r, file')
      BY <1>5, <2>2, <2>3 DEF Orderly, Alive, Synced
    <2>5. initially.backup => Rescued(r, file', backup')
      BY <1>1, <1>2, <1>9, <2>3 DEF Rescued, FirstState
    <2>6. ~(~loose /\ ~broken' /\ initially.legacy)
      BY <1>6, <1>9 DEF AllMoved
    <2>7. temp' \subseteq Cores
      BY <1>3, <2>1
    <2>8. Becomes(k, r)
      BY <1>1, <1>3, <1>4, <2>3, <2>4, <2>5, <2>6, <2>7 DEF Becomes, Others
    <2> QED  BY <1>1, <1>2, <2>3, <2>4, <2>8, ProcessKeeps
  <1>10. CASE file.state \notin {"torn", "absent"}
    <2>1. core' = [core EXCEPT ![k].at = "token", ![k].state = file.state] /\ UNCHANGED temp
      BY <1>10 DEF ReadState
    <2>2. file.state \in Contents
      BY <1>3, ContentsAre
    <2>3. /\ core' \in [Cores -> ProcessType] /\ Others(k)
          /\ r.at = "token" /\ r.by = p.by /\ r.todo = p.todo
          /\ r.state = file.state /\ r.token = p.token
      BY <1>3, <1>7, <2>1, <2>2 DEF ProcessType, Others
    <2>4. Orderly(r) /\ Alive(r) /\ Synced(r, file')
      BY <1>1, <1>5, <2>3 DEF Orderly, Alive, Synced
    <2>5. initially.backup => Rescued(r, file', backup')
      BY <1>1, <1>2, <2>3 DEF Rescued
    <2>6. (~loose /\ ~broken' /\ initially.legacy) => Sound(r, file', legacy')
      BY <1>1, <1>6, <2>3 DEF Sound
    <2>7. Becomes(k, r)
      BY <1>1, <1>3, <1>4, <2>1, <2>3, <2>4, <2>5, <2>6 DEF Becomes, Others
    <2> QED  BY <1>1, <1>2, <2>3, <2>4, <2>7, ProcessKeeps
  <1> QED  BY <1>8, <1>9, <1>10

LEMMA CommitStateKeeps ==
  ASSUME StartInv, NEW k \in Cores, CommitState(k)
  PROVE  StartInv'
  <1> DEFINE p == core[k]
             r == core'[k]
  <1>1. /\ p.at = "write"
        /\ UNCHANGED <<legacy, faults, broken, command, gate, initially, loose>>
    BY DEF CommitState, At, Process
  <1>2. /\ p \in ProcessType /\ Orderly(p) /\ Alive(p)
        /\ initially.backup => Rescued(p, file, backup)
        /\ (~loose /\ ~broken /\ initially.legacy) => Sound(p, file, legacy)
    BY <1>1, ProcessHas DEF Alive
  <1>3. /\ legacy \subseteq Files /\ temp \subseteq Cores /\ file \in [Files -> Contents]
        /\ backup \in BOOLEAN /\ faults \in 0..MaxFaults /\ broken \in BOOLEAN
    BY StartupTypes
  <1>4. p.todo = {} /\ p.state \in {"rescued", "default"} /\ p.state \in Contents
    BY <1>1, <1>2, ContentsAre DEF Orderly
  <1>5. ~(~loose /\ ~broken' /\ initially.legacy)
    BY <1>1, <1>2 DEF Sound
  <1>6. CASE k \in temp
    <2>1. /\ file' = [file EXCEPT !.state = p.state] /\ temp' = {} /\ backup' = FALSE
          /\ Enters(k, "token")
      BY <1>6 DEF CommitState
    <2>2. file' \in [Files -> Contents] /\ file'.state = p.state
      BY <1>3, <1>4, <2>1, ContentsAre
    <2>3. /\ core' \in [Cores -> ProcessType] /\ Others(k)
          /\ r.at = "token" /\ Keeps(p, r)
      <3>1. "token" \in CorePlaces
        BY DEF CorePlaces
      <3> QED  BY <2>1, <3>1, EntersIs
    <2>4. Orderly(r) /\ Alive(r) /\ Synced(r, file')
      BY <1>4, <2>2, <2>3 DEF Orderly, Alive, Synced, Keeps
    <2>5. initially.backup => Rescued(r, file', backup')
      BY <1>2, <1>4, <2>2, <2>3 DEF Rescued, Keeps
    <2>6. Becomes(k, r)
      BY <1>1, <1>3, <1>5, <2>1, <2>2, <2>3, <2>4, <2>5 DEF Becomes, Others
    <2> QED  BY <1>1, <1>2, <2>3, <2>4, <2>6, ProcessKeeps DEF Keeps
  <1>7. CASE k \notin temp
    <2>1. Exits(k) /\ UNCHANGED <<file, temp, backup>>
      BY <1>7 DEF CommitState
    <2>2. initially.backup => file.state # "default" /\ (file.state = "absent" => backup)
      BY <1>2 DEF Rescued
    <2> QED  BY <1>1, <1>2, <1>3, <1>5, <2>1, <2>2, ExitKeeps
  <1> QED  BY <1>6, <1>7

LEMMA ReadOrCreateTokenKeeps ==
  ASSUME StartInv, NEW k \in Cores, ReadOrCreateToken(k)
  PROVE  StartInv'
  <1> DEFINE p == core[k]
             r == core'[k]
  <1>1. /\ p.at = "token"
        /\ UNCHANGED <<legacy, backup, temp, faults, broken, command, gate, initially, loose>>
    BY DEF ReadOrCreateToken, At, Process
  <1>2. /\ p \in ProcessType /\ Orderly(p) /\ Alive(p)
        /\ initially.backup => Rescued(p, file, backup)
        /\ ~loose => Synced(p, file)
        /\ (~loose /\ ~broken /\ initially.legacy) => Sound(p, file, legacy)
    BY <1>1, ProcessHas DEF Alive
  <1>3. /\ legacy \subseteq Files /\ temp \subseteq Cores /\ file \in [Files -> Contents]
        /\ backup \in BOOLEAN /\ faults \in 0..MaxFaults /\ broken \in BOOLEAN
        /\ core \in [Cores -> ProcessType]
    BY StartupTypes DEF ProcessType
  <1>4. p.todo = {} /\ (~loose => p.state = file.state)
    BY <1>1, <1>2 DEF Orderly, Synced
  <1>5. (~loose /\ ~broken' /\ initially.legacy) => AllMoved(file)
    BY <1>1, <1>2 DEF Sound
  <1>6. {"fill", "bind"} \subseteq CorePlaces
    BY DEF CorePlaces
  <1>7. CASE file.token = "absent"
    <2>1. file' = [file EXCEPT !.token = "torn"] /\ Enters(k, "fill")
      BY <1>7 DEF ReadOrCreateToken
    <2>2. file' \in [Files -> Contents] /\ file'.state = file.state
      BY <1>3, <2>1, ContentsAre
    <2>3. /\ core' \in [Cores -> ProcessType] /\ Others(k)
          /\ r.at = "fill" /\ Keeps(p, r)
      BY <1>6, <2>1, EntersIs
    <2>4. Orderly(r) /\ Alive(r) /\ (~loose => Synced(r, file'))
      BY <1>4, <2>2, <2>3 DEF Orderly, Alive, Synced, Keeps
    <2>5. initially.backup => Rescued(r, file', backup')
      BY <1>1, <1>2, <2>2, <2>3 DEF Rescued, Keeps
    <2>6. ~(~loose /\ ~broken' /\ initially.legacy)
      BY <1>5, <1>7 DEF AllMoved
    <2>7. Becomes(k, r)
      BY <1>1, <1>3, <2>2, <2>3, <2>4, <2>5, <2>6 DEF Becomes, Others
    <2> QED  BY <1>1, <1>2, <2>3, <2>4, <2>7, ProcessKeeps DEF Keeps
  <1>8. CASE file.token = "torn"
    <2>1. Exits(k) /\ UNCHANGED file
      BY <1>8 DEF ReadOrCreateToken
    <2>2. initially.backup => file.state # "default" /\ (file.state = "absent" => backup)
      BY <1>2 DEF Rescued
    <2> QED  BY <1>1, <1>2, <1>3, <1>5, <2>1, <2>2, ExitKeeps
  <1>9. CASE file.token \notin {"torn", "absent"}
    <2>1. core' = [core EXCEPT ![k].at = "bind", ![k].token = file.token] /\ UNCHANGED file
      BY <1>9 DEF ReadOrCreateToken
    <2>2. file.token \in Contents
      BY <1>3, ContentsAre
    <2>3. /\ core' \in [Cores -> ProcessType] /\ Others(k)
          /\ r.at = "bind" /\ r.by = p.by /\ r.todo = p.todo
          /\ r.state = p.state /\ r.token = file.token
      BY <1>3, <1>6, <2>1, <2>2 DEF ProcessType, Others
    <2>4. Orderly(r) /\ Alive(r) /\ (~loose => Synced(r, file'))
      BY <1>4, <2>1, <2>3 DEF Orderly, Alive, Synced
    <2>5. initially.backup => Rescued(r, file', backup')
      BY <1>1, <1>2, <2>1, <2>3 DEF Rescued
    <2>6. (~loose /\ ~broken' /\ initially.legacy) => Sound(r, file', legacy')
      BY <1>5, <2>1, <2>3 DEF Sound
    <2>7. Becomes(k, r)
      BY <1>1, <1>3, <2>1, <2>3, <2>4, <2>5, <2>6 DEF Becomes, Others
    <2> QED  BY <1>1, <1>2, <2>3, <2>4, <2>7, ProcessKeeps
  <1> QED  BY <1>7, <1>8, <1>9

LEMMA FillTokenKeeps ==
  ASSUME StartInv, NEW k \in Cores, FillToken(k)
  PROVE  StartInv'
  <1> DEFINE p == core[k]
             r == core'[k]
  <1>1. /\ p.at = "fill"
        /\ file' = [file EXCEPT !.token = k]
        /\ core' = [core EXCEPT ![k].at = "bind", ![k].token = k]
        /\ UNCHANGED <<legacy, backup, temp, faults, broken, command, gate, initially, loose>>
    BY DEF FillToken, At, Process
  <1>2. /\ p \in ProcessType /\ Orderly(p) /\ Alive(p)
        /\ initially.backup => Rescued(p, file, backup)
        /\ ~loose => Synced(p, file)
        /\ ~(~loose /\ ~broken' /\ initially.legacy)
    BY <1>1, ProcessHas DEF Alive, Sound
  <1>3. /\ legacy \subseteq Files /\ temp \subseteq Cores /\ file \in [Files -> Contents]
        /\ backup \in BOOLEAN /\ faults \in 0..MaxFaults /\ broken \in BOOLEAN
        /\ core \in [Cores -> ProcessType]
    BY StartupTypes DEF ProcessType
  <1>4. file' \in [Files -> Contents] /\ file'.state = file.state /\ file'.token = k
    BY <1>1, <1>3, ContentsAre
  <1>5. /\ core' \in [Cores -> ProcessType] /\ Others(k)
        /\ r.at = "bind" /\ r.by = p.by /\ r.todo = p.todo
        /\ r.state = p.state /\ r.token = k
    <2>1. "bind" \in CorePlaces /\ k \in Contents
      BY ContentsAre DEF CorePlaces
    <2> QED  BY <1>1, <1>3, <2>1 DEF ProcessType, Others
  <1>6. Orderly(r) /\ Alive(r) /\ (~loose => Synced(r, file'))
    BY <1>1, <1>2, <1>4, <1>5 DEF Orderly, Alive, Synced
  <1>7. initially.backup => Rescued(r, file', backup')
    BY <1>1, <1>2, <1>4, <1>5 DEF Rescued
  <1>8. Becomes(k, r)
    BY <1>1, <1>2, <1>3, <1>4, <1>5, <1>6, <1>7 DEF Becomes, Others
  <1> QED  BY <1>1, <1>2, <1>5, <1>6, <1>8, ProcessKeeps

LEMMA BindKeeps ==
  ASSUME StartInv, NEW k \in Cores, Bind(k)
  PROVE  StartInv'
  <1> DEFINE p == core[k]
             r == core'[k]
  <1>1. p.at = "bind" /\ NothingStored
    BY DEF Bind, At, Process, NothingStored, disk
  <1>2. /\ p \in ProcessType /\ Orderly(p) /\ Alive(p)
        /\ initially.backup => Rescued(p, file, backup)
        /\ ~loose => Synced(p, file)
        /\ (~loose /\ ~broken /\ initially.legacy) => Sound(p, file, legacy)
    BY <1>1, ProcessHas DEF Alive
  <1>3. p.todo = {} /\ (~loose => p.state = file.state /\ p.token = file.token)
    BY <1>1, <1>2 DEF Orderly, Synced
  <1>4. (~loose /\ ~broken' /\ initially.legacy) => AllMoved(file)
    BY <1>1, <1>2 DEF Sound, NothingStored
  <1>5. CASE \E other \in Cores : Serving(other)
    <2>1. Exits(k)
      BY <1>5 DEF Bind
    <2>2. initially.backup => file.state # "default" /\ (file.state = "absent" => backup)
      BY <1>2 DEF Rescued
    <2>3. file \in [Files -> Contents] /\ faults \in 0..MaxFaults /\ broken \in BOOLEAN
      BY StartupTypes
    <2> QED  BY <1>1, <1>2, <1>4, <2>1, <2>2, <2>3, ExitKeeps DEF NothingStored
  <1>6. CASE ~\E other \in Cores : Serving(other)
    <2>1. core' = [core EXCEPT ![k].at = "serving", ![k].by = "none"]
      BY <1>6 DEF Bind
    <2>2. /\ core' \in [Cores -> ProcessType] /\ Others(k)
          /\ r.at = "serving" /\ r.by = "none" /\ r.todo = p.todo
          /\ r.state = p.state /\ r.token = p.token
      <3>1. "serving" \in CorePlaces
        BY DEF CorePlaces
      <3> QED  BY <1>2, <2>1, <3>1, StartupTypes DEF ProcessType, Others
    <2>3. Orderly(r) /\ Alive(r) /\ (~loose => Synced(r, file'))
      BY <1>1, <1>3, <2>2 DEF Orderly, Alive, Synced, NothingStored
    <2>4. initially.backup => Rescued(r, file', backup')
      BY <1>1, <1>2, <2>2 DEF Rescued, NothingStored
    <2>5. (~loose /\ ~broken' /\ initially.legacy) => Sound(r, file', legacy')
      BY <1>1, <1>4, <2>2 DEF Sound, NothingStored
    <2>6. Becomes(k, r)
      BY <1>1, <2>2, <2>3, <2>4, <2>5, NothingStoredTypes DEF Becomes, Others
    <2> QED  BY <1>1, <1>2, <2>2, <2>3, <2>6, ProcessKeeps DEF NothingStored
  <1> QED  BY <1>5, <1>6

(* A serving process that dies leaves the files as they are; a start that  *)
(* does is broken.                                                         *)
LEMMA DiesKeeps ==
  ASSUME StartInv, NEW k \in Cores, Dies(k)
  PROVE  StartInv'
  <1> DEFINE p == core[k]
  <1>1. /\ p.at \notin {"none", "exited"} /\ Exits(k) /\ file' \in LeftHalf(k)
        /\ faults < MaxFaults /\ faults' = faults + 1
        /\ broken' = (broken \/ Starting(k))
        /\ UNCHANGED <<legacy, backup, temp, command, gate, initially, loose>>
    BY DEF Dies, Process, Fault
  <1>2. /\ p \in ProcessType /\ Orderly(p) /\ Alive(p)
        /\ initially.backup => Rescued(p, file, backup)
        /\ (~loose /\ ~broken /\ initially.legacy) => Sound(p, file, legacy)
    BY <1>1, ProcessHas DEF Alive
  <1>3. /\ file' \in [Files -> Contents] /\ file'.state \in {file.state, "torn"}
        /\ p.todo = {} => file' = file
    BY <1>1, LeftHalfIs, ContentsAre
  <1>4. faults' \in 0..MaxFaults
    <2>1. faults \in 0..MaxFaults /\ MaxFaults \in Nat
      BY StartupTypes, StartupAssumption
    <2> QED  BY <1>1, <2>1
  <1>5. broken \in BOOLEAN
    BY StartupTypes
  <1>6. broken' \in BOOLEAN /\ (broken => broken')
    BY <1>1, <1>5 DEF Starting
  <1>7. initially.backup => file'.state # "default" /\ (file'.state = "absent" => backup)
    BY <1>2, <1>3 DEF Rescued
  <1>8. (~loose /\ ~broken' /\ initially.legacy) => AllMoved(file')
    <2> SUFFICES ASSUME ~loose, ~broken', initially.legacy
                 PROVE  AllMoved(file')
      OBVIOUS
    <2>1. p.at = "serving" /\ ~broken
      BY <1>1 DEF Starting
    <2>2. file' = file /\ AllMoved(file)
      BY <1>2, <1>3, <2>1 DEF Orderly, Sound
    <2> QED  BY <2>2
  <1> QED  BY <1>1, <1>2, <1>3, <1>4, <1>6, <1>7, <1>8, ExitKeeps

(* The state is written by a serving process, for a command that no        *)
(* process waits for.                                                      *)
LEMMA CallEditsKeeps ==
  ASSUME StartInv, NEW c \in Commands, NEW k \in Cores, CallEdits(c, k)
  PROVE  StartInv'
  <1> DEFINE p == core[k]
             r == core'[k]
  <1>1. /\ command[c].at = "call" /\ p.at = "serving" /\ p.token = file.token
        /\ command' = [command EXCEPT ![c].at = "done", ![c].token = "absent"]
        /\ core' = [core EXCEPT ![k].state = "edited"]
        /\ file' = [file EXCEPT !.state = "edited"]
        /\ temp' = {} /\ backup' = FALSE
        /\ UNCHANGED <<legacy, gate, faults, initially, broken, loose>>
    BY DEF CallEdits, Moves, Serving
  <1>2. /\ p \in ProcessType /\ Orderly(p) /\ Alive(p)
        /\ (~loose /\ ~broken /\ initially.legacy) => Sound(p, file, legacy)
    BY <1>1, ProcessHas DEF Alive
  <1>3. /\ legacy \subseteq Files /\ file \in [Files -> Contents]
        /\ faults \in 0..MaxFaults /\ broken \in BOOLEAN
        /\ core \in [Cores -> ProcessType]
        /\ command \in [Commands -> [at : CommandPlaces, token : Contents]]
    BY StartupTypes DEF ProcessType
  <1>4. {"edited", "absent"} \subseteq Contents /\ "done" \in CommandPlaces
    BY ContentsAre DEF CommandPlaces
  <1>5. /\ command' \in [Commands -> [at : CommandPlaces, token : Contents]]
        /\ \A d \in Commands : d # c => command'[d] = command[d]
    BY <1>1, <1>3, <1>4
  <1>6. /\ file' \in [Files -> Contents] /\ file'.state = "edited"
        /\ file'.token = file.token /\ file'.data = file.data
    BY <1>1, <1>3, <1>4, ContentsAre
  <1>7. /\ core' \in [Cores -> ProcessType] /\ Others(k)
        /\ r.at = "serving" /\ r.by = p.by /\ r.todo = p.todo
        /\ r.state = "edited" /\ r.token = p.token
    BY <1>1, <1>2, <1>3, <1>4 DEF ProcessType, Others
  <1>8. Orderly(r) /\ Synced(r, file')
    BY <1>1, <1>2, <1>6, <1>7 DEF Orderly, Synced
  <1>9. Rescued(r, file', backup')
    BY <1>6, <1>7 DEF Rescued
  <1>10. (~loose /\ ~broken' /\ initially.legacy) => Sound(r, file', legacy')
    BY <1>1, <1>2, <1>6, <1>7 DEF Sound, AllMoved
  <1>11. Becomes(k, r)
    BY <1>1, <1>3, <1>6, <1>7, <1>8, <1>9, <1>10 DEF Becomes, Others, Alive
  <1>12. Waited'
    <2> SUFFICES ASSUME NEW j \in Cores, core'[j].by # "none"
                 PROVE  /\ Alive(core'[j])
                        /\ gate # <<>> /\ Head(gate) = core'[j].by
                        /\ command'[core'[j].by].at \in {"wait", "reproving"}
      BY <1>1 DEF Waited, Holds
    <2>1. core'[j].by = core[j].by /\ core'[j].at = core[j].at
      BY <1>1, <1>7 DEF Others
    <2>2. core[j].by \in Commands
      BY <1>3, <2>1 DEF ProcessType
    <2>3. /\ Alive(core[j]) /\ Holds(core[j].by)
          /\ command[core[j].by].at \in {"wait", "reproving"}
      BY <2>1 DEF StartInv, Waited
    <2>4. command'[core[j].by] = command[core[j].by]
      BY <1>1, <1>5, <2>2, <2>3
    <2> QED  BY <2>1, <2>3, <2>4 DEF Alive, Holds
  <1> QED  BY <1>2, <1>5, <1>11, <1>12, BecomesKeeps

-----------------------------------------------------------------------------
LEMMA StartInitHasInv ==
  ASSUME StartupInit
  PROVE  StartInv
  <1>1. /\ legacy \in {{}, Files} /\ backup \in BOOLEAN /\ temp = {} /\ gate = <<>>
        /\ file = [state |-> "absent", token |-> "absent", data |-> "stub"]
        /\ command = [c \in Commands |-> [at |-> "idle", token |-> "absent"]]
        /\ core = [k \in Cores |-> Without("none")]
        /\ faults = 0 /\ initially = [legacy |-> legacy # {}, backup |-> backup]
        /\ broken = FALSE /\ loose = FALSE
    BY DEF StartupInit
  <1>2. Without("none") \in ProcessType
    BY ContentsAre DEF Without, ProcessType, CorePlaces
  <1>3. \A k \in Cores : core[k] = Without("none")
    BY <1>1
  <1>4. core \in [Cores -> ProcessType]
    BY <1>1, <1>2
  <1>5. command \in [Commands -> [at : CommandPlaces, token : Contents]]
    BY <1>1, ContentsAre DEF CommandPlaces
  <1>6. file \in [Files -> Contents]
    <2>1. file \in [state : Contents, token : Contents, data : Contents]
      BY <1>1, ContentsAre
    <2>2. [state : Contents, token : Contents, data : Contents] = [Files -> Contents]
      BY DEF Files
    <2> QED  BY <2>1, <2>2
  <1>7. initially \in [legacy : BOOLEAN, backup : BOOLEAN] /\ faults \in 0..MaxFaults
    BY <1>1, StartupAssumption
  <1>8. StartupTypeOK
    <2>1. legacy \subseteq Files
      <3>1. legacy \in {{}, Files}
        BY <1>1
      <3> QED  BY <3>1
    <2>2. temp \subseteq Cores /\ gate \in Seq(Commands)
      <3>1. temp = {} /\ gate = <<>>
        BY <1>1
      <3> QED  BY <3>1
    <2>3. backup \in BOOLEAN /\ broken \in BOOLEAN /\ loose \in BOOLEAN
      BY <1>1
    <2> QED  BY <1>4, <1>5, <1>6, <1>7, <2>1, <2>2, <2>3 DEF StartupTypeOK, ProcessType
  <1>9. \A k \in Cores : /\ core[k].at = "none" /\ core[k].by = "none" /\ core[k].todo = {}
                         /\ core[k].state = "absent"
    BY <1>3 DEF Without
  <1>10. Waited /\ \A k \in Cores : Orderly(core[k]) /\ Synced(core[k], file)
    BY <1>9 DEF Waited, Orderly, Synced
  <1>11. file.state = "absent" /\ initially.backup = backup /\ (initially.legacy => legacy = Files)
    BY <1>1
  <1>12. initially.backup => \A k \in Cores : Rescued(core[k], file, backup)
    BY <1>9, <1>11 DEF Rescued
  <1>13. OneAlive
    BY <1>9 DEF OneAlive, Alive
  <1>14. initially.legacy =>
           Clean(file, legacy) /\ \A k \in Cores : Sound(core[k], file, legacy)
    BY <1>9, <1>11 DEF Clean, Sound
  <1> QED  BY <1>8, <1>10, <1>12, <1>13, <1>14 DEF StartInv

LEMMA StartNextKeepsInv ==
  ASSUME StartInv, StartupNext
  PROVE  StartInv'
  <1>1. ASSUME NEW c \in Commands,
               Begin(c) \/ Passes(c) \/ Reverify(c) \/ StartupTimesOut(c) \/ Cancel(c)
        PROVE  StartInv'
    <2>1. CASE Begin(c)
      BY <2>1, BeginKeeps
    <2>2. CASE Verify(c) \/ Reverify(c)
      BY <2>2, ProbeKeeps
    <2>3. CASE Proved(c) \/ SpawnFails(c) \/ StartupTimesOut(c) \/ Cancel(c)
      BY <2>3, LeavingKeeps
    <2>4. CASE NotReproved(c) \/ CallEnds(c) \/ CallLaunches(c) \/ LauncherEnds(c)
      BY <2>4, MovingKeeps
    <2>5. CASE \E k \in Cores : Spawn(c, k)
      BY <2>5, SpawnKeeps
    <2>6. CASE \E k \in Cores : CallEdits(c, k)
      BY <2>6, CallEditsKeeps
    <2> QED  BY <1>1, <2>1, <2>2, <2>3, <2>4, <2>5, <2>6 DEF Passes
  <1>2. ASSUME NEW k \in Cores, Logon(k) \/ Starts(k) \/ Dies(k)
        PROVE  StartInv'
    <2>1. CASE Logon(k)
      BY <2>1, LogonKeeps
    <2>2. CASE Dies(k)
      BY <2>2, DiesKeeps
    <2>3. CASE Migrate(k)
      BY <2>3, MigrateKeeps
    <2>4. CASE \E f \in Files : Copy(k, f)
      BY <2>4, CopyKeeps
    <2>5. CASE CopyFails(k)
      BY <2>5, CopyFailsKeeps
    <2>6. CASE Copied(k)
      BY <2>6, CopiedKeeps
    <2>7. CASE RemoveLegacy(k)
      BY <2>7, RemoveLegacyKeeps
    <2>8. CASE ReadState(k)
      BY <2>8, ReadStateKeeps
    <2>9. CASE CommitState(k)
      BY <2>9, CommitStateKeeps
    <2>10. CASE ReadOrCreateToken(k)
      BY <2>10, ReadOrCreateTokenKeeps
    <2>11. CASE FillToken(k)
      BY <2>11, FillTokenKeeps
    <2>12. CASE Bind(k)
      BY <2>12, BindKeeps
    <2> QED  BY <1>2, <2>1, <2>2, <2>3, <2>4, <2>5, <2>6, <2>7, <2>8, <2>9, <2>10, <2>11,
                <2>12 DEF Starts
  <1> QED  BY <1>1, <1>2 DEF StartupNext

LEMMA StartStutterKeepsInv ==
  ASSUME StartInv, UNCHANGED startupVars
  PROVE  StartInv'
  <1>1. UNCHANGED <<legacy, file, backup, temp, command, gate, core, faults, initially,
                    broken, loose>>
    BY DEF startupVars, disk
  <1>2. StartupTypeOK' /\ Waited' /\ OneAlive' = OneAlive /\ NoneAlive' = NoneAlive
    BY <1>1 DEF StartInv, StartupTypeOK, Waited, Holds, OneAlive, NoneAlive
  <1> QED  BY <1>1, <1>2 DEF StartInv

THEOREM StartInvariance == StartupSpec => []StartInv
  <1>1. StartInv /\ [StartupNext]_startupVars => StartInv'
    BY StartNextKeepsInv, StartStutterKeepsInv
  <1> QED  BY <1>1, StartInitHasInv, PTL DEF StartupSpec

(* A Core that serves has in memory what is on disk, and nothing of what   *)
(* there was before is lost, unless a start was cut short or was begun     *)
(* beside another.                                                         *)
LEMMA InvKeepsData ==
  ASSUME StartInv
  PROVE  StartKeepsData
  <1> SUFFICES ASSUME NEW k \in Cores, Serving(k), ~loose
               PROVE  /\ file.state = core[k].state /\ file.token = core[k].token
                      /\ initially.backup => core[k].state # "default"
                      /\ (initially.legacy /\ ~broken) =>
                             /\ file.data = "old" /\ core[k].token = "old"
                             /\ core[k].state \in {"old", "edited"}
    BY DEF StartKeepsData
  <1>1. /\ core[k].at = "serving" /\ Synced(core[k], file)
        /\ initially.backup => Rescued(core[k], file, backup)
        /\ (~broken /\ initially.legacy) => Sound(core[k], file, legacy)
    BY ProcessHas DEF Serving
  <1>2. file.state = core[k].state /\ file.token = core[k].token
    BY <1>1 DEF Synced
  <1>3. (~broken /\ initially.legacy) => AllMoved(file)
    BY <1>1 DEF Sound
  <1> QED  BY <1>1, <1>2, <1>3 DEF Rescued, AllMoved

(* Whatever commands, starts at logon, crashes and failing file operations *)
(* interleave (core_client.rs, main.rs, storage.rs, daemon.rs).            *)
THEOREM StartsKeepData == StartupSpec => []StartKeepsData
  BY StartInvariance, InvKeepsData, PTL

-----------------------------------------------------------------------------
(* Core as a whole: how it is started and what it answers.                 *)
THEOREM CoreInvariance == CoreSpec => [](NetInv /\ StartInv)
  <1>1. CoreInit => NetInv /\ StartInv
    BY NetInitHasInv, StartInitHasInv DEF CoreInit
  <1>2. NetInv /\ StartInv /\ [CoreNext]_<<vars, startupVars>> => NetInv' /\ StartInv'
    <2> SUFFICES ASSUME NetInv, StartInv, [CoreNext]_<<vars, startupVars>>
                 PROVE  NetInv' /\ StartInv'
      OBVIOUS
    <2>1. CASE Next /\ UNCHANGED startupVars
      BY <2>1, NetNextKeepsInv, StartStutterKeepsInv
    <2>2. CASE StartupNext /\ UNCHANGED vars
      BY <2>2, StartNextKeepsInv, NetStutterKeepsInv
    <2>3. CASE UNCHANGED <<vars, startupVars>>
      <3>1. UNCHANGED vars /\ UNCHANGED startupVars
        BY <2>3
      <3> QED  BY <3>1, NetStutterKeepsInv, StartStutterKeepsInv
    <2> QED  BY <2>1, <2>2, <2>3 DEF CoreNext
  <1> QED  BY <1>1, <1>2, PTL DEF CoreSpec

(* Requests, exchanges, policies, files, commands and processes keep their *)
(* types, in every execution that the run explores.                        *)
THEOREM CoreTypeCorrect == CoreSpec => []CoreTypeOK
  <1>1. NetInv /\ StartInv => CoreTypeOK
    BY DEF NetInv, StartInv, CoreTypeOK
  <1> QED  BY <1>1, CoreInvariance, PTL

(* What the parts promise by themselves holds of the whole.                *)
THEOREM CoreIsSafe ==
  CoreSpec => [](StoredPoliciesAcceptable /\ HopsAreSafe /\ StartKeepsData)
  <1>1. NetInv => StoredPoliciesAcceptable
    BY AllFitIsAcceptable DEF NetInv, PolicyInv
  <1>2. NetInv => HopsAreSafe
    BY DEF NetInv, SafeHop, HopsAreSafe
  <1> QED  BY <1>1, <1>2, InvKeepsData, CoreInvariance, PTL

(* Nor does anything else that Core does, while it starts or serves, grant *)
(* what the Manager did not ask for.                                       *)
THEOREM CoreGrantsNothingUnasked == CoreSpec => NothingGrantedUnasked
  <1>1. NetInv /\ [CoreNext]_<<vars, startupVars>> => [NothingUnasked]_policyVars
    <2> SUFFICES ASSUME NetInv, [CoreNext]_<<vars, startupVars>>
                 PROVE  [NothingUnasked]_policyVars
      OBVIOUS
    <2>1. [Next]_vars
      BY DEF CoreNext
    <2>2. PolicyInv /\ [PolicyNext]_policyVars
      BY <2>1, NetStepIsPolicyStep DEF NetInv
    <2> QED  BY <2>2, PolicyStepGrantsNothingUnasked
  <1> QED  BY <1>1, CoreInvariance, PTL DEF CoreSpec, NothingGrantedUnasked, NothingUnasked, OnlyAsked
=============================================================================
