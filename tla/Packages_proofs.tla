---------------------------- MODULE Packages_proofs ----------------------------
(***************************************************************************)
(* Proofs about plugin packages: what an archive that is packed, checked   *)
(* and extracted comes to (PackageFormat), and what the store of installed *)
(* plugins keeps through failures (PluginStore).  They hold for any paths, *)
(* plugins, versions, applications, and any number of steps and faults.    *)
(***************************************************************************)
EXTENDS Packages, Selection_proofs

-----------------------------------------------------------------------------
(* What is needed for the safety properties to be inductive.               *)

(* The version a directory content stands for, as in VersionAt.            *)
VersionOf(content) == IF content = Absent THEN Absent ELSE content.version

(* A snapshot that is not stale is of the directory its fingerprint is of. *)
CacheSound ==
    (cache # NoCache /\ ~cache.stale) =>
        cache.plugins = [p \in Plugins |-> VersionOf(cache.fp[1][p])]

(* The suffix of a transaction directory is the number of an operation     *)
(* that was begun, and failures are faults.                                *)
Counted == (op # Idle => ops > 0) /\ failed <= faults

(* From the reset of the policies on, an install has nothing to fear from  *)
(* them; a removal can still be undone, and what it would put back is what *)
(* the grants were set for.                                                *)
PoliciesReset ==
    op # Idle =>
      /\ op.step \in {"backup", "publish", "cleanup"} =>
            \A a \in Apps : policy[a][op.plugin] = Default
      /\ op.step = "drop" =>
            \A a \in Apps :
               (policy[a][op.plugin] \in Entries /\ ~policy[a][op.plugin].fallback)
                  => policy[a][op.plugin].version = op.content.version

Installed(p) == held[p] # Absent => live[p] # Absent \/ p \in excused

(* Where the only copy of a plugin lies while an operation moves it about. *)
KeptSomewhere ==
    /\ \A p \in Plugins : (op = Idle \/ p # op.plugin) => Installed(p)
    /\ op # Idle =>
         /\ op.step \in {"reset", "backup", "publish"} =>
               Staging \in trans \/ op.plugin \in excused
         /\ op.step \in {"reset", "backup", "cleanup"} => Installed(op.plugin)
         /\ op.step = "publish" =>
               (held[op.plugin] # Absent => Backups # {} \/ op.plugin \in excused)
         /\ op.step \in {"drop", "empty"} => held[op.plugin] = Absent

Inv ==
    /\ TypeOK /\ Counted
    /\ CacheSound
    /\ GrantsFollowVersion /\ PoliciesReset
    /\ KeptSomewhere

-----------------------------------------------------------------------------
(* The running operation, if there is one, and what it works on.           *)
LEMMA Running ==
  ASSUME op \in Ops, op.step # "idle"
  PROVE  /\ op # Idle
         /\ op = [step |-> op.step, plugin |-> op.plugin, content |-> op.content]
         /\ op.step \in Steps /\ op.plugin \in Plugins /\ op.content \in Contents
  BY DEF Ops, Idle, Steps

LEMMA NextStep ==
  ASSUME op \in Ops, op # Idle, NEW s \in Steps, Continues(s)
  PROVE  /\ op' \in Ops /\ op' # Idle
         /\ op'.step = s /\ op'.plugin = op.plugin /\ op'.content = op.content
  BY DEF Ops, Idle, Steps, Continues

(* The snapshot has the type of a cache.  When it is not stale, it shows   *)
(* what is installed.                                                      *)
LEMMA SnapshotSound ==
  ASSUME TypeOK, CacheSound
  PROVE  /\ Snapshot \in Caches \cup {NoCache}
         /\ Snapshot # NoCache /\ ~Snapshot.stale =>
               Snapshot.plugins = [p \in Plugins |-> VersionAt(p)]
         /\ Snapshot # NoCache /\ ~Snapshot.stale =>
               Snapshot.plugins = [p \in Plugins |-> VersionOf(Snapshot.fp[1][p])]
<1>1. CASE CacheIsCurrent
  <2>1. cache.fp[1] = live
    BY <1>1 DEF CacheIsCurrent, Fingerprint
  <2>2. cache.plugins = [p \in Plugins |-> VersionOf(live[p])]
    BY <1>1, <2>1 DEF CacheIsCurrent, CacheSound
  <2> QED
    BY <1>1, <2>1, <2>2 DEF Snapshot, TypeOK, VersionAt, VersionOf
<1>2. CASE ~CacheIsCurrent /\ ScanSucceeds
  <2>1. Snapshot = Scan
    BY <1>2 DEF Snapshot
  <2>2. \A p \in Plugins : VersionAt(p) \in Versions \cup {Absent}
    BY DEF VersionAt, TypeOK, Contents
  <2>3. Fingerprint \in [Plugins -> Contents \cup {Absent}] \X SUBSET Dirs
    BY DEF Fingerprint, TypeOK
  <2>4. Scan \in Caches
    BY <2>2, <2>3 DEF Scan, Caches
  <2>5. Scan.fp[1] = live /\ Scan.plugins = [p \in Plugins |-> VersionAt(p)]
    BY DEF Scan, Fingerprint
  <2> QED
    BY <2>1, <2>4, <2>5 DEF VersionAt, VersionOf
<1>3. CASE ~CacheIsCurrent /\ ~ScanSucceeds /\ cache # NoCache
  <2>1. Snapshot = [cache EXCEPT !.stale = TRUE]
    BY <1>3 DEF Snapshot
  <2>2. cache \in Caches
    BY <1>3 DEF TypeOK
  <2>3. Snapshot \in Caches /\ Snapshot.stale = TRUE
    BY <2>1, <2>2 DEF Caches
  <2> QED
    BY <2>3
<1>4. CASE ~CacheIsCurrent /\ ~ScanSucceeds /\ cache = NoCache
  BY <1>4 DEF Snapshot
<1> QED
  BY <1>1, <1>2, <1>3, <1>4

-----------------------------------------------------------------------------
LEMMA InitHasInv == Init => Inv
<1> SUFFICES ASSUME Init PROVE Inv
  OBVIOUS
<1>1. TypeOK
  BY BoundsAssumption DEF Init, TypeOK, Ops
<1>2. Counted /\ CacheSound /\ PoliciesReset
  BY DEF Init, Counted, CacheSound, PoliciesReset
<1>3. GrantsFollowVersion
  BY DEF Init, GrantsFollowVersion
<1>4. KeptSomewhere
  BY DEF Init, KeptSomewhere, Installed
<1> QED
  BY <1>1, <1>2, <1>3, <1>4 DEF Inv

LEMMA ReadKeeps ==
  ASSUME Inv, Read
  PROVE  Inv'
<1>1. TypeOK /\ CacheSound
  BY DEF Inv
<1>2. TypeOK'
  BY <1>1, SnapshotSound DEF Read, TypeOK
<1>3. CacheSound'
  BY <1>1, SnapshotSound DEF Read, CacheSound
<1>4. (Counted /\ GrantsFollowVersion /\ PoliciesReset /\ KeptSomewhere)'
  BY DEF Inv, Read, Counted, GrantsFollowVersion, PoliciesReset, KeptSomewhere, Installed
<1> QED
  BY <1>2, <1>3, <1>4 DEF Inv

(* A grant is checked against the snapshot: it is of the version that is   *)
(* in place, or marked as checked against an old one.                      *)
LEMMA SetPolicyKeeps ==
  ASSUME Inv, NEW a \in Apps, NEW p \in Plugins, SetPolicy(a, p)
  PROVE  Inv'
<1> DEFINE entry == [version |-> Snapshot.plugins[p], fallback |-> Snapshot.stale]
<1>1. TypeOK /\ CacheSound /\ op = Idle
  BY DEF Inv, SetPolicy
<1>2. /\ Snapshot \in Caches
      /\ Snapshot.plugins[p] \in Versions
      /\ Snapshot.stale \in BOOLEAN
  BY <1>1, SnapshotSound DEF SetPolicy, Serves, Caches
<1>3. entry \in Entries
  BY <1>2 DEF Entries
<1>4. ~entry.fallback => entry.version = VersionAt(p)
  BY <1>1, <1>2, SnapshotSound DEF SetPolicy, Serves
<1>5. policy' \in [Apps -> [Plugins -> {NoPolicy, Default} \cup Entries]]
  BY <1>1, <1>3 DEF SetPolicy, TypeOK
<1>6. TypeOK'
  BY <1>1, <1>2, <1>5, BoundsAssumption DEF SetPolicy, TypeOK
<1>7. CacheSound'
  BY <1>1, SnapshotSound DEF SetPolicy, CacheSound
<1>8. GrantsFollowVersion'
  <2> SUFFICES ASSUME NEW b \in Apps, NEW q \in Plugins,
                      policy'[b][q] \in Entries, live[q] # Absent, ~policy'[b][q].fallback
               PROVE  policy'[b][q].version = live[q].version
    BY DEF GrantsFollowVersion, SetPolicy
  <2>1. CASE b = a /\ q = p
    <3>1. policy'[b][q] = entry
      BY <1>1, <2>1 DEF SetPolicy, TypeOK
    <3> QED
      BY <1>4, <2>1, <3>1 DEF VersionAt
  <2>2. CASE ~(b = a /\ q = p)
    <3>1. policy'[b][q] = policy[b][q]
      BY <1>1, <2>2 DEF SetPolicy, TypeOK
    <3> QED
      BY <3>1 DEF Inv, GrantsFollowVersion
  <2> QED
    BY <2>1, <2>2
<1>9. (Counted /\ PoliciesReset /\ KeptSomewhere)'
  BY <1>1 DEF Inv, SetPolicy, Counted, PoliciesReset, KeptSomewhere, Installed
<1> QED
  BY <1>6, <1>7, <1>8, <1>9 DEF Inv

(* An operation begins: its plugin stays excused only while it is missing. *)
LEMMA BeginsKeepsInstalled ==
  ASSUME \A p \in Plugins : Installed(p), excused \subseteq Plugins,
         NEW step \in Steps, NEW plugin \in Plugins, NEW content \in Contents,
         Begins(step, plugin, content), ops \in 0..MaxOps, failed <= faults, faults \in Nat
  PROVE  /\ excused' \subseteq Plugins
         /\ \A p \in Plugins : held[p] # Absent => live[p] # Absent \/ p \in excused'
         /\ op' \in Ops /\ op' # Idle
         /\ op'.step = step /\ op'.plugin = plugin /\ op'.content = content
         /\ ops' \in 1..MaxOps /\ ops' = ops + 1
         /\ failed' = 0 /\ faults' = faults
<1>1. op' = [step |-> step, plugin |-> plugin, content |-> content]
  BY DEF Begins
<1>2. op' \in Ops /\ op' # Idle
  BY <1>1 DEF Ops, Idle, Steps
<1>3. ops' \in 1..MaxOps /\ ops' = ops + 1
  BY BoundsAssumption DEF Begins
<1> QED
  BY <1>1, <1>2, <1>3 DEF Begins, Installed

LEMMA ExtractKeeps ==
  ASSUME Inv, NEW p \in Plugins, NEW v \in Versions, Extract(p, v)
  PROVE  Inv'
<1> DEFINE content == [version |-> v, loads |-> TRUE]
<1> DEFINE staging == [kind |-> "staging", plugin |-> p, content |-> content, n |-> ops + 1]
<1>1. TypeOK /\ op = Idle /\ \A q \in Plugins : Installed(q)
  BY DEF Inv, Extract, KeptSomewhere
<1>2. content \in Contents
  BY DEF Contents
<1>3. /\ excused' \subseteq Plugins
      /\ \A q \in Plugins : held[q] # Absent => live[q] # Absent \/ q \in excused'
      /\ op' \in Ops /\ op' # Idle
      /\ op'.step = "reset" /\ op'.plugin = p /\ op'.content = content
      /\ ops' \in 1..MaxOps /\ ops' = ops + 1
      /\ failed' = 0 /\ faults' = faults
  <2>1. Begins("reset", p, content)
    BY DEF Extract
  <2>2. failed <= faults /\ faults \in Nat /\ ops \in 0..MaxOps /\ excused \subseteq Plugins
    BY <1>1, BoundsAssumption DEF Inv, Counted, TypeOK
  <2> QED
    BY <1>1, <1>2, <2>1, <2>2, BeginsKeepsInstalled DEF Steps
<1>4. staging \in Dirs
  BY <1>2, <1>3 DEF Dirs, Kinds
<1>5. trans' = trans \cup {staging}
  BY DEF Extract
<1>6. TypeOK'
  <2>1. trans' \subseteq Dirs
    BY <1>1, <1>4, <1>5 DEF TypeOK
  <2>2. failed' \in 0..MaxFaults /\ ops' \in 0..MaxOps
    BY <1>3, BoundsAssumption
  <2> QED
    BY <1>1, <1>3, <2>1, <2>2 DEF TypeOK, Extract
<1>7. (Counted /\ CacheSound)'
  BY <1>1, <1>3, BoundsAssumption DEF Inv, Extract, TypeOK, Counted, CacheSound
<1>8. (GrantsFollowVersion /\ PoliciesReset)'
  BY <1>3 DEF Inv, Extract, GrantsFollowVersion, PoliciesReset
<1>9. KeptSomewhere'
  <2>1. Staging' \in trans'
    BY <1>3, <1>5 DEF Staging, Dir
  <2>2. \A q \in Plugins : Installed(q)'
    BY <1>3 DEF Installed, Extract
  <2> QED
    BY <1>3, <2>1, <2>2 DEF KeptSomewhere
<1> QED
  BY <1>6, <1>7, <1>8, <1>9 DEF Inv

-----------------------------------------------------------------------------
(* The file operations of the running handler succeed, or some fail.       *)
LEMMA FailuresCounted ==
  ASSUME TypeOK, Counted, op # Idle, NEW n \in 1..2, Fails(n)
  PROVE  /\ failed' \in 0..MaxFaults /\ faults' \in 0..MaxFaults /\ failed' <= faults'
         /\ excused' \subseteq Plugins /\ excused \subseteq excused'
         /\ failed + n > 1 => op.plugin \in excused'
<1>1. op.plugin \in Plugins
  BY DEF TypeOK, Ops
<1> QED
  BY <1>1, BoundsAssumption DEF Fails, TypeOK, Counted

LEMMA WorksCounted ==
  ASSUME TypeOK, Counted, Works
  PROVE  /\ failed' \in 0..MaxFaults /\ faults' \in 0..MaxFaults /\ failed' <= faults'
         /\ excused' \subseteq Plugins /\ excused \subseteq excused'
  BY DEF Works, TypeOK, Counted

LEMMA StepPlugin ==
  ASSUME TypeOK, op.step # "idle"
  PROVE  op # Idle /\ op.plugin \in Plugins /\ op.content \in Contents /\ op.content # Absent
         /\ op.content.version \in Versions
<1>1. op # Idle /\ op.plugin \in Plugins /\ op.content \in Contents
  BY Running DEF TypeOK
<1> QED
  BY <1>1, ValuesAssumption DEF Contents

LEMMA ResetPoliciesKeeps ==
  ASSUME Inv, ResetPolicies
  PROVE  Inv'
<1>1. TypeOK /\ Counted /\ op.step = "reset" /\ op # Idle /\ op.plugin \in Plugins
  BY StepPlugin DEF Inv, ResetPolicies
<1>2. Installed(op.plugin) /\ \A p \in Plugins : Installed(p)
  BY <1>1 DEF Inv, KeptSomewhere
<1>3. UNCHANGED <<live, trans, cache, held, ops, grants>>
  BY DEF ResetPolicies
<1>4. CASE /\ policy' = [a \in Apps |-> [policy[a] EXCEPT ![op.plugin] = Default]]
           /\ Continues("backup") /\ Works
  <2>1. /\ op' \in Ops /\ op' # Idle
        /\ op'.step = "backup" /\ op'.plugin = op.plugin /\ op'.content = op.content
    BY <1>1, <1>4, NextStep DEF TypeOK, Steps
  <2>2. policy' \in [Apps -> [Plugins -> {NoPolicy, Default} \cup Entries]]
    BY <1>1, <1>4 DEF TypeOK
  <2>3. (TypeOK /\ Counted)'
    BY <1>1, <1>3, <1>4, <2>1, <2>2 DEF TypeOK, Counted, Works
  <2>4. CacheSound'
    BY <1>3 DEF Inv, CacheSound
  <2>5. \A a \in Apps : /\ policy'[a][op.plugin] = Default
                        /\ \A p \in Plugins : p # op.plugin => policy'[a][p] = policy[a][p]
    BY <1>1, <1>4 DEF TypeOK
  <2>6. GrantsFollowVersion'
    BY <1>1, <1>3, <2>5, ValuesAssumption DEF Inv, GrantsFollowVersion
  <2>7. PoliciesReset'
    BY <2>1, <2>5 DEF PoliciesReset
  <2>8. KeptSomewhere'
    <3>1. Staging' \in trans' \/ op'.plugin \in excused'
      BY <1>1, <1>3, <1>4, <2>1 DEF Inv, KeptSomewhere, Staging, Dir, Works
    <3>2. \A p \in Plugins : Installed(p)'
      BY <1>2, <1>3, <1>4 DEF Installed, Works
    <3> QED
      BY <1>1, <2>1, <3>1, <3>2 DEF KeptSomewhere
  <2> QED
    BY <2>3, <2>4, <2>6, <2>7, <2>8 DEF Inv
<1>5. CASE Fails(1) /\ Ends /\ UNCHANGED policy
  <2>1. op' = Idle /\ op' \in Ops
    BY <1>5 DEF Ends, Ops
  <2>2. (TypeOK /\ Counted)'
    BY <1>1, <1>3, <1>5, <2>1, FailuresCounted DEF TypeOK, Counted
  <2>3. (CacheSound /\ GrantsFollowVersion /\ PoliciesReset)'
    BY <1>3, <1>5, <2>1 DEF Inv, CacheSound, GrantsFollowVersion, PoliciesReset
  <2>4. KeptSomewhere'
    BY <1>1, <1>2, <1>3, <1>5, <2>1, FailuresCounted DEF KeptSomewhere, Installed
  <2> QED
    BY <2>2, <2>3, <2>4 DEF Inv
<1> QED
  BY <1>4, <1>5 DEF ResetPolicies

(* The prior directory goes aside, which is where Publish finds it.        *)
LEMMA BackUpKeeps ==
  ASSUME Inv, BackUp
  PROVE  Inv'
<1>1. TypeOK /\ Counted /\ op.step = "backup" /\ op # Idle /\ op.plugin \in Plugins
  BY StepPlugin DEF Inv, BackUp
<1>2. Installed(op.plugin) /\ \A p \in Plugins : Installed(p)
  BY <1>1 DEF Inv, KeptSomewhere
<1>3. UNCHANGED <<policy, cache, held, ops, grants>>
  BY DEF BackUp
<1>4. \A a \in Apps : policy[a][op.plugin] = Default
  BY <1>1 DEF Inv, PoliciesReset
<1>5. Staging \in trans \/ op.plugin \in excused
  BY <1>1 DEF Inv, KeptSomewhere
<1>6. ASSUME Continues("publish"), Works,
             live' \in [Plugins -> Contents \cup {Absent}], trans' \subseteq Dirs,
             trans \subseteq trans',
             \A p \in Plugins : p # op.plugin => live'[p] = live[p],
             live'[op.plugin] = Absent,
             live[op.plugin] # Absent => Dir("backup", live[op.plugin]) \in trans'
      PROVE  Inv'
  <2>1. /\ op' \in Ops /\ op' # Idle
        /\ op'.step = "publish" /\ op'.plugin = op.plugin /\ op'.content = op.content
    BY <1>1, <1>6, NextStep DEF TypeOK, Steps
  <2>2. (TypeOK /\ Counted /\ CacheSound)'
    BY <1>1, <1>3, <1>6, <2>1 DEF Inv, TypeOK, Counted, Works, CacheSound
  <2>3. (GrantsFollowVersion /\ PoliciesReset)'
    BY <1>3, <1>4, <1>6, <2>1 DEF Inv, GrantsFollowVersion, PoliciesReset
  <2>4. Staging' = Staging /\ Backups' = {d \in trans' : d.kind = "backup" /\ d.plugin = op.plugin /\ d.n = ops}
    BY <1>3, <2>1 DEF Staging, Dir, Backups
  <2>5. live[op.plugin] # Absent => Backups' # {}
    BY <1>6, <2>4 DEF Dir
  <2>6. KeptSomewhere'
    BY <1>1, <1>2, <1>3, <1>5, <1>6, <2>1, <2>4, <2>5 DEF KeptSomewhere, Installed, Works
  <2> QED
    BY <2>2, <2>3, <2>6 DEF Inv
<1>7. ASSUME NEW n \in 1..2, Fails(n), Ends, trans' \subseteq trans, UNCHANGED live
      PROVE  Inv'
  <2>1. op' = Idle /\ op' \in Ops
    BY <1>7 DEF Ends, Ops
  <2>2. (TypeOK /\ Counted)'
    BY <1>1, <1>3, <1>7, <2>1, FailuresCounted DEF TypeOK, Counted
  <2>3. (CacheSound /\ GrantsFollowVersion /\ PoliciesReset)'
    BY <1>3, <1>7, <2>1 DEF Inv, CacheSound, GrantsFollowVersion, PoliciesReset
  <2>4. KeptSomewhere'
    BY <1>1, <1>2, <1>3, <1>7, <2>1, FailuresCounted DEF KeptSomewhere, Installed
  <2> QED
    BY <2>2, <2>3, <2>4 DEF Inv
<1>8. CASE live[op.plugin] = Absent /\ Continues("publish") /\ Works /\ UNCHANGED <<live, trans>>
  BY <1>1, <1>6, <1>8 DEF TypeOK
<1>9. CASE /\ live[op.plugin] # Absent
           /\ trans' = trans \cup {Dir("backup", live[op.plugin])}
           /\ live' = [live EXCEPT ![op.plugin] = Absent]
           /\ Continues("publish") /\ Works
  <2>1. Dir("backup", live[op.plugin]) \in Dirs
    <3>1. ops \in 1..MaxOps
      BY <1>1, BoundsAssumption DEF TypeOK, Counted
    <3> QED
      BY <1>1, <1>9, <3>1 DEF Dir, Dirs, Kinds, TypeOK
  <2>2. /\ live' \in [Plugins -> Contents \cup {Absent}]
        /\ \A p \in Plugins : p # op.plugin => live'[p] = live[p]
        /\ live'[op.plugin] = Absent
    BY <1>1, <1>9 DEF TypeOK
  <2>3. trans' \subseteq Dirs /\ trans \subseteq trans' /\ Dir("backup", live[op.plugin]) \in trans'
    BY <1>1, <1>9, <2>1 DEF TypeOK
  <2> QED
    BY <1>6, <1>9, <2>2, <2>3
<1> QED
  BY <1>7, <1>8, <1>9 DEF BackUp

LEMMA BackupsTyped ==
  ASSUME TypeOK, op # Idle, NEW d \in Backups
  PROVE  d \in trans /\ d.content \in Contents /\ d.content # Absent
  BY ValuesAssumption DEF Backups, TypeOK, Dirs

LEMMA PublishKeeps ==
  ASSUME Inv, Publish
  PROVE  Inv'
<1>1. /\ TypeOK /\ Counted /\ op.step = "publish" /\ op # Idle /\ op.plugin \in Plugins
      /\ op.content \in Contents /\ op.content # Absent /\ op.content.version \in Versions
  BY StepPlugin DEF Inv, Publish
<1>2. \A p \in Plugins : p # op.plugin => Installed(p)
  BY <1>1 DEF Inv, KeptSomewhere
<1>3. UNCHANGED <<policy, ops, grants>>
  BY DEF Publish
<1>4. \A a \in Apps : policy[a][op.plugin] = Default
  BY <1>1 DEF Inv, PoliciesReset
<1>5. Staging \in trans \/ op.plugin \in excused
  BY <1>1 DEF Inv, KeptSomewhere
<1>6. held[op.plugin] # Absent => Backups # {} \/ op.plugin \in excused
  BY <1>1 DEF Inv, KeptSomewhere
<1>7. CASE PublishSucceeds
  <2>1. /\ live' \in [Plugins -> Contents \cup {Absent}]
        /\ live'[op.plugin] = op.content
        /\ \A p \in Plugins : p # op.plugin => live'[p] = live[p]
    BY <1>1, <1>7 DEF PublishSucceeds, TypeOK
  <2>2. /\ held' \in [Plugins -> Versions \cup {Absent}]
        /\ \A p \in Plugins : p # op.plugin => held'[p] = held[p]
    BY <1>1, <1>7 DEF PublishSucceeds, TypeOK
  <2>3. trans' \subseteq Dirs /\ Works
    BY <1>1, <1>7 DEF PublishSucceeds, TypeOK
  <2>4. \/ op' = Idle /\ op' \in Ops /\ cache' = NoCache
        \/ /\ op' \in Ops /\ op' # Idle /\ op'.step = "cleanup"
           /\ op'.plugin = op.plugin /\ op'.content = op.content
           /\ UNCHANGED cache
    <3>1. CASE Backups = {}
      BY <1>7, <3>1 DEF PublishSucceeds, Ends, Ops
    <3>2. CASE Backups # {}
      BY <1>1, <1>7, <3>2, NextStep DEF PublishSucceeds, TypeOK, Steps
    <3> QED
      BY <3>1, <3>2
  <2>5. TypeOK'
    BY <1>1, <1>3, <2>1, <2>2, <2>3, <2>4, WorksCounted DEF TypeOK
  <2>6. Counted'
    BY <1>1, <1>3, <2>3, <2>4 DEF Counted, Works
  <2>7. CacheSound'
    BY <2>4 DEF Inv, CacheSound
  <2>8. GrantsFollowVersion'
    BY <1>1, <1>3, <1>4, <2>1, ValuesAssumption DEF Inv, GrantsFollowVersion
  <2>9. PoliciesReset'
    BY <1>3, <1>4, <2>4 DEF PoliciesReset
  <2>10. KeptSomewhere'
    <3>1. \A p \in Plugins : Installed(p)'
      BY <1>1, <1>2, <2>1, <2>2, <2>3 DEF Installed, Works
    <3> QED
      BY <1>1, <2>4, <3>1 DEF KeptSomewhere
  <2> QED
    BY <2>5, <2>6, <2>7, <2>8, <2>9, <2>10 DEF Inv
<1>8. CASE \E n \in 0..1 : PublishFails(n)
  <2>1. PICK n \in 0..1 : PublishFails(n)
    BY <1>8
  <2>2. op' = Idle /\ op' \in Ops /\ UNCHANGED <<cache, held>>
    BY <2>1 DEF PublishFails, Ends, Ops
  <2>3. /\ failed' \in 0..MaxFaults /\ faults' \in 0..MaxFaults /\ failed' <= faults'
        /\ excused' \subseteq Plugins /\ excused \subseteq excused'
        /\ n > 0 => op.plugin \in excused'
    <3>1. CASE Staging \in trans
      <4>1. Fails(1 + n) /\ 1 + n \in 1..2 /\ (n > 0 => failed + (1 + n) > 1)
        BY <1>1, <2>1, <3>1, BoundsAssumption DEF PublishFails, TypeOK
      <4> QED
        BY <1>1, <4>1, FailuresCounted
    <3>2. CASE Staging \notin trans /\ n = 0
      BY <1>1, <2>1, <3>2, WorksCounted DEF PublishFails
    <3>3. CASE Staging \notin trans /\ n # 0
      <4>1. Fails(n) /\ n \in 1..2
        BY <2>1, <3>3 DEF PublishFails
      <4> QED
        BY <1>1, <1>5, <3>3, <4>1, FailuresCounted
    <3> QED
      BY <3>1, <3>2, <3>3
  <2>4. trans' \subseteq Dirs
    BY <1>1, <2>1 DEF PublishFails, TypeOK
  <2>5. /\ live' \in [Plugins -> Contents \cup {Absent}]
        /\ \A p \in Plugins : p # op.plugin => live'[p] = live[p]
        /\ live[op.plugin] # Absent => live'[op.plugin] # Absent
        /\ n = 0 /\ Backups # {} => live'[op.plugin] # Absent
    <3>1. CASE n = 0 /\ Backups # {}
      <4> DEFINE d == CHOOSE x \in Backups : TRUE
      <4>1. d \in Backups
        BY <3>1
      <4>2. live' = [live EXCEPT ![op.plugin] = d.content]
        BY <2>1, <3>1 DEF PublishFails
      <4> HIDE DEF d
      <4> QED
        BY <1>1, <4>1, <4>2, BackupsTyped DEF TypeOK
    <3>2. CASE ~(n = 0 /\ Backups # {})
      BY <1>1, <2>1, <3>2 DEF PublishFails, TypeOK
    <3> QED
      BY <3>1, <3>2
  <2>6. (TypeOK /\ Counted /\ CacheSound /\ PoliciesReset)'
    BY <1>1, <1>3, <2>2, <2>3, <2>4, <2>5 DEF Inv, TypeOK, Counted, CacheSound, PoliciesReset
  <2>7. GrantsFollowVersion'
    BY <1>1, <1>3, <1>4, <2>5, ValuesAssumption DEF Inv, GrantsFollowVersion
  <2>8. KeptSomewhere'
    BY <1>1, <1>2, <1>6, <2>2, <2>3, <2>5 DEF KeptSomewhere, Installed
  <2> QED
    BY <2>6, <2>7, <2>8 DEF Inv
<1> QED
  BY <1>7, <1>8 DEF Publish

LEMMA CleanUpKeeps ==
  ASSUME Inv, CleanUp
  PROVE  Inv'
<1>1. TypeOK /\ Counted /\ op.step = "cleanup" /\ op # Idle /\ op.plugin \in Plugins
  BY StepPlugin DEF Inv, CleanUp
<1>2. UNCHANGED <<live, policy, held, ops, grants>> /\ op' = Idle /\ op' \in Ops
  BY DEF CleanUp, Ends, Ops
<1>3. trans' \subseteq trans /\ cache' \in {cache, NoCache}
  BY DEF CleanUp
<1>4. /\ failed' \in 0..MaxFaults /\ faults' \in 0..MaxFaults /\ failed' <= faults'
      /\ excused' \subseteq Plugins /\ excused \subseteq excused'
  BY <1>1, FailuresCounted, WorksCounted DEF CleanUp
<1>5. (TypeOK /\ Counted /\ CacheSound /\ GrantsFollowVersion /\ PoliciesReset)'
  BY <1>1, <1>2, <1>3, <1>4
     DEF Inv, TypeOK, Counted, CacheSound, GrantsFollowVersion, PoliciesReset
<1>6. KeptSomewhere'
  BY <1>1, <1>2, <1>4 DEF Inv, KeptSomewhere, Installed
<1> QED
  BY <1>5, <1>6 DEF Inv

-----------------------------------------------------------------------------
LEMMA StageRemovalKeeps ==
  ASSUME Inv, NEW p \in Plugins, StageRemoval(p)
  PROVE  Inv'
<1> DEFINE trash == [kind |-> "remove", plugin |-> p, content |-> live[p], n |-> ops + 1]
<1>1. TypeOK /\ op = Idle /\ live[p] \in Contents /\ \A q \in Plugins : Installed(q)
  BY DEF Inv, StageRemoval, KeptSomewhere, TypeOK
<1>2. /\ excused' \subseteq Plugins
      /\ \A q \in Plugins : held[q] # Absent => live[q] # Absent \/ q \in excused'
      /\ op' \in Ops /\ op' # Idle
      /\ op'.step = "drop" /\ op'.plugin = p /\ op'.content = live[p]
      /\ ops' \in 1..MaxOps /\ ops' = ops + 1
      /\ failed' = 0 /\ faults' = faults
  <2>1. failed <= faults /\ faults \in Nat /\ ops \in 0..MaxOps /\ excused \subseteq Plugins
    BY <1>1, BoundsAssumption DEF Inv, Counted, TypeOK
  <2> QED
    BY <1>1, <2>1, BeginsKeepsInstalled DEF StageRemoval, Steps
<1>3. trash \in Dirs /\ trans' = trans \cup {trash}
  BY <1>1, <1>2 DEF Dirs, Kinds, StageRemoval
<1>4. /\ live' \in [Plugins -> Contents \cup {Absent}] /\ live'[p] = Absent
      /\ held' \in [Plugins -> Versions \cup {Absent}] /\ held'[p] = Absent
      /\ \A q \in Plugins : q # p => live'[q] = live[q] /\ held'[q] = held[q]
  BY <1>1 DEF StageRemoval, TypeOK
<1>5. TypeOK'
  <2>1. trans' \subseteq Dirs
    BY <1>1, <1>3 DEF TypeOK
  <2>2. failed' \in 0..MaxFaults /\ ops' \in 0..MaxOps
    BY <1>2, BoundsAssumption
  <2> QED
    BY <1>1, <1>2, <1>4, <2>1, <2>2 DEF TypeOK, StageRemoval
<1>6. (Counted /\ CacheSound)'
  BY <1>1, <1>2, BoundsAssumption DEF StageRemoval, TypeOK, Counted, CacheSound
<1>7. GrantsFollowVersion'
  BY <1>4 DEF Inv, StageRemoval, GrantsFollowVersion
<1>8. PoliciesReset'
  BY <1>1, <1>2 DEF Inv, StageRemoval, PoliciesReset, GrantsFollowVersion
<1>9. KeptSomewhere'
  BY <1>2, <1>4 DEF KeptSomewhere, Installed
<1> QED
  BY <1>5, <1>6, <1>7, <1>8, <1>9 DEF Inv

(* What a failed removal puts back is what the remaining policies are for. *)
LEMMA DropPoliciesKeeps ==
  ASSUME Inv, DropPolicies
  PROVE  Inv'
<1>1. /\ TypeOK /\ Counted /\ op.step = "drop" /\ op # Idle /\ op.plugin \in Plugins
      /\ op.content \in Contents /\ op.content # Absent /\ op.content.version \in Versions
  BY StepPlugin DEF Inv, DropPolicies
<1>2. held[op.plugin] = Absent /\ \A p \in Plugins : p # op.plugin => Installed(p)
  BY <1>1 DEF Inv, KeptSomewhere
<1>3. UNCHANGED <<cache, ops, grants>>
  BY DEF DropPolicies
<1>4. CASE /\ policy' = [a \in Apps |-> [policy[a] EXCEPT ![op.plugin] = NoPolicy]]
           /\ Continues("empty") /\ Works /\ UNCHANGED <<live, trans, held>>
  <2>1. /\ op' \in Ops /\ op' # Idle
        /\ op'.step = "empty" /\ op'.plugin = op.plugin /\ op'.content = op.content
    BY <1>1, <1>4, NextStep DEF TypeOK, Steps
  <2>2. /\ policy' \in [Apps -> [Plugins -> {NoPolicy, Default} \cup Entries]]
        /\ \A a \in Apps : /\ policy'[a][op.plugin] = NoPolicy
                           /\ \A p \in Plugins : p # op.plugin => policy'[a][p] = policy[a][p]
    BY <1>1, <1>4 DEF TypeOK
  <2>3. (TypeOK /\ Counted /\ CacheSound)'
    BY <1>1, <1>3, <1>4, <2>1, <2>2 DEF Inv, TypeOK, Counted, Works, CacheSound
  <2>4. GrantsFollowVersion'
    BY <1>1, <1>4, <2>2, ValuesAssumption DEF Inv, GrantsFollowVersion
  <2>5. PoliciesReset'
    BY <2>1 DEF PoliciesReset
  <2>6. KeptSomewhere'
    BY <1>1, <1>2, <1>4, <2>1 DEF KeptSomewhere, Installed, Works
  <2> QED
    BY <2>3, <2>4, <2>5, <2>6 DEF Inv
<1>5. CASE /\ Ends /\ UNCHANGED policy
           /\ held' = [held EXCEPT ![op.plugin] = op.content.version]
           /\ \/ /\ Trash \in trans /\ Fails(1)
                 /\ live' = [live EXCEPT ![op.plugin] = op.content]
                 /\ trans' = trans \ {Trash}
              \/ Fails(2) /\ UNCHANGED <<live, trans>>
  <2>1. op' = Idle /\ op' \in Ops
    BY <1>5 DEF Ends, Ops
  <2>2. /\ held' \in [Plugins -> Versions \cup {Absent}]
        /\ \A p \in Plugins : p # op.plugin => held'[p] = held[p]
    BY <1>1, <1>5 DEF TypeOK
  <2>3. /\ live' \in [Plugins -> Contents \cup {Absent}]
        /\ \A p \in Plugins : p # op.plugin => live'[p] = live[p]
        /\ live'[op.plugin] \in {op.content, live[op.plugin]}
        /\ trans' \subseteq trans
    BY <1>1, <1>5 DEF TypeOK
  <2>4. /\ failed' \in 0..MaxFaults /\ faults' \in 0..MaxFaults /\ failed' <= faults'
        /\ excused' \subseteq Plugins /\ excused \subseteq excused'
        /\ live'[op.plugin] = op.content \/ op.plugin \in excused'
    <3>1. CASE Fails(1) /\ live' = [live EXCEPT ![op.plugin] = op.content]
      BY <1>1, <3>1, FailuresCounted DEF TypeOK
    <3>2. CASE Fails(2)
      <4>1. failed + 2 > 1
        BY <1>1, BoundsAssumption DEF TypeOK
      <4> QED
        BY <1>1, <3>2, <4>1, FailuresCounted
    <3> QED
      BY <1>5, <3>1, <3>2
  <2>5. (TypeOK /\ Counted /\ CacheSound /\ PoliciesReset)'
    BY <1>1, <1>3, <1>5, <2>1, <2>2, <2>3, <2>4
       DEF Inv, TypeOK, Counted, CacheSound, PoliciesReset
  <2>6. GrantsFollowVersion'
    BY <1>1, <1>5, <2>3 DEF Inv, GrantsFollowVersion, PoliciesReset
  <2>7. KeptSomewhere'
    BY <1>1, <1>2, <2>1, <2>2, <2>3, <2>4 DEF KeptSomewhere, Installed
  <2> QED
    BY <2>5, <2>6, <2>7 DEF Inv
<1> QED
  BY <1>4, <1>5 DEF DropPolicies

LEMMA EmptyTrashKeeps ==
  ASSUME Inv, EmptyTrash
  PROVE  Inv'
<1>1. TypeOK /\ Counted /\ op.step = "empty" /\ op # Idle /\ op.plugin \in Plugins
  BY StepPlugin DEF Inv, EmptyTrash
<1>2. UNCHANGED <<live, policy, cache, held, ops, grants>> /\ op' = Idle /\ op' \in Ops
  BY DEF EmptyTrash, Ends, Ops
<1>3. trans' \subseteq trans
  BY DEF EmptyTrash
<1>4. /\ failed' \in 0..MaxFaults /\ faults' \in 0..MaxFaults /\ failed' <= faults'
      /\ excused' \subseteq Plugins /\ excused \subseteq excused'
  BY <1>1, FailuresCounted, WorksCounted DEF EmptyTrash
<1>5. (TypeOK /\ Counted /\ CacheSound /\ GrantsFollowVersion /\ PoliciesReset)'
  BY <1>1, <1>2, <1>3, <1>4
     DEF Inv, TypeOK, Counted, CacheSound, GrantsFollowVersion, PoliciesReset
<1>6. KeptSomewhere'
  BY <1>1, <1>2, <1>4 DEF Inv, KeptSomewhere, Installed
<1> QED
  BY <1>5, <1>6 DEF Inv

-----------------------------------------------------------------------------
(* Whoever sweeps excuses the plugin whose operation is under way.         *)
LEMMA DisturbanceCounted ==
  ASSUME Inv, Disturbs
  PROVE  /\ failed' = failed /\ failed' <= faults' /\ faults' \in 0..MaxFaults
         /\ excused' \subseteq Plugins /\ excused \subseteq excused'
         /\ op # Idle => op.plugin \in excused'
<1>1. op # Idle => op.plugin \in Plugins
  BY DEF Inv, TypeOK, Ops
<1> QED
  BY <1>1, BoundsAssumption DEF Inv, TypeOK, Counted, Disturbs

LEMMA RestartKeeps ==
  ASSUME Inv, Restart
  PROVE  Inv'
<1>1. TypeOK /\ op' = Idle /\ op' \in Ops /\ cache' = NoCache /\ trans' = {} /\ Disturbs
  BY DEF Inv, Restart, Ends, Ops, Sweep
<1>2. (TypeOK /\ Counted /\ CacheSound /\ GrantsFollowVersion /\ PoliciesReset)'
  BY <1>1, DisturbanceCounted
     DEF Inv, Restart, TypeOK, Counted, CacheSound, GrantsFollowVersion, PoliciesReset
<1>3. KeptSomewhere'
  <2> SUFFICES ASSUME NEW p \in Plugins
               PROVE  held[p] # Absent => live[p] # Absent \/ p \in excused'
    BY <1>1 DEF Restart, KeptSomewhere, Installed
  <2>1. CASE op = Idle \/ p # op.plugin
    BY <1>1, <2>1, DisturbanceCounted DEF Inv, KeptSomewhere, Installed
  <2>2. CASE op # Idle /\ p = op.plugin
    BY <1>1, <2>2, DisturbanceCounted
  <2> QED
    BY <2>1, <2>2
<1> QED
  BY <1>2, <1>3 DEF Inv

LEMMA SecondCoreKeeps ==
  ASSUME Inv, SecondCore
  PROVE  Inv'
<1>1. TypeOK /\ op # Idle /\ trans' = {} /\ Disturbs
  BY DEF Inv, SecondCore, Sweep
<1>2. UNCHANGED <<live, policy, cache, op, held, ops, grants>>
  BY DEF SecondCore
<1>3. (TypeOK /\ Counted /\ CacheSound /\ GrantsFollowVersion /\ PoliciesReset)'
  BY <1>1, <1>2, DisturbanceCounted
     DEF Inv, TypeOK, Counted, CacheSound, GrantsFollowVersion, PoliciesReset
<1>4. KeptSomewhere'
  BY <1>1, <1>2, DisturbanceCounted DEF Inv, KeptSomewhere, Installed
<1> QED
  BY <1>3, <1>4 DEF Inv

(* Damage and repair of a directory: its version stays.                    *)
LEMMA DamageKeeps ==
  ASSUME Inv, NEW p \in Plugins, Damage(p) \/ Repair(p)
  PROVE  Inv'
<1>1. /\ TypeOK /\ op = Idle /\ live[p] \in Contents
      /\ UNCHANGED <<trans, policy, cache, op, held, failed, excused, ops, grants>>
      /\ faults' \in {faults, faults + 1} /\ faults' \in 0..MaxFaults
  BY BoundsAssumption DEF Inv, Damage, Repair, TypeOK
<1>2. PICK ok \in BOOLEAN : live' = [live EXCEPT ![p].loads = ok]
  BY DEF Damage, Repair
<1>3. /\ live' \in [Plugins -> Contents \cup {Absent}]
      /\ live'[p] \in Contents /\ live'[p].version = live[p].version
      /\ \A q \in Plugins : q # p => live'[q] = live[q]
  BY <1>1, <1>2 DEF TypeOK, Contents
<1>4. (TypeOK /\ Counted /\ CacheSound /\ PoliciesReset)'
  BY <1>1, <1>3, BoundsAssumption DEF Inv, TypeOK, Counted, CacheSound, PoliciesReset
<1>5. GrantsFollowVersion'
  BY <1>1, <1>3, ValuesAssumption DEF Inv, GrantsFollowVersion
<1>6. KeptSomewhere'
  BY <1>1, <1>3, ValuesAssumption DEF Inv, KeptSomewhere, Installed
<1> QED
  BY <1>4, <1>5, <1>6 DEF Inv

-----------------------------------------------------------------------------
LEMMA NextKeepsInv == Inv /\ [Next]_vars => Inv'
<1> SUFFICES ASSUME Inv, [Next]_vars PROVE Inv'
  OBVIOUS
<1>1. CASE UNCHANGED vars
  <2>1. UNCHANGED <<live, trans, policy, cache, op, held, failed, excused, ops, grants, faults>>
    BY <1>1 DEF vars
  <2> QED
    BY <2>1 DEF Inv, TypeOK, Counted, CacheSound, GrantsFollowVersion, PoliciesReset,
                KeptSomewhere, Installed, Staging, Dir, Backups
<1>2. ASSUME NEW a \in Apps, NEW p \in Plugins, SetPolicy(a, p) PROVE Inv'
  BY <1>2, SetPolicyKeeps
<1>3. ASSUME NEW p \in Plugins, NEW v \in Versions, Extract(p, v) PROVE Inv'
  BY <1>3, ExtractKeeps
<1>4. ASSUME NEW p \in Plugins, StageRemoval(p) PROVE Inv'
  BY <1>4, StageRemovalKeeps
<1>5. ASSUME NEW p \in Plugins, Damage(p) \/ Repair(p) PROVE Inv'
  BY <1>5, DamageKeeps
<1>6. CASE Read
  BY <1>6, ReadKeeps
<1>7. CASE ResetPolicies
  BY <1>7, ResetPoliciesKeeps
<1>8. CASE BackUp
  BY <1>8, BackUpKeeps
<1>9. CASE Publish
  BY <1>9, PublishKeeps
<1>10. CASE CleanUp
  BY <1>10, CleanUpKeeps
<1>11. CASE DropPolicies
  BY <1>11, DropPoliciesKeeps
<1>12. CASE EmptyTrash
  BY <1>12, EmptyTrashKeeps
<1>13. CASE Restart
  BY <1>13, RestartKeeps
<1>14. CASE SecondCore
  BY <1>14, SecondCoreKeeps
<1> QED
  BY <1>1, <1>2, <1>3, <1>4, <1>5, <1>6, <1>7, <1>8, <1>9, <1>10, <1>11, <1>12, <1>13, <1>14
     DEF Next

LEMMA Invariance == Spec => []Inv
<1>1. Init => Inv
  BY InitHasInv
<1>2. Inv /\ [Next]_vars => Inv'
  BY NextKeepsInv
<1> QED
  BY <1>1, <1>2, PTL DEF Spec

-----------------------------------------------------------------------------
(* The files, policies and snapshots of the store keep their types.        *)
THEOREM TypeCorrect == Spec => []TypeOK
<1>1. Inv => TypeOK
  BY DEF Inv
<1> QED
  BY <1>1, Invariance, PTL

(* Whatever fails, dies or sweeps in between: grants that were given while *)
(* one version was installed are never in force for another one, since     *)
(* installPlugin resets the policies before it touches the files, and a    *)
(* removal that is undone puts back what the policies were for.            *)
THEOREM GrantsAlwaysFollowVersion == Spec => []GrantsFollowVersion
<1>1. Inv => GrantsFollowVersion
  BY DEF Inv
<1> QED
  BY <1>1, Invariance, PTL

(* One failed file operation loses no plugin: the handlers of daemon.rs    *)
(* put the prior directory back.                                           *)
THEOREM OneFailureLosesNothing == Spec => []SurvivesOneFailure
<1>1. Inv => SurvivesOneFailure
  BY DEF Inv, KeptSomewhere, SurvivesOneFailure, Installed
<1> QED
  BY <1>1, Invariance, PTL

(* The cached snapshot never hides what is installed: fingerprints make up *)
(* for every path on which a handler leaves the cache as it was.           *)
THEOREM ReadsAlwaysCurrent == Spec => []ReadsAreCurrent
<1>1. Inv => ReadsAreCurrent
  <2> SUFFICES ASSUME Inv, ScanSucceeds
               PROVE  Snapshot.plugins = [p \in Plugins |-> VersionAt(p)]
    BY DEF ReadsAreCurrent
  <2>1. CASE CacheIsCurrent
    BY <2>1 DEF Inv, CacheIsCurrent, CacheSound, Snapshot, Fingerprint, VersionAt, VersionOf
  <2>2. CASE ~CacheIsCurrent
    BY <2>2 DEF Snapshot, Scan
  <2> QED
    BY <2>1, <2>2
<1> QED
  BY <1>1, Invariance, PTL

-----------------------------------------------------------------------------
(* The file operations implement PluginRegistry.                           *)

(* No transaction directory carries a suffix that is not given out yet, so *)
(* an install that has not backed anything up has no backup; a handler     *)
(* that moved a directory aside left nothing in its place.                 *)
Places ==
    /\ \A d \in trans : d.n <= ops
    /\ op # Idle =>
         /\ op.step \in {"reset", "backup"} => Backups = {}
         /\ op.step \in {"publish", "drop"} => live[op.plugin] = Absent

LEMMA InitHasPlaces == Init => Places
  BY DEF Init, Places

(* An operation that begins has a suffix that no directory carries.        *)
LEMMA BeginKeepsPlaces ==
  ASSUME Inv, Places,
         \/ \E p \in Plugins, v \in Versions : Extract(p, v)
         \/ \E p \in Plugins : StageRemoval(p)
  PROVE  Places'
<1>1. TypeOK /\ op = Idle /\ ops \in Nat /\ \A d \in trans : d.n \in Nat /\ d.n <= ops
  <2>1. TypeOK /\ op = Idle /\ ops \in 0..MaxOps
    BY DEF Inv, TypeOK, Extract, StageRemoval
  <2>2. \A d \in trans : d.n \in 1..MaxOps
    BY <2>1 DEF TypeOK, Dirs
  <2> QED
    BY <2>1, <2>2, BoundsAssumption DEF Places
<1>2. CASE \E p \in Plugins, v \in Versions : Extract(p, v)
  <2> PICK p \in Plugins, v \in Versions : Extract(p, v)
    BY <1>2
  <2> DEFINE content == [version |-> v, loads |-> TRUE]
             staging == [kind |-> "staging", plugin |-> p, content |-> content, n |-> ops + 1]
  <2>1. op' = [step |-> "reset", plugin |-> p, content |-> content] /\ ops' = ops + 1
    BY DEF Extract, Begins
  <2>2. trans' = trans \cup {staging}
    BY DEF Extract
  <2>3. \A d \in trans' : d.n <= ops'
    BY <1>1, <2>1, <2>2
  <2>4. Backups' = {}
    BY <1>1, <2>1, <2>2 DEF Backups
  <2> QED
    BY <2>1, <2>3, <2>4 DEF Places
<1>3. CASE \E p \in Plugins : StageRemoval(p)
  <2> PICK p \in Plugins : StageRemoval(p)
    BY <1>3
  <2> DEFINE trash == [kind |-> "remove", plugin |-> p, content |-> live[p], n |-> ops + 1]
  <2>1. op' = [step |-> "drop", plugin |-> p, content |-> live[p]] /\ ops' = ops + 1
    BY DEF StageRemoval, Begins
  <2>2. trans' = trans \cup {trash}
    BY DEF StageRemoval
  <2>3. live'[p] = Absent
    BY <1>1 DEF StageRemoval, TypeOK
  <2>4. \A d \in trans' : d.n <= ops'
    BY <1>1, <2>1, <2>2
  <2> QED
    BY <2>1, <2>3, <2>4 DEF Places
<1> QED
  BY <1>2, <1>3

LEMMA InstallKeepsPlaces ==
  ASSUME Inv, Places, ResetPolicies \/ BackUp
  PROVE  Places'
<1>1. /\ TypeOK /\ op # Idle /\ op.step \in {"reset", "backup"} /\ op.plugin \in Plugins
      /\ op \in Ops /\ ops \in Nat /\ ops' = ops
  BY StepPlugin, BoundsAssumption DEF Inv, TypeOK, ResetPolicies, BackUp
<1>2. (\A d \in trans : d.n <= ops) /\ Backups = {}
  BY <1>1 DEF Places
<1>3. \A d \in trans' : d.n <= ops'
  BY <1>1, <1>2 DEF ResetPolicies, BackUp, Dir
<1>4. CASE op' = Idle
  BY <1>3, <1>4 DEF Places
<1>5. CASE ResetPolicies /\ op' # Idle
  <2>1. Continues("backup") /\ trans' = trans
    BY <1>5 DEF ResetPolicies, Ends
  <2>2. op'.step = "backup" /\ op'.plugin = op.plugin
    BY <1>1, <2>1, NextStep DEF Steps
  <2>3. Backups' = {}
    BY <1>1, <1>2, <2>1, <2>2 DEF Backups
  <2> QED
    BY <1>3, <2>2, <2>3 DEF Places
<1>6. CASE BackUp /\ op' # Idle
  <2>1. Continues("publish") /\ live'[op.plugin] = Absent
    BY <1>1, <1>6 DEF BackUp, Ends, TypeOK
  <2>2. op'.step = "publish" /\ op'.plugin = op.plugin
    BY <1>1, <2>1, NextStep DEF Steps
  <2> QED
    BY <1>3, <2>1, <2>2 DEF Places
<1> QED
  BY <1>4, <1>5, <1>6

(* The other steps end the operation, take directories away, or leave the  *)
(* directories and the operation alone.                                    *)
LEMMA OthersKeepPlaces ==
  ASSUME Inv, Places, trans' \subseteq trans, ops' = ops,
         \/ op' = Idle
         \/ op # Idle /\ op'.step \in {"cleanup", "empty"}
         \/ op' = op /\ live' = live
  PROVE  Places'
<1>1. \A d \in trans' : d.n <= ops'
  BY DEF Places
<1>2. CASE op' = Idle \/ op'.step \in {"cleanup", "empty"}
  BY <1>1, <1>2 DEF Places
<1>3. CASE op' = op /\ live' = live
  <2>1. Backups' \subseteq Backups
    BY <1>3 DEF Backups
  <2> QED
    BY <1>1, <1>3, <2>1 DEF Places
<1> QED
  BY <1>2, <1>3

LEMMA NextKeepsPlaces ==
  ASSUME Inv, Places, [Next]_vars
  PROVE  Places'
<1>1. TypeOK
  BY DEF Inv
<1>2. CASE UNCHANGED vars
  BY <1>2, OthersKeepPlaces DEF vars
<1>3. CASE \/ \E p \in Plugins, v \in Versions : Extract(p, v)
           \/ \E p \in Plugins : StageRemoval(p)
  BY <1>3, BeginKeepsPlaces
<1>4. CASE ResetPolicies \/ BackUp
  BY <1>4, InstallKeepsPlaces
<1>5. CASE Read \/ \E a \in Apps, p \in Plugins : SetPolicy(a, p)
  BY <1>5, OthersKeepPlaces DEF Read, SetPolicy
<1>6. CASE Publish
  <2>1. op \in Ops /\ op # Idle
    BY <1>1, <1>6, StepPlugin DEF Publish, TypeOK
  <2>2. trans' \subseteq trans /\ ops' = ops
    BY <1>6 DEF Publish, PublishSucceeds, PublishFails
  <2>3. op' = Idle \/ Continues("cleanup")
    BY <1>6 DEF Publish, PublishSucceeds, PublishFails, Ends
  <2>4. op' = Idle \/ op'.step = "cleanup"
    BY <2>1, <2>3, NextStep DEF Steps
  <2> QED
    BY <2>1, <2>2, <2>4, OthersKeepPlaces
<1>7. CASE CleanUp \/ EmptyTrash
  BY <1>7, OthersKeepPlaces DEF CleanUp, EmptyTrash, Ends
<1>8. CASE DropPolicies
  <2>1. op \in Ops /\ op # Idle
    BY <1>1, <1>8, StepPlugin DEF DropPolicies, TypeOK
  <2>2. trans' \subseteq trans /\ ops' = ops
    BY <1>8 DEF DropPolicies
  <2>3. op' = Idle \/ Continues("empty")
    BY <1>8 DEF DropPolicies, Ends
  <2>4. op' = Idle \/ op'.step = "empty"
    BY <2>1, <2>3, NextStep DEF Steps
  <2> QED
    BY <2>1, <2>2, <2>4, OthersKeepPlaces
<1>9. CASE Restart
  BY <1>9, OthersKeepPlaces DEF Restart, Sweep, Ends
<1>10. CASE SecondCore
  BY <1>10, OthersKeepPlaces DEF SecondCore, Sweep
<1>11. CASE \E p \in Plugins : Damage(p) \/ Repair(p)
  BY <1>11, OthersKeepPlaces DEF Damage, Repair
<1> QED
  BY <1>2, <1>3, <1>4, <1>5, <1>6, <1>7, <1>8, <1>9, <1>10, <1>11 DEF Next

(* A plugin whose directory nobody has moved aside is what lies in its     *)
(* place.                                                                  *)
LEMMA RegisteredInPlace ==
  ASSUME NEW p \in Plugins
  PROVE  /\ op = Idle \/ p # op.plugin \/ op.step \notin {"publish", "drop"} =>
              Registered(p) = VersionAt(p)
         /\ op' = Idle \/ p # op'.plugin \/ op'.step \notin {"publish", "drop"} =>
              Registered(p)' = VersionAt(p)'
  BY DEF Registered, MovedAside

LEMMA RegisteredAside ==
  ASSUME NEW p \in Plugins, NEW d
  PROVE  /\ MovedAside(p) = {d} => Registered(p) = d.content.version
         /\ MovedAside(p)' = {d} => Registered(p)' = d.content.version
<1>1. (CHOOSE x \in {d} : TRUE) = d /\ {d} # {}
  OBVIOUS
<1>2. ASSUME MovedAside(p) = {d} PROVE Registered(p) = d.content.version
  BY <1>1, <1>2 DEF Registered
<1>3. ASSUME MovedAside(p)' = {d} PROVE Registered(p)' = d.content.version
  <2>1. (CHOOSE x \in MovedAside(p) : TRUE)' = d
    BY <1>1, <1>3
  <2>2. (MovedAside(p) = {})' = FALSE
    BY <1>1, <1>3
  <2> QED
    BY <2>1, <2>2 DEF Registered
<1> QED
  BY <1>2, <1>3

(* An operation disturbs the registration of its own plugin only.          *)
LEMMA ElsewhereRegistered ==
  ASSUME NEW p \in Plugins, op # Idle, p # op.plugin,
         op' = Idle \/ op'.plugin = op.plugin, live'[p] = live[p]
  PROVE  Registered(p)' = Registered(p)
<1>1. Registered(p) = VersionAt(p) /\ Registered(p)' = VersionAt(p)'
  BY RegisteredInPlace
<1> QED
  BY <1>1 DEF VersionAt

LEMMA StuttersIf ==
  ASSUME \A p \in Plugins : Registered(p)' = Registered(p), policy' = policy
  PROVE  [Registry!Next]_Registry!promised
  BY DEF Registry!promised

(* The registry changes for one plugin.                                    *)
LEMMA InstalledChanges ==
  ASSUME NEW q \in Plugins, NEW v, Registered(q)' = v,
         \A p \in Plugins : p # q => Registered(p)' = Registered(p)
  PROVE  [p \in Plugins |-> Registered(p)]' = [[p \in Plugins |-> Registered(p)] EXCEPT ![q] = v]
  OBVIOUS

LEMMA LosesIf ==
  ASSUME NEW q \in Plugins, q \in excused', Registered(q)' = Absent, policy' = policy,
         \A p \in Plugins : p # q => Registered(p)' = Registered(p)
  PROVE  [Registry!Next]_Registry!promised
<1>1. Registry!Lose(q)
  BY InstalledChanges DEF Registry!Lose
<1> QED
  BY <1>1 DEF Registry!Next

LEMMA IdleStepImplements ==
  ASSUME Inv, op = Idle, op' = Idle, policy' = policy,
         \A p \in Plugins : VersionAt(p)' = VersionAt(p)
  PROVE  [Registry!Next]_Registry!promised
  BY RegisteredInPlace, StuttersIf

LEMMA SetPolicyImplements ==
  ASSUME Inv, NEW a \in Apps, NEW p \in Plugins, SetPolicy(a, p)
  PROVE  [Registry!Next]_Registry!promised
<1> DEFINE entry == [version |-> Snapshot.plugins[p], fallback |-> Snapshot.stale]
<1>1. /\ Snapshot \in Caches /\ Snapshot.plugins[p] \in Versions
      /\ ~Snapshot.stale => Snapshot.plugins[p] = VersionAt(p)
  BY SnapshotSound DEF Inv, SetPolicy, Serves, Caches
<1>2. entry \in Registry!Grants
  BY <1>1 DEF Registry!Grants, Caches
<1>3. op = Idle /\ op' = Idle /\ live' = live /\ policy' = [policy EXCEPT ![a][p] = entry]
  BY DEF SetPolicy
<1>4. \A q \in Plugins : Registered(q)' = Registered(q) /\ Registered(q) = VersionAt(q)
  BY <1>3, RegisteredInPlace DEF VersionAt
<1>5. entry.fallback \/ entry.version = VersionAt(p)
  BY <1>1
<1> HIDE DEF entry
<1>6. Registry!Grant(a, p, entry)
  BY <1>3, <1>4, <1>5 DEF Registry!Grant
<1> QED
  BY <1>2, <1>6 DEF Registry!Next

(* A removal begins: the plugin is registered as long as it can be put     *)
(* back.  An install leaves it where it is.                                *)
LEMMA BeginImplements ==
  ASSUME Inv,
         \/ \E p \in Plugins, v \in Versions : Extract(p, v)
         \/ \E p \in Plugins : StageRemoval(p)
  PROVE  [Registry!Next]_Registry!promised
<1>1. TypeOK /\ op = Idle /\ policy' = policy
  BY DEF Inv, Extract, StageRemoval
<1>2. CASE \E p \in Plugins, v \in Versions : Extract(p, v)
  <2>1. op'.step = "reset" /\ live' = live
    BY <1>2 DEF Extract, Begins
  <2>2. \A q \in Plugins : Registered(q)' = Registered(q)
    BY <1>1, <2>1, RegisteredInPlace DEF VersionAt
  <2> QED
    BY <1>1, <2>2, StuttersIf
<1>3. CASE \E p \in Plugins : StageRemoval(p)
  <2> PICK p \in Plugins : StageRemoval(p)
    BY <1>3
  <2> DEFINE trash == [kind |-> "remove", plugin |-> p, content |-> live[p], n |-> ops + 1]
  <2>1. /\ op' = [step |-> "drop", plugin |-> p, content |-> live[p]] /\ op' # Idle
        /\ ops' = ops + 1 /\ live[p] # Absent
    BY DEF StageRemoval, Begins, Idle
  <2>2. trash \in trans' /\ Trash' = trash
    BY <2>1 DEF StageRemoval, Trash, Dir
  <2>3. Registered(p)' = Registered(p)
    <3>1. MovedAside(p)' = {trash}
      BY <2>1, <2>2 DEF MovedAside
    <3> HIDE DEF trash
    <3>2. Registered(p)' = trash.content.version
      BY <3>1, RegisteredAside
    <3>3. trash.content = live[p]
      BY DEF trash
    <3> QED
      BY <1>1, <2>1, <3>2, <3>3, RegisteredInPlace DEF VersionAt
  <2>4. ASSUME NEW q \in Plugins, q # p
        PROVE  Registered(q)' = Registered(q)
    <3>1. live'[q] = live[q]
      BY <1>1, <2>4 DEF StageRemoval, TypeOK
    <3> QED
      BY <1>1, <2>1, <2>4, <3>1, RegisteredInPlace DEF VersionAt
  <2> QED
    BY <1>1, <2>3, <2>4, StuttersIf
<1> QED
  BY <1>2, <1>3

LEMMA ResetPoliciesImplements ==
  ASSUME Inv, ResetPolicies
  PROVE  [Registry!Next]_Registry!promised
<1>1. /\ TypeOK /\ op \in Ops /\ op # Idle /\ op.step = "reset"
      /\ op.plugin \in Plugins /\ live' = live
  BY StepPlugin DEF Inv, TypeOK, ResetPolicies
<1>2. op' = Idle \/ (op'.step = "backup" /\ op'.plugin = op.plugin)
  BY <1>1, NextStep DEF ResetPolicies, Ends, Steps
<1>3. \A p \in Plugins : Registered(p)' = Registered(p)
  BY <1>1, <1>2, RegisteredInPlace DEF VersionAt
<1>4. CASE policy' = policy
  BY <1>3, <1>4, StuttersIf
<1>5. CASE policy' = [a \in Apps |-> [policy[a] EXCEPT ![op.plugin] = Default]]
  <2>1. Registry!Reset(op.plugin)
    BY <1>3, <1>5 DEF Registry!Reset, Registry!PoliciesWith
  <2> QED
    BY <1>1, <2>1 DEF Registry!Next
<1> QED
  BY <1>4, <1>5 DEF ResetPolicies

LEMMA BackUpImplements ==
  ASSUME Inv, Places, BackUp
  PROVE  [Registry!Next]_Registry!promised
<1>1. /\ TypeOK /\ op \in Ops /\ op # Idle /\ op.step = "backup" /\ op.plugin \in Plugins
      /\ policy' = policy /\ ops' = ops /\ Backups = {}
  BY StepPlugin DEF Inv, TypeOK, BackUp, Places
<1>0. PICK q \in Plugins : q = op.plugin
  BY <1>1
<1>2. Registered(q) = VersionAt(q)
  BY <1>0, <1>1, RegisteredInPlace
<1>3. \A p \in Plugins : p # q => live'[p] = live[p]
  BY <1>0, <1>1 DEF BackUp, TypeOK
<1>4. op' = Idle \/ (op' # Idle /\ op'.step = "publish" /\ op'.plugin = op.plugin)
  BY <1>0, <1>1, NextStep DEF BackUp, Ends, Steps
<1>5. ASSUME NEW p \in Plugins, p # q
      PROVE  Registered(p)' = Registered(p)
  BY <1>0, <1>1, <1>3, <1>4, <1>5, ElsewhereRegistered
<1>6. Registered(q)' = Registered(q)
  <2>1. CASE op' = Idle
    <3>1. live' = live
      BY <1>0, <1>1, <2>1, NextStep DEF BackUp, Steps
    <3> QED
      BY <1>0, <1>1, <1>2, <2>1, <3>1, RegisteredInPlace DEF VersionAt
  <2>2. CASE op' # Idle /\ live[op.plugin] = Absent
    <3>1. live' = live /\ trans' = trans
      BY <1>0, <1>1, <2>2 DEF BackUp, Ends
    <3>2. MovedAside(q)' = {}
      BY <1>0, <1>1, <1>4, <2>2, <3>1 DEF MovedAside, Backups
    <3> QED
      BY <1>0, <1>2, <3>1, <3>2 DEF Registered, VersionAt
  <2>3. CASE op' # Idle /\ live[op.plugin] # Absent
    <3> DEFINE d == Dir("backup", live[op.plugin])
    <3>1. trans' = trans \cup {d}
      BY <1>0, <1>1, <2>3 DEF BackUp, Ends
    <3>2. d.kind = "backup" /\ d.plugin = op.plugin /\ d.n = ops /\ d.content = live[op.plugin]
      BY <1>0 DEF Dir
    <3> HIDE DEF d
    <3>3. Backups' = {d}
      BY <1>0, <1>1, <1>4, <2>3, <3>1, <3>2 DEF Backups
    <3>4. MovedAside(q)' = {d}
      BY <1>0, <1>4, <2>3, <3>3 DEF MovedAside
    <3>5. Registered(q)' = d.content.version
      BY <1>0, <1>1, <1>4, <3>4, RegisteredAside
    <3> QED
      BY <1>0, <1>2, <2>3, <3>2, <3>5 DEF VersionAt
  <2> QED
    BY <1>0, <2>1, <2>2, <2>3
<1> QED
  BY <1>0, <1>1, <1>5, <1>6, StuttersIf

(* The new version appears in one step, after its policies were reset.  A  *)
(* publication that fails loses the plugin only if the prior directory     *)
(* cannot go back.                                                         *)
LEMMA PublishImplements ==
  ASSUME Inv, Places, Publish
  PROVE  [Registry!Next]_Registry!promised
<1>1. /\ TypeOK /\ Counted /\ op \in Ops /\ op # Idle /\ op.step = "publish"
      /\ op.plugin \in Plugins /\ op.content \in Contents /\ op.content # Absent
      /\ op.content.version \in Versions
  BY StepPlugin DEF Inv, TypeOK, Publish
<1>0. PICK q \in Plugins : q = op.plugin
  BY <1>1
<1>2. policy' = policy /\ live[op.plugin] = Absent
  BY <1>0, <1>1 DEF Publish, Places
<1>3. op' = Idle \/ (op'.step = "cleanup" /\ op'.plugin = op.plugin)
  <2>1. op' = Idle \/ Continues("cleanup")
    BY <1>0 DEF Publish, PublishSucceeds, PublishFails, Ends
  <2> QED
    BY <1>0, <1>1, <2>1, NextStep DEF Steps
<1>4. Registered(q)' = VersionAt(q)'
  BY <1>0, <1>1, <1>3, RegisteredInPlace
<1>5. ASSUME NEW p \in Plugins, p # q
      PROVE  Registered(p)' = Registered(p)
  <2>1. live'[p] = live[p]
    BY <1>0, <1>1, <1>5 DEF Publish, PublishSucceeds, PublishFails, TypeOK
  <2> QED
    BY <1>0, <1>1, <1>3, <1>5, <2>1, ElsewhereRegistered
<1>6. CASE PublishSucceeds
  <2>1. VersionAt(q)' = op.content.version
    BY <1>0, <1>1, <1>6 DEF PublishSucceeds, TypeOK, VersionAt
  <2>2. \A a \in Apps : policy[a][op.plugin] = Default
    BY <1>0, <1>1 DEF Inv, PoliciesReset
  <2>3. Registry!Install(op.plugin, op.content.version)
    BY <1>0, <1>1, <1>2, <1>4, <1>5, <2>1, <2>2, InstalledChanges DEF Registry!Install
  <2> QED
    BY <1>0, <1>1, <2>3 DEF Registry!Next
<1>7. ASSUME NEW n \in 0..1, PublishFails(n)
      PROVE  [Registry!Next]_Registry!promised
  <2>1. MovedAside(q) = Backups
    BY <1>0, <1>1 DEF MovedAside
  <2>2. CASE Backups = {}
    <3>1. live' = live /\ Registered(q) = VersionAt(q)
      BY <1>0, <1>7, <2>1, <2>2 DEF PublishFails, Registered
    <3> QED
      BY <1>0, <1>2, <1>4, <1>5, <3>1, StuttersIf DEF VersionAt
  <2>3. CASE Backups # {} /\ n = 0
    <3> DEFINE d == CHOOSE x \in Backups : TRUE
    <3>1. /\ live' = [live EXCEPT ![op.plugin] = d.content]
          /\ Registered(q) = d.content.version
      BY <1>0, <1>7, <2>1, <2>3 DEF PublishFails, Registered
    <3>2. d \in Backups
      BY <1>0, <2>3
    <3> HIDE DEF d
    <3>3. d.content # Absent /\ d.content \in Contents
      BY <1>0, <1>1, <3>2, BackupsTyped
    <3>4. VersionAt(q)' = d.content.version
      BY <1>0, <1>1, <3>1, <3>3 DEF VersionAt, TypeOK
    <3> QED
      BY <1>0, <1>2, <1>4, <1>5, <3>1, <3>4, StuttersIf
  <2>4. CASE Backups # {} /\ n = 1
    <3>1. live' = live
      BY <1>0, <1>7, <2>4 DEF PublishFails
    <3>2. Registered(q)' = Absent
      BY <1>0, <1>2, <1>4, <3>1 DEF VersionAt
    <3>3. op.plugin \in excused'
      <4>1. CASE Staging \in trans
        <5>1. Fails(2) /\ failed + 2 > 1
          BY <1>0, <1>1, <1>7, <2>4, <4>1, BoundsAssumption DEF PublishFails, TypeOK
        <5> QED
          BY <1>0, <1>1, <5>1, FailuresCounted
      <4>2. CASE Staging \notin trans
        <5>1. Fails(1) /\ op.plugin \in excused
          BY <1>0, <1>1, <1>7, <2>4, <4>2 DEF PublishFails, Inv, KeptSomewhere
        <5> QED
          BY <1>0, <1>1, <5>1, FailuresCounted
      <4> QED
        BY <1>0, <4>1, <4>2
    <3> QED
      BY <1>0, <1>1, <1>2, <1>5, <3>2, <3>3, LosesIf
  <2> QED
    BY <1>0, <2>2, <2>3, <2>4
<1> QED
  BY <1>0, <1>6, <1>7 DEF Publish

(* The removal is made when the policies are dropped, or undone, or the    *)
(* directory can neither go nor come back.                                 *)
LEMMA DropPoliciesImplements ==
  ASSUME Inv, Places, DropPolicies
  PROVE  [Registry!Next]_Registry!promised
<1>1. /\ TypeOK /\ Counted /\ op \in Ops /\ op # Idle /\ op.step = "drop"
      /\ op.plugin \in Plugins /\ op.content # Absent /\ live[op.plugin] = Absent
  BY StepPlugin DEF Inv, TypeOK, DropPolicies, Places
<1>0. PICK q \in Plugins : q = op.plugin
  BY <1>1
<1>2. op' = Idle \/ (op'.step = "empty" /\ op'.plugin = op.plugin)
  <2>1. op' = Idle \/ Continues("empty")
    BY <1>0 DEF DropPolicies, Ends
  <2> QED
    BY <1>0, <1>1, <2>1, NextStep DEF Steps
<1>3. Registered(q)' = VersionAt(q)'
  BY <1>0, <1>1, <1>2, RegisteredInPlace
<1>4. ASSUME NEW p \in Plugins, p # q
      PROVE  Registered(p)' = Registered(p)
  <2>1. live'[p] = live[p]
    BY <1>0, <1>1, <1>4 DEF DropPolicies, TypeOK
  <2> QED
    BY <1>0, <1>1, <1>2, <1>4, <2>1, ElsewhereRegistered
<1>5. CASE /\ policy' = [a \in Apps |-> [policy[a] EXCEPT ![op.plugin] = NoPolicy]]
           /\ UNCHANGED <<live, trans, held>>
  <2>1. Registered(q)' = Absent
    BY <1>0, <1>1, <1>3, <1>5 DEF VersionAt
  <2>2. Registry!Remove(op.plugin)
    BY <1>0, <1>1, <1>4, <1>5, <2>1, InstalledChanges DEF Registry!Remove, Registry!PoliciesWith
  <2> QED
    BY <1>0, <1>1, <2>2 DEF Registry!Next
<1>6. CASE /\ policy' = policy /\ Trash \in trans
           /\ live' = [live EXCEPT ![op.plugin] = op.content]
  <2>1. MovedAside(q) = {Trash}
    BY <1>0, <1>1, <1>6 DEF MovedAside
  <2>2. Registered(q) = Trash.content.version /\ Trash.content = op.content
    BY <2>1, RegisteredAside DEF Trash, Dir
  <2>3. VersionAt(q)' = op.content.version
    BY <1>0, <1>1, <1>6 DEF VersionAt, TypeOK
  <2> QED
    BY <1>0, <1>3, <1>4, <1>6, <2>2, <2>3, StuttersIf
<1>7. CASE policy' = policy /\ Fails(2) /\ live' = live
  <2>1. Registered(q)' = Absent
    BY <1>0, <1>1, <1>3, <1>7 DEF VersionAt
  <2>2. op.plugin \in excused'
    <3>1. failed + 2 > 1
      BY <1>0, <1>1, BoundsAssumption DEF TypeOK
    <3> QED
      BY <1>0, <1>1, <1>7, <3>1, FailuresCounted
  <2> QED
    BY <1>0, <1>1, <1>4, <1>7, <2>1, <2>2, LosesIf
<1> QED
  BY <1>0, <1>5, <1>6, <1>7 DEF DropPolicies

LEMMA CleanImplements ==
  ASSUME Inv, CleanUp \/ EmptyTrash
  PROVE  [Registry!Next]_Registry!promised
<1>1. /\ op.step \in {"cleanup", "empty"} /\ op' = Idle /\ live' = live /\ policy' = policy
  BY DEF CleanUp, EmptyTrash, Ends
<1> QED
  BY <1>1, RegisteredInPlace, StuttersIf DEF VersionAt

(* A process that sweeps in the middle of an operation loses the plugin if *)
(* its directory has been moved aside.                                     *)
LEMMA SweepImplements ==
  ASSUME Inv, Places, Restart \/ SecondCore
  PROVE  [Registry!Next]_Registry!promised
<1>1. /\ TypeOK /\ live' = live /\ policy' = policy /\ trans' = {} /\ Disturbs
      /\ op' = Idle \/ (op # Idle /\ op' = op)
  BY DEF Inv, Restart, SecondCore, Sweep, Ends
<1>2. ASSUME NEW p \in Plugins
      PROVE  Registered(p)' = VersionAt(p)
  <2>1. MovedAside(p)' = {}
    BY <1>1 DEF MovedAside, Backups
  <2> QED
    BY <1>1, <2>1 DEF Registered, VersionAt
<1>3. CASE \A p \in Plugins : Registered(p) = VersionAt(p)
  BY <1>1, <1>2, <1>3, StuttersIf
<1>4. CASE \E p \in Plugins : Registered(p) # VersionAt(p)
  <2>1. op # Idle /\ op.step \in {"publish", "drop"}
    BY <1>4, RegisteredInPlace
  <2>2. PICK q \in Plugins : q = op.plugin /\ q \in excused'
    BY <1>1, <2>1, StepPlugin, DisturbanceCounted
  <2>3. Registered(q)' = Absent
    BY <1>1, <1>2, <2>1, <2>2 DEF Places, VersionAt
  <2>4. \A p \in Plugins : p # q => Registered(p)' = Registered(p)
    BY <1>1, <1>2, <2>2, RegisteredInPlace DEF VersionAt
  <2> QED
    BY <1>1, <2>2, <2>3, <2>4, LosesIf
<1> QED
  BY <1>3, <1>4

LEMMA NextImplementsRegistry ==
  ASSUME Inv, Places, [Next]_vars
  PROVE  [Registry!Next]_Registry!promised
<1>1. CASE UNCHANGED vars
  <2>1. UNCHANGED <<live, trans, policy, op, ops>>
    BY <1>1 DEF vars
  <2>2. \A p \in Plugins : MovedAside(p)' = MovedAside(p) /\ VersionAt(p)' = VersionAt(p)
    BY <2>1 DEF MovedAside, Backups, Trash, Dir, VersionAt
  <2>3. \A p \in Plugins : Registered(p)' = Registered(p)
    <3> SUFFICES ASSUME NEW p \in Plugins PROVE Registered(p)' = Registered(p)
      OBVIOUS
    <3>1. (CHOOSE d \in MovedAside(p) : TRUE)' = CHOOSE d \in MovedAside(p) : TRUE
      BY <2>2
    <3>2. (MovedAside(p) = {})' = (MovedAside(p) = {})
      BY <2>2
    <3> QED
      BY <2>2, <3>1, <3>2 DEF Registered
  <2> QED
    BY <2>1, <2>3, StuttersIf
<1>2. ASSUME NEW a \in Apps, NEW p \in Plugins, SetPolicy(a, p)
      PROVE  [Registry!Next]_Registry!promised
  BY <1>2, SetPolicyImplements
<1>3. CASE \/ \E p \in Plugins, v \in Versions : Extract(p, v)
           \/ \E p \in Plugins : StageRemoval(p)
  BY <1>3, BeginImplements
<1>4. CASE Read
  BY <1>4, IdleStepImplements DEF Read, VersionAt
<1>5. ASSUME NEW p \in Plugins, Damage(p) \/ Repair(p)
      PROVE  [Registry!Next]_Registry!promised
  <2>1. /\ TypeOK /\ op = Idle /\ op' = Idle /\ policy' = policy /\ live[p] \in Contents
        /\ \E ok \in BOOLEAN : live' = [live EXCEPT ![p].loads = ok]
    BY <1>5 DEF Inv, TypeOK, Damage, Repair
  <2>2. \A q \in Plugins : VersionAt(q)' = VersionAt(q)
    <3>1. live'[p] \in Contents /\ live'[p].version = live[p].version
      BY <2>1 DEF TypeOK, Contents
    <3>2. \A q \in Plugins : q # p => live'[q] = live[q]
      BY <2>1 DEF TypeOK
    <3> QED
      BY <2>1, <3>1, <3>2, ValuesAssumption DEF VersionAt
  <2> QED
    BY <2>1, <2>2, IdleStepImplements
<1>6. CASE ResetPolicies
  BY <1>6, ResetPoliciesImplements
<1>7. CASE BackUp
  BY <1>7, BackUpImplements
<1>8. CASE Publish
  BY <1>8, PublishImplements
<1>9. CASE CleanUp \/ EmptyTrash
  BY <1>9, CleanImplements
<1>10. CASE DropPolicies
  BY <1>10, DropPoliciesImplements
<1>11. CASE Restart \/ SecondCore
  BY <1>11, SweepImplements
<1> QED
  BY <1>1, <1>2, <1>3, <1>4, <1>5, <1>6, <1>7, <1>8, <1>9, <1>10, <1>11 DEF Next

(* Whatever fails, dies or sweeps between the renames of daemon.rs, the    *)
(* store implements PluginRegistry (docs/PLAN.md:17): a plugin is replaced *)
(* or removed in one step, none is lost but in an operation in which more  *)
(* than one thing went wrong, and grants go before another version comes.  *)
THEOREM StoreKeepsTheRegistry == Spec => ImplementsRegistry
<1>1. Init => Registry!Init
  <2> SUFFICES ASSUME Init PROVE Registry!Init
    OBVIOUS
  <2>1. \A p \in Plugins : Registered(p) = Absent
    BY RegisteredInPlace DEF Init, VersionAt
  <2> QED
    BY <2>1 DEF Init, Registry!Init
<1>2. Spec => []Places
  <2>1. Inv /\ Places /\ [Next]_vars => Places'
    BY NextKeepsPlaces
  <2> QED
    BY <2>1, InitHasPlaces, Invariance, PTL DEF Spec
<1>3. Inv /\ Places /\ [Next]_vars => [Registry!Next]_Registry!promised
  BY NextImplementsRegistry
<1>4. Spec => Registry!Spec
  BY Invariance, <1>1, <1>2, <1>3, PTL DEF Spec, Registry!Spec
<1> QED
  BY <1>4 DEF ImplementsRegistry

-----------------------------------------------------------------------------
(* The package format: what extraction writes.                             *)

WrittenStep(a, f, n) == IF n = 0 THEN << >> ELSE Write(f[n - 1], a[n])

(* The tree after each entry: the recursion of Written, unfolded.          *)
TreesOf(f, a) ==
    /\ f[0] = << >>
    /\ \A n \in Nat : n + 1 <= Len(a) => f[n + 1] = Write(f[n], a[n + 1])
    /\ Written(a) = f[Len(a)]

LEMMA WrittenDefined ==
  ASSUME NEW a, Len(a) \in Nat
  PROVE  \E f : TreesOf(f, a)
<1> DEFINE Defined == {n \in Nat : \E f : f = [i \in 0..n |-> WrittenStep(a, f, i)]}
<1>1. 0 \in Defined
  <2>1. [i \in 0..0 |-> << >>] = [i \in 0..0 |-> WrittenStep(a, [k \in 0..0 |-> << >>], i)]
    BY DEF WrittenStep
  <2> QED
    BY <2>1
<1>2. ASSUME NEW n \in Nat, n \in Defined
      PROVE  n + 1 \in Defined
  <2>1. PICK f : f = [i \in 0..n |-> WrittenStep(a, f, i)]
    BY <1>2
  <2> DEFINE g == [i \in 0..n + 1 |-> IF i = n + 1 THEN WrittenStep(a, f, i) ELSE f[i]]
  <2>2. \A i \in 0..n + 1 : g[i] = WrittenStep(a, g, i)
    <3> SUFFICES ASSUME NEW i \in 0..n + 1 PROVE g[i] = WrittenStep(a, g, i)
      OBVIOUS
    <3>1. i # 0 => g[i - 1] = f[i - 1]
      OBVIOUS
    <3>2. g[i] = WrittenStep(a, f, i)
      BY <2>1
    <3> QED
      BY <3>1, <3>2 DEF WrittenStep
  <2>3. g = [i \in 0..n + 1 |-> WrittenStep(a, g, i)]
    BY <2>2
  <2> HIDE DEF g
  <2>4. \E h : h = [i \in 0..n + 1 |-> WrittenStep(a, h, i)]
    BY <2>3
  <2> QED
    BY <2>4
<1> HIDE DEF Defined
<1>3. Len(a) \in Defined
  BY <1>1, <1>2, NatSetInduction
<1>4. PICK f : f = [i \in 0..Len(a) |-> WrittenStep(a, f, i)]
  BY <1>3 DEF Defined
<1> DEFINE written == CHOOSE g : g = [i \in 0..Len(a) |-> WrittenStep(a, g, i)]
<1>5. written = [i \in 0..Len(a) |-> WrittenStep(a, written, i)]
  BY <1>4
<1>6. Written(a) = written[Len(a)]
  BY DEF Written, WrittenStep
<1> HIDE DEF written
<1>7. written[0] = << >>
  BY <1>5 DEF WrittenStep
<1>8. \A n \in Nat : n + 1 <= Len(a) => written[n + 1] = Write(written[n], a[n + 1])
  <2> SUFFICES ASSUME NEW n \in Nat, n + 1 <= Len(a)
               PROVE  written[n + 1] = Write(written[n], a[n + 1])
    OBVIOUS
  <2>1. n + 1 \in 0..Len(a) /\ n + 1 # 0 /\ (n + 1) - 1 = n
    OBVIOUS
  <2>2. written[n + 1] = WrittenStep(a, written, n + 1)
    BY <1>5, <2>1
  <2> QED
    BY <2>1, <2>2 DEF WrittenStep
<1> QED
  BY <1>6, <1>7, <1>8 DEF TreesOf

(* A path is none of the directories above it.                             *)
LEMMA NotItsParent ==
  ASSUME NEW path \in Seq(STRING)
  PROVE  Folded(path) \notin Parents(Folded(path))
<1> DEFINE folded == Folded(path)
           Lowered == {Lower(s) : s \in STRING}
<1>1. folded \in Seq(Lowered) /\ Len(folded) = Len(path)
  BY DEF Folded
<1> HIDE DEF folded, Lowered
<1>2. \A n \in 1..(Len(folded) - 1) : Len(SubSeq(folded, 1, n)) = n /\ n # Len(folded)
  BY <1>1, SubSeqProperties
<1> QED
  BY <1>2 DEF Parents, folded

(* One entry: nothing that was written before is written over, unless      *)
(* under the entry's own name.                                             *)
LEMMA WriteKeeps ==
  ASSUME NEW tree, NEW e \in ArchiveEntries, Write(tree, e) # Broken
  PROVE  /\ tree # Broken
         /\ \A q \in DOMAIN tree : q # Folded(e.name.path) =>
               q \in DOMAIN Write(tree, e) /\ Write(tree, e)[q] = tree[q]
         /\ ~e.name.dir => /\ Folded(e.name.path) \in DOMAIN Write(tree, e)
                           /\ Write(tree, e)[Folded(e.name.path)] = e.body
<1> DEFINE path == Folded(e.name.path)
           above == Parents(path) \cup (IF e.name.dir THEN {path} ELSE {})
           new == [p \in DOMAIN tree \cup above \cup {path} |->
                      IF p \in above THEN Directory ELSE IF p = path THEN e.body ELSE tree[p]]
<1>1. /\ tree # Broken /\ Write(tree, e) = new
      /\ \A p \in above : p \in DOMAIN tree => tree[p] = Directory
  BY DEF Write
<1>2. path \notin Parents(path)
  BY NotItsParent DEF ArchiveEntries
<1>3. ASSUME NEW q \in DOMAIN tree, q # path
      PROVE  q \in DOMAIN new /\ new[q] = tree[q]
  BY <1>1, <1>3
<1>4. ASSUME ~e.name.dir
      PROVE  path \in DOMAIN new /\ new[path] = e.body
  BY <1>2, <1>4
<1> HIDE DEF new, path, above
<1>5. \A q \in DOMAIN tree : q # path => q \in DOMAIN new /\ new[q] = tree[q]
  BY <1>3
<1> QED
  BY <1>1, <1>4, <1>5 DEF path

(* What an archive extracts to has every file as the archive has it, but   *)
(* for those that share a file on the disk.                                *)
LEMMA TreeHoldsFiles ==
  ASSUME NEW a \in Seq(ArchiveEntries), ~Collides(a), Written(a) # Broken
  PROVE  \A i \in DOMAIN a : ~a[i].name.dir =>
             SharesFile(a, i) \/ At(Written(a), a[i].name.path) = a[i].body
<1>0. Len(a) \in Nat /\ DOMAIN a = 1..Len(a) /\ \A i \in 1..Len(a) : a[i] \in ArchiveEntries
  OBVIOUS
<1>1. PICK f : TreesOf(f, a)
  BY <1>0, WrittenDefined
<1> DEFINE path(i) == Folded(a[i].name.path)
           Good == {n \in Nat : n <= Len(a) /\ f[n] # Broken =>
                      \A i \in 1..n : ~a[i].name.dir /\ ~SharesFile(a, i) =>
                         path(i) \in DOMAIN f[n] /\ f[n][path(i)] = a[i].body}
<1>2. 0 \in Good
  OBVIOUS
<1>3. ASSUME NEW n \in Nat, n \in Good
      PROVE  n + 1 \in Good
  <2> SUFFICES ASSUME n + 1 <= Len(a), f[n + 1] # Broken,
                      NEW i \in 1..(n + 1), ~a[i].name.dir, ~SharesFile(a, i)
               PROVE  path(i) \in DOMAIN f[n + 1] /\ f[n + 1][path(i)] = a[i].body
    OBVIOUS
  <2>1. f[n + 1] = Write(f[n], a[n + 1]) /\ n + 1 \in 1..Len(a) /\ n <= Len(a)
    BY <1>0, <1>1 DEF TreesOf
  <2>2. a[n + 1] \in ArchiveEntries
    BY <1>0, <2>1
  <2>3. CASE i = n + 1
    BY <2>1, <2>2, <2>3, WriteKeeps
  <2>4. CASE i \in 1..n
    <3>1. path(i) # path(n + 1)
      BY <1>0, <2>1, <2>4 DEF Collides, SharesFile
    <3>2. f[n] # Broken
      BY <2>1, <2>2, WriteKeeps
    <3>3. path(i) \in DOMAIN f[n] /\ f[n][path(i)] = a[i].body
      BY <1>3, <2>1, <2>4, <3>2
    <3> QED
      BY <2>1, <2>2, <3>1, <3>3, WriteKeeps
  <2> QED
    BY <2>3, <2>4
<1> HIDE DEF Good
<1>4. Len(a) \in Good
  BY <1>0, <1>2, <1>3, NatSetInduction
<1> QED
  BY <1>0, <1>1, <1>4 DEF Good, TreesOf, At

(* Where a file was written, a file is: this one, or one that shares it.   *)
LEMMA WriteLeavesBodies ==
  ASSUME NEW tree, NEW e \in ArchiveEntries, Write(tree, e) # Broken,
         NEW q \in DOMAIN tree, tree[q] \in Bodies
  PROVE  q \in DOMAIN Write(tree, e) /\ Write(tree, e)[q] \in Bodies
<1> DEFINE path == Folded(e.name.path)
           above == Parents(path) \cup (IF e.name.dir THEN {path} ELSE {})
           new == [p \in DOMAIN tree \cup above \cup {path} |->
                      IF p \in above THEN Directory ELSE IF p = path THEN e.body ELSE tree[p]]
<1>1. Write(tree, e) = new /\ (q \in above => tree[q] = Directory)
  BY DEF Write
<1>2. e.body \in Bodies
  BY DEF ArchiveEntries
<1>3. q \in DOMAIN new /\ new[q] \in Bodies
  <2> HIDE DEF path, above
  <2> QED
    BY <1>1, <1>2
<1> QED
  BY <1>1, <1>3

LEMMA TreeHasEveryFile ==
  ASSUME NEW a \in Seq(ArchiveEntries), Written(a) # Broken
  PROVE  \A i \in DOMAIN a : ~a[i].name.dir => At(Written(a), a[i].name.path) \in Bodies
<1>0. Len(a) \in Nat /\ DOMAIN a = 1..Len(a) /\ \A i \in 1..Len(a) : a[i] \in ArchiveEntries
  OBVIOUS
<1>1. PICK f : TreesOf(f, a)
  BY <1>0, WrittenDefined
<1> DEFINE path(i) == Folded(a[i].name.path)
           Good == {n \in Nat : n <= Len(a) /\ f[n] # Broken =>
                      \A i \in 1..n : ~a[i].name.dir =>
                         path(i) \in DOMAIN f[n] /\ f[n][path(i)] \in Bodies}
<1>2. 0 \in Good
  OBVIOUS
<1>3. ASSUME NEW n \in Nat, n \in Good
      PROVE  n + 1 \in Good
  <2> SUFFICES ASSUME n + 1 <= Len(a), f[n + 1] # Broken,
                      NEW i \in 1..(n + 1), ~a[i].name.dir
               PROVE  path(i) \in DOMAIN f[n + 1] /\ f[n + 1][path(i)] \in Bodies
    OBVIOUS
  <2>1. f[n + 1] = Write(f[n], a[n + 1]) /\ n + 1 \in 1..Len(a) /\ n <= Len(a)
    BY <1>0, <1>1 DEF TreesOf
  <2>2. a[n + 1] \in ArchiveEntries
    BY <1>0, <2>1
  <2>3. CASE i = n + 1
    <3>1. a[n + 1].body \in Bodies
      BY <2>2 DEF ArchiveEntries
    <3> QED
      BY <2>1, <2>2, <2>3, <3>1, WriteKeeps
  <2>4. CASE i \in 1..n
    <3>1. f[n] # Broken
      BY <2>1, <2>2, WriteKeeps
    <3>2. path(i) \in DOMAIN f[n] /\ f[n][path(i)] \in Bodies
      BY <1>3, <2>1, <2>4, <3>1
    <3> QED
      BY <2>1, <2>2, <3>2, WriteLeavesBodies
  <2> QED
    BY <2>3, <2>4
<1> HIDE DEF Good
<1>4. Len(a) \in Good
  BY <1>0, <1>2, <1>3, NatSetInduction
<1> QED
  BY <1>0, <1>1, <1>4 DEF Good, TreesOf, At

(* The manifest that was checked is the one that is there.                 *)
LEMMA OneManifest ==
  ASSUME NEW a \in Seq(ArchiveEntries), NEW host, Acceptable(a, host)
  PROVE  \E i \in DOMAIN a : /\ ManifestEntry(a) = a[i] /\ ~a[i].name.dir
                             /\ a[i].name.path = <<"manifest.json">>
<1>1. PICK i \in ManifestAt(a) : TRUE
  BY DEF Acceptable, ManifestOk
<1>2. DOMAIN a \subseteq Nat /\ ManifestAt(a) \subseteq DOMAIN a
  BY DEF ManifestAt
<1>3. \A j \in ManifestAt(a) : j = i
  BY DEF Acceptable, Collides, Key, ManifestAt
<1>4. i <= i
  BY <1>2
<1>5. (CHOOSE k \in ManifestAt(a) : \A j \in ManifestAt(a) : k <= j) = i
  BY <1>3, <1>4
<1> QED
  BY <1>2, <1>5 DEF ManifestEntry, ManifestAt

LEMMA ManifestHeld ==
  ASSUME NEW a \in Seq(ArchiveEntries), NEW host, Acceptable(a, host), Written(a) # Broken,
         \A i \in ManifestAt(a) : ~SharesFile(a, i)
  PROVE  At(Written(a), <<"manifest.json">>) = ManifestEntry(a).body
<1>1. PICK i \in DOMAIN a : /\ ManifestEntry(a) = a[i] /\ ~a[i].name.dir
                            /\ a[i].name.path = <<"manifest.json">>
  BY OneManifest
<1>2. ~Collides(a) /\ ~SharesFile(a, i)
  BY <1>1 DEF Acceptable, ManifestAt
<1> QED
  BY <1>1, <1>2, TreeHoldsFiles

-----------------------------------------------------------------------------
(* What a tree is loaded as.                                               *)

EntryKey(m, k) == IF Given(m.entry) THEN m.entry[k] ELSE Missing
CssPath(m) == IF m.css = Missing THEN EntryKey(m, "css") ELSE Missing
Loadable(tree, host) ==
    LET body == At(tree, <<"manifest.json">>)
        m == body.json
    IN /\ IsManifest(body) /\ SchemaOk(m, host) /\ m.css # Null
       /\ \A p \in {CssPath(m), EntryKey(m, "renderer"), EntryKey(m, "main")} : Readable(tree, p)

LEMMA LoadedIs ==
  ASSUME NEW tree, NEW host
  PROVE  LET m == At(tree, <<"manifest.json">>).json
             p == Load(tree, host)
         IN /\ p.ok \in BOOLEAN
            /\ p.ok <=> Loadable(tree, host)
            /\ p.ok => /\ p.manifest = m /\ p.permissions = m.permissions
                       /\ p.css = IF Given(m.css) THEN m.css ELSE Payload(tree, CssPath(m))
                       /\ p.renderer = Payload(tree, EntryKey(m, "renderer"))
                       /\ p.domains = IF Given(m.network)
                                      THEN [i \in DOMAIN m.network.domains |-> Stored(m.network.domains[i])]
                                      ELSE << >>
<1>1. CASE Loadable(tree, host)
  BY <1>1 DEF Loadable, Load, EntryKey, CssPath
<1>2. CASE ~Loadable(tree, host)
  BY <1>2 DEF Loadable, Load, EntryKey, CssPath, Rejected
<1> QED
  BY <1>1, <1>2

(* A stored domain still tells apart what the duplicate check told apart.  *)
LEMMA StoredStayDistinct ==
  ASSUME NEW domains, Distinct([i \in DOMAIN domains |-> Normalized(domains[i])])
  PROVE  Distinct([i \in DOMAIN domains |-> Stored(domains[i])])
<1>1. \A d, e : Stored(d) = Stored(e) => Normalized(d) = Normalized(e)
  <2> SUFFICES ASSUME NEW d, NEW e, Stored(d) = Stored(e)
               PROVE  Normalized(d) = Normalized(e)
    OBVIOUS
  <2>1. Normalized(d) = [Stored(d) EXCEPT !.padded = FALSE]
    BY DEF Normalized, Stored
  <2>2. Normalized(e) = [Stored(e) EXCEPT !.padded = FALSE]
    BY DEF Normalized, Stored
  <2> QED
    BY <2>1, <2>2
<1> QED
  BY <1>1 DEF Distinct, IsInjective

LEMMA PermissionsNeeded ==
  ASSUME NEW m, NEW host, SchemaOk(m, host)
  PROVE  /\ Given(m.css) \/ Given(EntryKey(m, "css")) => "renderer.css" \in ToSet(m.permissions)
         /\ Given(EntryKey(m, "renderer")) => "renderer.script" \in ToSet(m.permissions)
         /\ NetworkOk(m.network)
BY DEF SchemaOk, EntryKey

LEMMA LoadedIsCoherent ==
  ASSUME NEW tree, NEW host, Load(tree, host).ok
  PROVE  LET p == Load(tree, host)
         IN /\ p.css # Missing => "renderer.css" \in ToSet(p.permissions)
            /\ p.renderer # Missing => "renderer.script" \in ToSet(p.permissions)
            /\ Distinct(p.domains)
<1> DEFINE m == At(tree, <<"manifest.json">>).json
           p == Load(tree, host)
<1>1. /\ Loadable(tree, host) /\ p.permissions = m.permissions
      /\ p.css = IF Given(m.css) THEN m.css ELSE Payload(tree, CssPath(m))
      /\ p.renderer = Payload(tree, EntryKey(m, "renderer"))
      /\ p.domains = IF Given(m.network)
                     THEN [i \in DOMAIN m.network.domains |-> Stored(m.network.domains[i])]
                     ELSE << >>
  BY LoadedIs
<1>2. SchemaOk(m, host) /\ m.css # Null
  BY <1>1 DEF Loadable
<1>3. /\ Readable(tree, CssPath(m)) /\ Readable(tree, EntryKey(m, "renderer"))
  BY <1>1 DEF Loadable
<1> HIDE DEF m, p
<1>4. p.css # Missing => "renderer.css" \in ToSet(p.permissions)
  <2> SUFFICES ASSUME p.css # Missing PROVE "renderer.css" \in ToSet(m.permissions)
    BY <1>1
  <2>1. Given(m.css) \/ CssPath(m) # Missing
    BY <1>1 DEF Payload
  <2>2. ~Given(m.css) => m.css = Missing /\ CssPath(m) = EntryKey(m, "css")
    BY <1>2 DEF Given, CssPath
  <2>3. CssPath(m) # Missing => Given(CssPath(m))
    BY <1>3 DEF Readable, Given
  <2> QED
    BY <1>2, <2>1, <2>2, <2>3, PermissionsNeeded
<1>5. p.renderer # Missing => "renderer.script" \in ToSet(p.permissions)
  <2>1. p.renderer # Missing => Given(EntryKey(m, "renderer"))
    BY <1>1, <1>3 DEF Payload, Readable, Given
  <2> QED
    BY <1>1, <1>2, <2>1, PermissionsNeeded
<1>6. Distinct(p.domains)
  <2>1. CASE Given(m.network)
    <3>1. Distinct([i \in DOMAIN m.network.domains |-> Normalized(m.network.domains[i])])
      BY <1>2, <2>1, PermissionsNeeded DEF NetworkOk
    <3> QED
      BY <1>1, <2>1, <3>1, StoredStayDistinct
  <2>2. CASE ~Given(m.network)
    BY <1>1, <2>2 DEF Distinct, IsInjective
  <2> QED
    BY <2>1, <2>2
<1> QED
  BY <1>4, <1>5, <1>6 DEF p

(* Extraction succeeds for what passes the checks, can be written and loads. *)
LEMMA ExtractedIs ==
  ASSUME NEW a, NEW host
  PROVE  /\ ExtractFor(a, host).ok \in BOOLEAN
         /\ Acceptable(a, host) /\ Written(a) # Broken =>
               ExtractFor(a, host) = Load(Written(a), host)
         /\ ExtractFor(a, host).ok =>
               /\ Acceptable(a, host) /\ Written(a) # Broken
               /\ ExtractFor(a, host) = Load(Written(a), host)
BY LoadedIs DEF ExtractFor, Rejected

(* A path with nothing to drop is looked up as it is.                      *)
LEMMA KeptWhole ==
  ASSUME NEW T, NEW seq \in Seq(T), NEW S, \A i \in 1..Len(seq) : seq[i] \in S
  PROVE  Kept(seq, S) = seq
<1>0. Len(seq) \in Nat
  OBVIOUS
<1>1. PICK f : /\ f[0] = << >>
               /\ \A n \in Nat : n + 1 <= Len(seq) =>
                    f[n + 1] = IF seq[n + 1] \in S THEN Append(f[n], seq[n + 1]) ELSE f[n]
               /\ Kept(seq, S) = f[Len(seq)]
  BY <1>0, KeptDefined
<1> DEFINE Good == {n \in Nat : n <= Len(seq) =>
                      /\ f[n] \in Seq(T) /\ Len(f[n]) = n
                      /\ \A i \in 1..n : f[n][i] = seq[i]}
<1>2. 0 \in Good
  <2>1. f[0] \in Seq(T) /\ Len(f[0]) = 0
    BY <1>1, EmptySeq
  <2> QED
    BY <2>1
<1>3. ASSUME NEW n \in Nat, n \in Good
      PROVE  n + 1 \in Good
  <2> SUFFICES ASSUME n + 1 <= Len(seq)
               PROVE  /\ f[n + 1] \in Seq(T) /\ Len(f[n + 1]) = n + 1
                      /\ \A i \in 1..(n + 1) : f[n + 1][i] = seq[i]
    OBVIOUS
  <2>0. n + 1 \in 1..Len(seq)
    BY <1>0
  <2>1. f[n + 1] = Append(f[n], seq[n + 1]) /\ seq[n + 1] \in T
    <3>1. seq[n + 1] \in S /\ seq[n + 1] \in T
      BY <2>0
    <3>2. f[n + 1] = IF seq[n + 1] \in S THEN Append(f[n], seq[n + 1]) ELSE f[n]
      BY <1>1
    <3> QED
      BY <3>1, <3>2
  <2>2. /\ f[n] \in Seq(T) /\ Len(f[n]) = n
        /\ \A i \in 1..n : f[n][i] = seq[i]
    BY <1>0, <1>3
  <2> QED
    BY <2>1, <2>2, AppendProperties
<1> HIDE DEF Good
<1>4. Len(seq) \in Good
  BY <1>0, <1>2, <1>3, NatSetInduction
<1>5. /\ f[Len(seq)] \in Seq(T) /\ Len(f[Len(seq)]) = Len(seq)
      /\ \A i \in 1..Len(seq) : f[Len(seq)][i] = seq[i]
  BY <1>0, <1>4 DEF Good
<1> QED
  BY <1>1, <1>5

(* What inspect accepts extracts, unless there is something it cannot see. *)
LEMMA AcceptedExtracts ==
  ASSUME NEW a \in Seq(ArchiveEntries), NEW host, InspectAccepts(a, host), ~Unseen(a)
  PROVE  ExtractFor(a, host).ok
<1> DEFINE tree == Written(a)
           m == ManifestEntry(a).body.json
<1>1. /\ Acceptable(a, host) /\ EntriesPresent(a) /\ tree # Broken /\ m.css # Null
      /\ \A i \in ManifestAt(a) : ~SharesFile(a, i)
  BY DEF InspectAccepts, Unseen
<1>2. At(tree, <<"manifest.json">>) = ManifestEntry(a).body
  BY <1>1, ManifestHeld
<1>3. IsManifest(ManifestEntry(a).body) /\ SchemaOk(m, host)
  BY <1>1 DEF Acceptable, ManifestOk
<1>4. \A p \in EntryPaths(m) : IsText(At(tree, Components(p)))
  <2> SUFFICES ASSUME NEW p \in EntryPaths(m)
               PROVE  IsText(At(tree, Components(p)))
    OBVIOUS
  <2>1. PICK i \in DOMAIN a : a[i].name = [path |-> p, dir |-> FALSE]
    BY <1>1 DEF EntriesPresent
  <2>2. /\ p = a[i].name.path /\ ~a[i].name.dir
        /\ p \in Seq(STRING) /\ a[i].body \in Bodies
    <3>1. a[i] \in ArchiveEntries
      OBVIOUS
    <3>2. a[i].name \in [path : Seq(STRING), dir : BOOLEAN] /\ a[i].body \in Bodies
      BY <3>1 DEF ArchiveEntries
    <3> QED
      BY <2>1, <3>2
  <2>3. NameOk(a[i].name)
    BY <1>1 DEF Acceptable
  <2>4. \A k \in 1..Len(p) : p[k] \in ToSet(p) \ {".", ""}
    <3>1. ToSet(p) = {p[k] : k \in 1..Len(p)}
      BY <2>2 DEF ToSet
    <3>2. "" \notin ToSet(p) /\ "." \notin ToSet(p)
      BY <2>2, <2>3, FormatAssumption DEF NameOk
    <3> QED
      BY <3>1, <3>2
  <2>5. Components(p) = p
    BY <2>2, <2>4, KeptWhole DEF Components
  <2>6. At(tree, p) \in Bodies
    BY <1>1, <2>2, TreeHasEveryFile
  <2>7. At(tree, Components(p)) # Missing
    BY <2>2, <2>5, <2>6, FormatAssumption
  <2> QED
    BY <2>7 DEF Unseen
<1>5. \A p \in {CssPath(m), EntryKey(m, "renderer"), EntryKey(m, "main")} : Readable(tree, p)
  <2>1. ~(Given(m.entry) /\ Null \in {m.entry.css, m.entry.renderer, m.entry.main})
    BY DEF Unseen
  <2> HIDE DEF m, tree
  <2>2. \A k \in {"css", "renderer", "main"} :
          EntryKey(m, k) = Missing \/ (EntryKey(m, k) # Null /\ EntryKey(m, k) \in EntryPaths(m))
    BY <2>1 DEF EntryKey, EntryPaths, Given
  <2>3. \A k \in {"css", "renderer", "main"} : Readable(tree, EntryKey(m, k))
    BY <1>4, <2>2 DEF Readable
  <2>4. Readable(tree, CssPath(m))
    BY <2>3 DEF CssPath, Readable
  <2> QED
    BY <2>3, <2>4
<1>6. Loadable(tree, host)
  BY <1>1, <1>2, <1>3, <1>5 DEF Loadable
<1> HIDE DEF tree
<1>7. Load(tree, host).ok
  BY <1>6, LoadedIs
<1> QED
  BY <1>1, <1>7, ExtractedIs DEF tree

-----------------------------------------------------------------------------
(* The invariant: between the round trip and the rename the temporary file *)
(* is what the round trip has read, and an examination is of an archive.   *)

JobOK ==
    job # NoJob =>
        /\ job = [step |-> job.step, host |-> job.host, id |-> job.id, todo |-> job.todo]
        /\ job.step \in {"write", "publish"} /\ job.host \in Hosts

Installs(a, host, id) == ExtractFor(a, host).ok /\ ExtractFor(a, host).id = id

ReadyInstalls == job.step = "publish" => Installs(temp, job.host, job.id)

OutputOK == output # Missing => output.archive \in Seq(ArchiveEntries)

Examination(l) ==
    /\ l.archive \in Seq(ArchiveEntries)
    /\ l.inspected = InspectAccepts(l.archive, l.host)
    /\ l.plugin = ExtractFor(l.archive, l.host)
LastOK == last = Forget \/ Examination(last)

PackageInv ==
    /\ PackageTypeOK /\ JobOK /\ OutputOK
    /\ ReadyInstalls /\ PublishedInstalls
    /\ LastOK

LEMMA LastTypes ==
  ASSUME NEW l, l = Forget \/ Examination(l)
  PROVE  l.inspected \in BOOLEAN /\ l.plugin.ok \in BOOLEAN
<1>1. CASE l = Forget
  BY <1>1 DEF Forget, Rejected
<1>2. CASE Examination(l)
  <2>1. InspectAccepts(l.archive, l.host) \in BOOLEAN
    BY DEF InspectAccepts
  <2> QED
    BY <1>2, <2>1, ExtractedIs DEF Examination
<1> QED
  BY <1>1, <1>2

LEMMA PackageInitHasInv == PackageInit => PackageInv
<1> SUFFICES ASSUME PackageInit PROVE PackageInv
  OBVIOUS
<1>1. /\ source \in Sources /\ job = NoJob /\ temp = << >> /\ output = Missing /\ exit = -1
      /\ last = Forget /\ edits = 0 /\ packs = 0
  BY DEF PackageInit, NoArchive
<1>2. << >> \in Seq(ArchiveEntries)
  BY EmptySeq
<1>3. last.inspected \in BOOLEAN /\ last.plugin.ok \in BOOLEAN
  BY <1>1, LastTypes
<1>4. job.step = "idle"
  BY <1>1 DEF NoJob
<1> QED
  BY <1>1, <1>2, <1>3, <1>4, FormatAssumption
     DEF PackageInv, PackageTypeOK, JobOK, OutputOK, ReadyInstalls, PublishedInstalls, LastOK, NoArchive

(* A command works for a host version that exists.                         *)
LEMMA MeantHost ==
  ASSUME NEW line, Meaning(line) \in {"pack", "inspect"}
  PROVE  (IF line.host = Missing THEN CoreHost ELSE line.host) \in Hosts
<1>1. Meaning(line) = Parsed(line)
  BY DEF Meaning
<1>2. Parsed(line) \in {"pack", "inspect"} => line.host \in Hosts \cup {Missing}
  BY DEF Parsed
<1> QED
  BY <1>1, <1>2, FormatAssumption

(* An archive that is examined.                                            *)
LEMMA InspectKeeps ==
  ASSUME PackageInv, NEW host, NEW a \in Examined, Inspect(a, host)
  PROVE  PackageInv'
<1>1. a \in Seq(ArchiveEntries)
  BY FormatAssumption DEF PackageInv, OutputOK, Examined
<1>2. /\ last' = [archive |-> a, host |-> host,
                  inspected |-> InspectAccepts(a, host), plugin |-> ExtractFor(a, host)]
      /\ exit' \in {0, 1}
      /\ UNCHANGED <<source, job, temp, output, edits, packs>>
  BY DEF Inspect, Examine
<1>3. Examination(last')
  BY <1>1, <1>2 DEF Examination
<1>4. last'.inspected \in BOOLEAN /\ last'.plugin.ok \in BOOLEAN
  BY <1>3, LastTypes
<1>5. PackageTypeOK'
  BY <1>2, <1>4 DEF PackageInv, PackageTypeOK
<1>6. (JobOK /\ OutputOK /\ ReadyInstalls /\ PublishedInstalls)'
  BY <1>2 DEF PackageInv, JobOK, OutputOK, ReadyInstalls, PublishedInstalls
<1>7. LastOK'
  BY <1>3 DEF LastOK, Examination
<1> QED
  BY <1>5, <1>6, <1>7 DEF PackageInv

(* Nothing but the exit code, and perhaps the memory of the last archive.  *)
LEMMA OtherwiseUnchanged ==
  ASSUME PackageInv, exit' \in -1..2, last' \in {last, Forget},
         UNCHANGED <<source, job, temp, output, edits, packs>>
  PROVE  PackageInv'
<1>1. LastOK'
  <2>1. last' = Forget \/ Examination(last')
    BY DEF PackageInv, LastOK
  <2> QED
    BY <2>1 DEF LastOK, Examination, Forget
<1>2. last'.inspected \in BOOLEAN /\ last'.plugin.ok \in BOOLEAN
  BY <1>1, LastTypes DEF LastOK, Examination, Forget
<1>3. PackageTypeOK'
  BY <1>2 DEF PackageInv, PackageTypeOK
<1>4. (JobOK /\ OutputOK /\ ReadyInstalls /\ PublishedInstalls)'
  BY DEF PackageInv, JobOK, OutputOK, ReadyInstalls, PublishedInstalls
<1> QED
  BY <1>1, <1>3, <1>4 DEF PackageInv

(* A command that ends, whatever it has written before.                    *)
LEMMA GiveKeeps ==
  ASSUME PackageInv, NEW code \in -1..2, Give(code),
         output' = output \/ (output'.archive \in Seq(ArchiveEntries) /\ output'.host \in Hosts
                              /\ Installs(output'.archive, output'.host, output'.id)),
         source' \in Sources, last' \in {last, Forget}, edits' = edits, packs' \in 0..MaxPacks
  PROVE  PackageInv'
<1>1. exit' = code /\ job' = NoJob /\ temp' = << >>
  BY DEF Give, NoArchive
<1>2. << >> \in Seq(ArchiveEntries)
  BY EmptySeq
<1>3. last' = Forget \/ Examination(last')
  BY DEF PackageInv, LastOK
<1>4. last'.inspected \in BOOLEAN /\ last'.plugin.ok \in BOOLEAN
  BY <1>3, LastTypes
<1>5. job'.step = "idle"
  BY <1>1 DEF NoJob
<1>6. output' # Missing => output'.host \in Hosts /\ output'.archive \in Seq(ArchiveEntries)
  BY DEF PackageInv, PackageTypeOK, OutputOK
<1>7. PackageTypeOK'
  BY <1>1, <1>2, <1>4, <1>5, <1>6 DEF PackageInv, PackageTypeOK, NoArchive
<1>8. PublishedInstalls'
  BY DEF PackageInv, PublishedInstalls, Installs
<1>9. (JobOK /\ OutputOK /\ ReadyInstalls)'
  BY <1>1, <1>5, <1>6 DEF JobOK, OutputOK, ReadyInstalls
<1>10. LastOK'
  BY <1>3 DEF LastOK, Examination, Forget
<1> QED
  BY <1>7, <1>8, <1>9, <1>10 DEF PackageInv

(* A pack that goes on.                                                    *)
LEMMA GoesOn ==
  ASSUME PackageInv, job' # NoJob, JobOK', ReadyInstalls', temp' \in Seq(ArchiveEntries),
         last' \in {last, Forget}, packs' \in 0..MaxPacks,
         UNCHANGED <<source, output, exit, edits>>
  PROVE  PackageInv'
<1>1. last' = Forget \/ Examination(last')
  BY DEF PackageInv, LastOK
<1>2. last'.inspected \in BOOLEAN /\ last'.plugin.ok \in BOOLEAN
  BY <1>1, LastTypes
<1>3. job'.step \in {"idle", "write", "publish"}
  BY DEF JobOK, NoJob
<1>4. PackageTypeOK'
  BY <1>2, <1>3 DEF PackageInv, PackageTypeOK, NoJob
<1>5. (OutputOK /\ PublishedInstalls)'
  BY DEF PackageInv, OutputOK, PublishedInstalls
<1>6. LastOK'
  BY <1>1 DEF LastOK, Examination, Forget
<1> QED
  BY <1>4, <1>5, <1>6 DEF PackageInv

LEMMA StartPackKeeps ==
  ASSUME PackageInv, NEW host \in Hosts, job = NoJob, StartPack(host)
  PROVE  PackageInv'
<1>1. /\ packs' \in 0..MaxPacks /\ last' = Forget /\ UNCHANGED <<source, output, edits>>
      /\ source \in Sources /\ temp \in Seq(ArchiveEntries)
  BY FormatAssumption DEF StartPack, PackageInv, PackageTypeOK
<1>2. CASE Give(1)
  BY <1>1, <1>2, GiveKeeps
<1>3. CASE /\ UNCHANGED <<temp, exit>>
           /\ job' = [step |-> "write", host |-> host, id |-> LoadSource(host).id,
                      todo |-> SetToSeq(DOMAIN source)]
  <2>1. job' # NoJob /\ JobOK' /\ ReadyInstalls'
    BY <1>3 DEF JobOK, ReadyInstalls, NoJob
  <2> QED
    BY <1>1, <1>3, <2>1, GoesOn
<1> QED
  BY <1>2, <1>3 DEF StartPack

LEMMA CommandKeeps ==
  ASSUME PackageInv, NEW line, Command(line)
  PROVE  PackageInv'
<1> DEFINE host == IF line.host = Missing THEN CoreHost ELSE line.host
           meaning == Meaning(line)
<1>1. CASE /\ meaning \in {"help", "usage"}
           /\ exit' = IF meaning = "help" THEN 0 ELSE 2
           /\ UNCHANGED <<source, job, temp, output, last, edits, packs>>
  BY <1>1, OtherwiseUnchanged
<1>2. CASE meaning = "validate" /\ Validate(host)
  BY <1>2, OtherwiseUnchanged DEF Validate
<1>3. CASE meaning = "pack" /\ StartPack(host)
  <2>1. job = NoJob
    BY DEF Command
  <2> QED
    BY <1>3, <2>1, MeantHost, StartPackKeeps
<1>4. CASE meaning = "inspect" /\ \E a \in Examined : Inspect(a, host)
  BY <1>4, InspectKeeps
<1> QED
  BY <1>1, <1>2, <1>3, <1>4 DEF Command

LEMMA WriteEntryKeeps ==
  ASSUME PackageInv, WriteEntry
  PROVE  PackageInv'
<1>1. /\ job.step = "write" /\ UNCHANGED <<source, output, last, edits, packs>>
      /\ source \in Sources /\ packs \in 0..MaxPacks /\ temp \in Seq(ArchiveEntries)
  BY DEF WriteEntry, PackageInv, PackageTypeOK
<1>2. CASE Give(1)
  BY <1>1, <1>2, GiveKeeps
<1>3. CASE \E path \in DOMAIN source : /\ temp' = Append(temp, EntryOf(path))
                                       /\ job' = [job EXCEPT !.todo = Tail(@)]
                                       /\ UNCHANGED exit
  <2>1. PICK path \in DOMAIN source : temp' = Append(temp, EntryOf(path))
    BY <1>3
  <2>2. path \in Seq(STRING) /\ source[path] \in SourceFiles
    BY <1>1, FormatAssumption
  <2>3. EntryOf(path) \in ArchiveEntries
    BY <2>2 DEF EntryOf, ArchiveEntries, SourceFiles
  <2>4. temp' \in Seq(ArchiveEntries)
    BY <1>1, <2>1, <2>3
  <2>5. job # NoJob
    BY <1>1 DEF NoJob
  <2>6. /\ job = [step |-> job.step, host |-> job.host, id |-> job.id, todo |-> job.todo]
        /\ job.step \in {"write", "publish"} /\ job.host \in Hosts
    BY <2>5 DEF PackageInv, JobOK
  <2>7. job' = [step |-> "write", host |-> job.host, id |-> job.id, todo |-> Tail(job.todo)]
    BY <1>1, <1>3, <2>6
  <2>8. job' # NoJob /\ JobOK' /\ ReadyInstalls'
    BY <2>6, <2>7 DEF JobOK, ReadyInstalls, NoJob
  <2> QED
    BY <1>1, <1>3, <2>4, <2>8, GoesOn
<1> QED
  BY <1>2, <1>3 DEF WriteEntry

LEMMA RoundTripKeeps ==
  ASSUME PackageInv, RoundTrip
  PROVE  PackageInv'
<1>1. /\ job.step = "write" /\ UNCHANGED <<source, output, last, edits, packs>>
      /\ source \in Sources /\ packs \in 0..MaxPacks /\ temp \in Seq(ArchiveEntries)
  BY DEF RoundTrip, PackageInv, PackageTypeOK
<1>2. CASE Give(1)
  BY <1>1, <1>2, GiveKeeps
<1>3. CASE /\ Installs(temp, job.host, job.id)
           /\ job' = [job EXCEPT !.step = "publish"] /\ UNCHANGED <<temp, exit>>
  <2>1. job # NoJob
    BY <1>1 DEF NoJob
  <2>2. /\ job = [step |-> job.step, host |-> job.host, id |-> job.id, todo |-> job.todo]
        /\ job.host \in Hosts
    BY <2>1 DEF PackageInv, JobOK
  <2>3. job' = [step |-> "publish", host |-> job.host, id |-> job.id, todo |-> job.todo]
    BY <1>3, <2>2
  <2>4. job' # NoJob /\ JobOK'
    BY <2>2, <2>3 DEF JobOK, NoJob
  <2>5. ReadyInstalls'
    BY <1>3, <2>3 DEF ReadyInstalls
  <2> QED
    BY <1>1, <1>3, <2>4, <2>5, GoesOn
<1> QED
  BY <1>2, <1>3 DEF RoundTrip, Installs

LEMMA PublishPackKeeps ==
  ASSUME PackageInv, PublishPack
  PROVE  PackageInv'
<1>1. /\ job.step = "publish" /\ UNCHANGED <<source, last, edits, packs>>
      /\ source \in Sources /\ packs \in 0..MaxPacks /\ temp \in Seq(ArchiveEntries)
  BY DEF PublishPack, PackageInv, PackageTypeOK
<1>2. job.host \in Hosts /\ Installs(temp, job.host, job.id)
  <2>1. job # NoJob
    BY <1>1 DEF NoJob
  <2> QED
    BY <1>1, <2>1 DEF PackageInv, JobOK, ReadyInstalls
<1>3. CASE output' = [archive |-> temp, host |-> job.host, id |-> job.id] /\ Give(0)
  BY <1>1, <1>2, <1>3, GiveKeeps
<1>4. CASE Give(1) /\ UNCHANGED output
  BY <1>1, <1>4, GiveKeeps
<1> QED
  BY <1>3, <1>4 DEF PublishPack

LEMMA KilledKeeps ==
  ASSUME PackageInv, Killed
  PROVE  PackageInv'
<1>1. /\ UNCHANGED <<source, output, last, edits, packs>>
      /\ source \in Sources /\ packs \in 0..MaxPacks
  BY DEF Killed, PackageInv, PackageTypeOK
<1>2. Give(-1)
  BY DEF Killed, Give
<1> QED
  BY <1>1, <1>2, GiveKeeps

LEMMA EditKeeps ==
  ASSUME PackageInv, NEW s \in Sources, Edit(s)
  PROVE  PackageInv'
<1>1. /\ source' \in Sources /\ edits' \in 0..MaxEdits /\ last' = Forget
      /\ UNCHANGED <<job, temp, output, exit, packs>>
  BY FormatAssumption DEF Edit, PackageInv, PackageTypeOK
<1>2. last'.inspected \in BOOLEAN /\ last'.plugin.ok \in BOOLEAN
  BY <1>1, LastTypes
<1>3. PackageTypeOK'
  BY <1>1, <1>2 DEF PackageInv, PackageTypeOK
<1>4. (JobOK /\ OutputOK /\ ReadyInstalls /\ PublishedInstalls)'
  BY <1>1 DEF PackageInv, JobOK, OutputOK, ReadyInstalls, PublishedInstalls
<1>5. LastOK'
  BY <1>1 DEF LastOK, Forget
<1> QED
  BY <1>3, <1>4, <1>5 DEF PackageInv

LEMMA PackageInvariance == PackageSpec => []PackageInv
<1>1. PackageInv /\ [PackageNext]_packageVars => PackageInv'
  <2> SUFFICES ASSUME PackageInv, [PackageNext]_packageVars PROVE PackageInv'
    OBVIOUS
  <2>1. CASE \E line \in CommandLines : Command(line)
    BY <2>1, CommandKeeps
  <2>2. CASE WriteEntry
    BY <2>2, WriteEntryKeeps
  <2>3. CASE RoundTrip
    BY <2>3, RoundTripKeeps
  <2>4. CASE PublishPack
    BY <2>4, PublishPackKeeps
  <2>5. CASE Killed
    BY <2>5, KilledKeeps
  <2>6. CASE \E s \in Sources : Edit(s)
    BY <2>6, EditKeeps
  <2>7. CASE UNCHANGED packageVars
    <3>1. exit' \in -1..2
      BY <2>7 DEF packageVars, PackageInv, PackageTypeOK
    <3> QED
      BY <2>7, <3>1, OtherwiseUnchanged DEF packageVars
  <2> QED
    BY <2>1, <2>2, <2>3, <2>4, <2>5, <2>6, <2>7 DEF PackageNext
<1> QED
  BY <1>1, PackageInitHasInv, PTL DEF PackageSpec

(* The type invariant: a half-written archive belongs to a pack that is    *)
(* under way, and every archive is one (lib.rs, the guards of the pack).   *)
THEOREM PackageTypeCorrect == PackageSpec => []PackageTypeOK
<1>1. PackageInv => PackageTypeOK
  BY DEF PackageInv
<1> QED
  BY <1>1, PackageInvariance, PTL

(* Whatever changes in the directory while it is packed, and whenever the  *)
(* process dies: the output is what it was, or installs as what was packed.*)
THEOREM PublishedAlwaysInstalls == PackageSpec => []PublishedInstalls
<1>1. PackageInv => PublishedInstalls
  BY DEF PackageInv
<1> QED
  BY <1>1, PackageInvariance, PTL

(* For any archive at all, and however the file system folds names: what   *)
(* is installed is the manifest that was checked, with every file as the   *)
(* archive has it, but for the names that only the file system takes for   *)
(* one.                                                                    *)
THEOREM InstallsAreCoherent == PackageSpec => []InstalledIsCoherent
<1>1. PackageInv => InstalledIsCoherent
  <2> SUFFICES ASSUME PackageInv, last.plugin.ok PROVE InstalledIsCoherent
    BY DEF InstalledIsCoherent
  <2> DEFINE a == last.archive
             tree == Written(a)
             p == last.plugin
  <2>1. Examination(last)
    BY DEF PackageInv, LastOK, Forget, Rejected
  <2>2. /\ a \in Seq(ArchiveEntries) /\ Acceptable(a, last.host) /\ tree # Broken
        /\ p = Load(tree, last.host) /\ Load(tree, last.host).ok
    BY <2>1, ExtractedIs DEF Examination
  <2>3. (\E i \in ManifestAt(a) : SharesFile(a, i)) \/ p.manifest = ManifestEntry(a).body.json
    BY <2>2, LoadedIs, ManifestHeld
  <2>4. \A i \in DOMAIN a :
           ~a[i].name.dir => SharesFile(a, i) \/ At(tree, a[i].name.path) = a[i].body
    BY <2>2, TreeHoldsFiles DEF Acceptable
  <2>5. /\ p.css # Missing => "renderer.css" \in ToSet(p.permissions)
        /\ p.renderer # Missing => "renderer.script" \in ToSet(p.permissions)
        /\ Distinct(p.domains)
    BY <2>2, LoadedIsCoherent
  <2> QED
    BY <2>3, <2>4, <2>5 DEF InstalledIsCoherent
<1> QED
  BY <1>1, PackageInvariance, PTL

(* For any archive: inspect and an install agree, but for what Unseen says.*)
THEOREM InspectAlwaysAgrees == PackageSpec => []InspectAgrees
<1>1. PackageInv => InspectAgrees
  <2> SUFFICES ASSUME PackageInv, last.inspected, ~Unseen(last.archive)
               PROVE  last.plugin.ok
    BY DEF InspectAgrees
  <2>1. Examination(last)
    BY DEF PackageInv, LastOK, Forget
  <2> QED
    BY <2>1, AcceptedExtracts DEF Examination
<1> QED
  BY <1>1, PackageInvariance, PTL

-----------------------------------------------------------------------------
(* The whole: with one part at rest, its steps are steps of the other.     *)
LEMMA PackagesAreBoth == PackagesSpec => Spec /\ PackageSpec
<1>1. PackagesInit => Init /\ PackageInit
  BY DEF PackagesInit
<1>2. [PackagesNext]_<<vars, packageVars>> => [Next]_vars /\ [PackageNext]_packageVars
  BY DEF PackagesNext
<1> QED
  BY <1>1, <1>2, PTL DEF PackagesSpec, Spec, PackageSpec

(* The store and the packs keep their types in every execution that the    *)
(* run explores.                                                           *)
THEOREM PackagesTypeCorrect == PackagesSpec => []PackagesTypeOK
<1>1. TypeOK /\ PackageTypeOK => PackagesTypeOK
  BY DEF PackagesTypeOK
<1> QED
  BY <1>1, PackagesAreBoth, TypeCorrect, PackageTypeCorrect, PTL

(* What the format and the store promise by themselves holds of the whole: *)
(* what is packed, checked and extracted is one plugin, and it stays, with *)
(* the grants it was given, through failures and crashes.                  *)
THEOREM PackagesAreSafe ==
  PackagesSpec => /\ [](InstalledIsCoherent /\ PublishedInstalls /\ InspectAgrees)
                  /\ [](GrantsFollowVersion /\ SurvivesOneFailure /\ ReadsAreCurrent)
                  /\ ImplementsRegistry
<1> QED
  BY PackagesAreBoth, InstallsAreCoherent, PublishedAlwaysInstalls, InspectAlwaysAgrees,
     GrantsAlwaysFollowVersion, OneFailureLosesNothing, ReadsAlwaysCurrent,
     StoreKeepsTheRegistry, PTL
=============================================================================
