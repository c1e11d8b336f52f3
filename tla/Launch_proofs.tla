--------------------------- MODULE Launch_proofs ---------------------------
(***************************************************************************)
(* Proofs about the injector: the archive it builds, for any source; the   *)
(* registry entries, for any applications that share file names and any    *)
(* requests; the launches, for any applications, launchers and updates.    *)
(***************************************************************************)
EXTENDS MCLaunch, FiniteSetTheorems, TLAPS

(* The archive built from a source stands in for it, whatever it contains. *)
(* (That it can be built is the condition of the launcher, not of this.)   *)
LEMMA MergeStandsIn ==
  ASSUME NEW source, DOMAIN source.links \cap Overridden = {}
  PROVE  StandsInFor(Merge(source), source)
  <1> DEFINE merged == Merge(source)
             packed == DOMAIN source.packed
             loose == DOMAIN source.loose
             links == DOMAIN source.links
  <1>1. /\ merged.packed = Written(source) /\ merged.links = source.links
        /\ merged.loose = source.loose
    BY DEF Merge, Unpacked
  <1>2. IndexJs # PackageJson /\ Overridden = {IndexJs, PackageJson}
    BY DEF IndexJs, PackageJson, Overridden
  <1>3. DOMAIN Written(source) = (packed \ (Overridden \cup loose)) \cup Overridden
    BY DEF Written, Copied, Unpacked
  <1>4. /\ Written(source)[IndexJs] = Entry
        /\ Written(source)[PackageJson] = Patched(source)
        /\ \A p \in packed \ (Overridden \cup loose) : Written(source)[p] = source.packed[p]
    BY <1>2 DEF Written, Copied, Unpacked
  <1>5. Paths(merged) = Paths(source) \cup Overridden
    BY <1>1, <1>3 DEF Paths
  <1>6. ASSUME NEW p \in Paths(source) \ Overridden
        PROVE  Serve(merged, p) = Serve(source, p)
    <2>1. CASE p \in loose \cup links
      BY <1>1, <2>1 DEF Serve
    <2>2. CASE p \notin loose \cup links
      <3>1. p \in packed \ (Overridden \cup loose)
        BY <1>6, <2>2 DEF Paths
      <3> QED  BY <1>1, <1>4, <2>2, <3>1 DEF Serve
    <2> QED  BY <2>1, <2>2
  <1>7. IndexJs \notin loose => Serve(merged, IndexJs) = Entry
    BY <1>1, <1>2, <1>4 DEF Serve
  <1>8. PackageJson \notin loose => Serve(merged, PackageJson) = Patched(source)
    BY <1>1, <1>2, <1>4 DEF Serve
  <1>9. /\ Patched(source).main = IndexJs
        /\ PackageOf(source) # Garbage => Patched(source).name = PackageOf(source).name
    BY DEF Patched
  <1> QED  BY <1>5, <1>6, <1>7, <1>8, <1>9 DEF StandsInFor

-----------------------------------------------------------------------------
(* The registry.  What the properties say of an entry: n has another       *)
(* program's Debugger, is registered and unregistered at most once, and no *)
(* launcher has missed a value of it.                                      *)
Registers(n, r) == job[r].at # "idle" /\ job[r].enabled /\ EntryOf(r) = n
Unregisters(n, r) == job[r].at # "idle" /\ ~job[r].enabled /\ EntryOf(r) = n

Once(n) ==
    /\ Debugger0[n] = "theirs"
    /\ \A r, s \in Requests : Registers(n, r) /\ Registers(n, s) => r = s
    /\ \A r, s \in Requests : Unregisters(n, r) /\ Unregisters(n, s) => r = s
    /\ \A r \in Requests : Registers(n, r) \/ Unregisters(n, r) => ~job[r].missed

(* The registration is over; the unregistration, if any, has not yet       *)
(* dropped the backup.                                                     *)
Registered1(n) == \E r \in Requests : Registers(n, r) /\ job[r].at = "done"
BackupNeeded(n) ==
    \A r \in Requests : Unregisters(n, r) =>
        job[r].at \in {"consent", "open", "check", "prev", "restore"}

(* What a request that has come so far knows of its entry.                 *)
RegistersSafely(n, r) ==
    /\ job[r].at \in {"consent", "resolve", "read", "backup"} => key[n].debugger = "theirs"
    /\ job[r].at = "backup" => job[r].held = "theirs"
    /\ job[r].at \in {"debugger", "filter", "owner"} => key[n].prev = "theirs"

UnregistersSafely(n, r) ==
    /\ job[r].at \in {"prev", "restore", "drop_prev", "drop_owner", "drop_filter"} =>
           Registered1(n)
    /\ job[r].at \in {"prev", "restore"} => key[n].prev = "theirs"
    /\ job[r].at = "restore" => job[r].held = "theirs"
    /\ job[r].at \in {"drop_prev", "drop_owner", "drop_filter"} => key[n].debugger = "theirs"

EntrySafe(n) ==
    /\ "theirs" \in {key[n].debugger, key[n].prev}
    /\ (\A r \in Requests : ~Registers(n, r)) => key[n].debugger = "theirs"
    /\ key[n].owned => Registered1(n) /\ (BackupNeeded(n) => key[n].prev = "theirs")
    /\ \A r \in Requests : Registers(n, r) => RegistersSafely(n, r)
    /\ \A r \in Requests : Unregisters(n, r) => UnregistersSafely(n, r)

(* What a request does is what it was asked for. *)
AsAsked ==
    \A r \in Requests : /\ job[r].at \in Registering => job[r].enabled
                        /\ job[r].at \in Unregistering => ~job[r].enabled

RegistryInv ==
    /\ RegistryTypeOK /\ AsAsked
    /\ \A n \in Names : Once(n) => EntrySafe(n)

EntryType == [present : BOOLEAN, debugger : Debuggers, prev : Debuggers,
              filter : Apps \cup {"none"}, owned : BOOLEAN]
JobPlaces == Running \cup {"idle", "consent", "done"}
JobType == [at : JobPlaces, app : Apps, enabled : BOOLEAN, held : Debuggers,
            missed : BOOLEAN,
            answer : {"none", "applied", "cancelled", "failed"}, said : BOOLEAN]

LEMMA RegistryTypes ==
  ASSUME RegistryTypeOK
  PROVE  /\ key \in [Names -> EntryType] /\ job \in [Requests -> JobType]
         /\ \A r \in Requests : EntryOf(r) \in Names /\ key[EntryOf(r)] \in EntryType
  <1>1. key \in [Names -> EntryType] /\ job \in [Requests -> JobType]
    BY DEF RegistryTypeOK, EntryType, JobType, JobPlaces
  <1>2. \A r \in Requests : job[r].app \in Apps
    BY <1>1 DEF JobType
  <1> QED  BY <1>1, <1>2 DEF EntryOf, Names

(* A step of request r: where it goes, with what in hand, and its entry.   *)
Steps(r, place, held, entry) ==
    /\ job[r].at # "idle" /\ job'[r].at = place /\ job'[r].held = held
    /\ job'[r].app = job[r].app /\ job'[r].enabled = job[r].enabled
    /\ job[r].missed => job'[r].missed
    /\ \A q \in Requests : q # r => job'[q] = job[q]
    /\ key'[EntryOf(r)] = entry
    /\ \A n \in Names : n # EntryOf(r) => key'[n] = key[n]

LEMMA GoIs ==
  ASSUME RegistryTypeOK, NEW r \in Requests, job[r].at # "idle", UNCHANGED key,
         NEW place \in JobPlaces, Go(r, place)
  PROVE  RegistryTypeOK' /\ Steps(r, place, job[r].held, key[EntryOf(r)])
  <1>1. key \in [Names -> EntryType] /\ job \in [Requests -> JobType]
    BY RegistryTypes
  <1>2. job' \in [Requests -> JobType]
    BY <1>1 DEF Go, JobType
  <1>3. RegistryTypeOK'
    BY <1>1, <1>2 DEF RegistryTypeOK, EntryType, JobType, JobPlaces
  <1> QED  BY <1>1, <1>3 DEF Steps, Go, JobType

LEMMA EndsIs ==
  ASSUME RegistryTypeOK, NEW r \in Requests, job[r].at # "idle", key' \in [Names -> EntryType],
         \A n \in Names : n # EntryOf(r) => key'[n] = key[n],
         NEW answer \in {"applied", "cancelled", "failed"}, NEW said \in BOOLEAN,
         Ends(r, answer, said)
  PROVE  RegistryTypeOK' /\ Steps(r, "done", job[r].held, key'[EntryOf(r)])
  <1>1. job \in [Requests -> JobType]
    BY RegistryTypes
  <1>2. job' \in [Requests -> JobType]
    <2>1. "done" \in JobPlaces
      BY DEF JobPlaces
    <2>2. job[r] \in JobType
      BY <1>1
    <2>3. [job[r] EXCEPT !.at = "done", !.answer = answer, !.said = said] \in JobType
      BY <2>1, <2>2 DEF JobType
    <2> QED  BY <1>1, <2>3 DEF Ends
  <1>3. RegistryTypeOK'
    BY <1>2 DEF RegistryTypeOK, EntryType, JobType, JobPlaces
  <1> QED  BY <1>1, <1>3 DEF Steps, Ends, JobType

LEMMA SetsIs ==
  ASSUME RegistryTypeOK, NEW r \in Requests, NEW here, here # "idle",
         NEW entry \in EntryType, NEW next \in JobPlaces, Sets(r, here, entry, next)
  PROVE  RegistryTypeOK' /\ job[r].at = here /\ Steps(r, next, job[r].held, entry)
  <1>1. key \in [Names -> EntryType] /\ job \in [Requests -> JobType] /\ EntryOf(r) \in Names
    BY RegistryTypes
  <1>2. job' \in [Requests -> JobType]
    BY <1>1 DEF Sets, Go, JobType
  <1>3. key' \in [Names -> EntryType]
    BY <1>1 DEF Sets
  <1>4. RegistryTypeOK'
    BY <1>2, <1>3 DEF RegistryTypeOK, EntryType, JobType, JobPlaces
  <1> QED  BY <1>1, <1>4 DEF Steps, Sets, Go, JobType

(* What is held without being changed. *)
Holds(r, place, held, missed) ==
    job' = [job EXCEPT ![r].at = place, ![r].held = held, ![r].missed = missed]

LEMMA HoldsIs ==
  ASSUME RegistryTypeOK, NEW r \in Requests, job[r].at # "idle", UNCHANGED key,
         NEW place \in JobPlaces, NEW held \in Debuggers, NEW missed \in BOOLEAN,
         job[r].missed => missed, Holds(r, place, held, missed)
  PROVE  RegistryTypeOK' /\ Steps(r, place, held, key[EntryOf(r)]) /\ job'[r].missed = missed
  <1>1. key \in [Names -> EntryType] /\ job \in [Requests -> JobType]
    BY RegistryTypes
  <1>2. job' \in [Requests -> JobType]
    <2>1. job[r] \in JobType
      BY <1>1
    <2>2. [job[r] EXCEPT !.at = place, !.held = held, !.missed = missed] \in JobType
      BY <2>1 DEF JobType
    <2> QED  BY <1>1, <2>2 DEF Holds
  <1>3. RegistryTypeOK'
    BY <1>1, <1>2 DEF RegistryTypeOK, EntryType, JobType, JobPlaces
  <1> QED  BY <1>1, <1>3 DEF Steps, Holds, JobType

(* What get_value(..).ok() comes to: what is there, or a value missed.     *)
LEMMA ReadsIs ==
  ASSUME RegistryTypeOK, NEW r \in Requests, NEW here, here # "idle", NEW value \in Debuggers,
         NEW next \in JobPlaces, ReadsValue(r, here, value, next)
  PROVE  \E held \in Debuggers :
            /\ RegistryTypeOK' /\ UNCHANGED key /\ job[r].at = here
            /\ Steps(r, next, held, key[EntryOf(r)])
            /\ held # value => job'[r].missed
  <1>1. job \in [Requests -> JobType] /\ job[r].missed \in BOOLEAN
    BY RegistryTypes DEF JobType
  <1>2. PICK held \in {value, "none"} :
          job' = [job EXCEPT ![r].at = next, ![r].held = held,
                             ![r].missed = @ \/ held # value]
    BY DEF ReadsValue
  <1>3. PICK missed \in BOOLEAN : missed = (job[r].missed \/ held # value)
    OBVIOUS
  <1>4. Holds(r, next, held, missed)
    BY <1>1, <1>2, <1>3 DEF Holds
  <1>5. held \in Debuggers /\ job[r].at = here /\ UNCHANGED key
    BY <1>2 DEF Debuggers, ReadsValue
  <1>6. (job[r].missed => missed) /\ (held # value => missed)
    BY <1>3
  <1>7. /\ RegistryTypeOK' /\ Steps(r, next, held, key[EntryOf(r)])
        /\ job'[r].missed = missed
    BY <1>4, <1>5, <1>6, HoldsIs
  <1> QED  BY <1>5, <1>6, <1>7

(* A step changes nobody's claims. *)
LEMMA ClaimsStay ==
  ASSUME NEW r \in Requests, NEW place, place # "idle", NEW held, NEW entry,
         Steps(r, place, held, entry), NEW n
  PROVE  /\ \A q \in Requests : /\ Registers(n, q)' <=> Registers(n, q)
                                /\ Unregisters(n, q)' <=> Unregisters(n, q)
         /\ Once(n)' => Once(n)
  <1>1. \A q \in Requests : /\ (job'[q].at # "idle") <=> (job[q].at # "idle")
                            /\ job'[q].app = job[q].app /\ job'[q].enabled = job[q].enabled
                            /\ job[q].missed => job'[q].missed
    BY DEF Steps
  <1>2. \A q \in Requests : /\ Registers(n, q)' <=> Registers(n, q)
                            /\ Unregisters(n, q)' <=> Unregisters(n, q)
    BY <1>1 DEF Registers, Unregisters, EntryOf
  <1> QED  BY <1>1, <1>2 DEF Once

(* Entries of other names are not concerned. *)
LEMMA OtherEntriesKeep ==
  ASSUME NEW r \in Requests, NEW place, place # "idle", NEW held, NEW entry,
         Steps(r, place, held, entry), NEW n \in Names, n # EntryOf(r), EntrySafe(n)
  PROVE  EntrySafe(n)'
  <1>1. /\ \A q \in Requests : /\ Registers(n, q)' <=> Registers(n, q)
                               /\ Unregisters(n, q)' <=> Unregisters(n, q)
        /\ key'[n] = key[n]
    BY ClaimsStay DEF Steps
  <1>2. \A q \in Requests : Registers(n, q) \/ Unregisters(n, q) => job'[q] = job[q]
    BY DEF Steps, Registers, Unregisters
  <1>3. Registered1(n)' <=> Registered1(n)
    BY <1>1, <1>2 DEF Registered1
  <1>4. BackupNeeded(n)' <=> BackupNeeded(n)
    BY <1>1, <1>2 DEF BackupNeeded
  <1>5. \A q \in Requests : Registers(n, q) /\ RegistersSafely(n, q) => RegistersSafely(n, q)'
    BY <1>1, <1>2 DEF RegistersSafely
  <1>6. \A q \in Requests : Unregisters(n, q) /\ UnregistersSafely(n, q) => UnregistersSafely(n, q)'
    <2> SUFFICES ASSUME NEW q \in Requests, Unregisters(n, q), UnregistersSafely(n, q)
                 PROVE  UnregistersSafely(n, q)'
      OBVIOUS
    <2>1. job'[q] = job[q]
      BY <1>2
    <2> QED  BY <1>1, <1>3, <2>1 DEF UnregistersSafely
  <1> QED  BY <1>1, <1>3, <1>4, <1>5, <1>6 DEF EntrySafe

(* A step of the one registration of n. *)
LEMMA RegistrationKeeps ==
  ASSUME RegistryInv, NEW r \in Requests, NEW n \in Names, Once(n), Registers(n, r),
         NEW place, place # "idle", NEW held, NEW entry, Steps(r, place, held, entry),
         job[r].at # "done",
         entry.owned => key[n].owned \/ (place = "done" /\ entry.prev = "theirs"),
         "theirs" \in {entry.debugger, entry.prev},
         place \in {"consent", "resolve", "read", "backup"} => entry.debugger = "theirs",
         place = "backup" => held = "theirs",
         place \in {"debugger", "filter", "owner"} => entry.prev = "theirs"
  PROVE  EntrySafe(n)'
  <1>1. /\ \A q \in Requests : /\ Registers(n, q)' <=> Registers(n, q)
                               /\ Unregisters(n, q)' <=> Unregisters(n, q)
        /\ key'[n] = entry /\ EntryOf(r) = n
    BY ClaimsStay DEF Steps, Registers
  <1>2. \A q \in Requests : Registers(n, q) => q = r
    BY DEF Once
  <1>3. EntrySafe(n) /\ ~Registered1(n) /\ ~key[n].owned
    BY <1>2 DEF RegistryInv, EntrySafe, Registered1
  <1>4. \A q \in Requests : Unregisters(n, q) =>
          /\ job'[q] = job[q]
          /\ job[q].at \notin {"prev", "restore", "drop_prev", "drop_owner", "drop_filter"}
    <2> SUFFICES ASSUME NEW q \in Requests, Unregisters(n, q)
                 PROVE  /\ job'[q] = job[q]
                        /\ job[q].at \notin {"prev", "restore", "drop_prev", "drop_owner",
                                              "drop_filter"}
      OBVIOUS
    <2>1. q # r
      BY DEF Registers, Unregisters
    <2>2. UnregistersSafely(n, q)
      BY <1>3 DEF EntrySafe
    <2> QED  BY <1>3, <2>1, <2>2 DEF Steps, UnregistersSafely
  <1>5. job'[r].at = place /\ job'[r].held = held
    BY DEF Steps
  <1>6. entry.owned => Registered1(n)' /\ entry.prev = "theirs"
    BY <1>1, <1>3, <1>5 DEF Registered1
  <1>7. \A q \in Requests : Registers(n, q)' => RegistersSafely(n, q)'
    BY <1>1, <1>2, <1>5 DEF RegistersSafely
  <1>8. \A q \in Requests : Unregisters(n, q)' => UnregistersSafely(n, q)'
    <2> SUFFICES ASSUME NEW q \in Requests, Unregisters(n, q)
                 PROVE  UnregistersSafely(n, q)'
      BY <1>1
    <2>1. job'[q].at \notin {"prev", "restore", "drop_prev", "drop_owner", "drop_filter"}
      BY <1>4
    <2> QED  BY <2>1 DEF UnregistersSafely
  <1> QED  BY <1>1, <1>6, <1>7, <1>8 DEF EntrySafe

(* A step of the one unregistration of n.  It touches the backup only when *)
(* the registration is over.                                               *)
LEMMA UnregistrationKeeps ==
  ASSUME RegistryInv, NEW r \in Requests, NEW n \in Names, Once(n), Unregisters(n, r),
         NEW place, place # "idle", NEW held, NEW entry, Steps(r, place, held, entry),
         \/ Registered1(n)
         \/ /\ entry.debugger = key[n].debugger /\ entry.prev = key[n].prev
            /\ place \notin {"prev", "restore", "drop_prev", "drop_owner", "drop_filter"},
         entry.owned => key[n].owned,
         entry.owned /\ place \in {"consent", "open", "check", "prev", "restore"} =>
             entry.prev = "theirs",
         "theirs" \in {entry.debugger, entry.prev},
         place \in {"prev", "restore"} => entry.prev = "theirs",
         place = "restore" => held = "theirs",
         place \in {"drop_prev", "drop_owner", "drop_filter"} => entry.debugger = "theirs"
  PROVE  EntrySafe(n)'
  <1>1. /\ \A q \in Requests : /\ Registers(n, q)' <=> Registers(n, q)
                               /\ Unregisters(n, q)' <=> Unregisters(n, q)
        /\ key'[n] = entry /\ EntryOf(r) = n
    BY ClaimsStay DEF Steps, Unregisters
  <1>2. EntrySafe(n) /\ \A q \in Requests : Unregisters(n, q) => q = r
    BY DEF RegistryInv, Once
  <1>3. \A q \in Requests : Registers(n, q) => q # r /\ job'[q] = job[q]
    BY DEF Registers, Unregisters, Steps
  <1>4. job'[r].at = place /\ job'[r].held = held
    BY DEF Steps
  <1>5. Registered1(n)' <=> Registered1(n)
    BY <1>1, <1>3 DEF Registered1
  <1>6. Registered1(n) => \A q \in Requests : Registers(n, q) => job[q].at = "done"
    BY DEF Registered1, Once
  <1>7. entry.owned => Registered1(n)' /\ (BackupNeeded(n)' => entry.prev = "theirs")
    BY <1>1, <1>2, <1>4, <1>5 DEF EntrySafe, BackupNeeded
  <1>8. (\A q \in Requests : ~Registers(n, q)) => entry.debugger = "theirs"
    BY <1>2 DEF EntrySafe, Registered1
  <1>9. \A q \in Requests : Registers(n, q)' => RegistersSafely(n, q)'
    <2> SUFFICES ASSUME NEW q \in Requests, Registers(n, q)
                 PROVE  RegistersSafely(n, q)'
      BY <1>1
    <2>1. CASE Registered1(n)
      <3>1. job'[q].at = "done"
        BY <1>3, <1>6, <2>1
      <3> QED  BY <3>1 DEF RegistersSafely
    <2>2. CASE ~Registered1(n)
      <3>1. RegistersSafely(n, q) /\ job'[q] = job[q]
        BY <1>2, <1>3 DEF EntrySafe
      <3> QED  BY <1>1, <2>2, <3>1 DEF RegistersSafely
    <2> QED  BY <2>1, <2>2
  <1>10. UnregistersSafely(n, r)'
    BY <1>1, <1>4, <1>5 DEF UnregistersSafely
  <1> QED  BY <1>1, <1>2, <1>7, <1>8, <1>9, <1>10 DEF EntrySafe

(* It is enough to look at the request's own entry. *)
LEMMA RequestKeeps ==
  ASSUME RegistryInv, RegistryTypeOK', NEW r \in Requests, NEW place, place # "idle",
         NEW held, NEW entry, Steps(r, place, held, entry),
         place \in Registering => job[r].enabled, place \in Unregistering => ~job[r].enabled,
         NEW m, m = EntryOf(r), Once(m) /\ ~job'[r].missed => EntrySafe(m)'
  PROVE  RegistryInv'
  <1>1. AsAsked'
    BY DEF RegistryInv, AsAsked, Steps
  <1>2. ASSUME NEW n \in Names, Once(n)'
        PROVE  EntrySafe(n)'
    <2>1. Once(n)
      BY <1>2, ClaimsStay
    <2>2. CASE n = m
      <3>1. (Registers(n, r) \/ Unregisters(n, r))'
        <4>1. EntryOf(r)' = n /\ job'[r].at # "idle"
          BY <2>2 DEF Steps, EntryOf
        <4>2. job[r].enabled \in BOOLEAN
          BY RegistryTypes DEF RegistryInv, JobType
        <4>3. job'[r].enabled \in BOOLEAN
          BY <4>2 DEF Steps
        <4> QED  BY <4>1, <4>3 DEF Registers, Unregisters
      <3>2. ~job'[r].missed
        BY <1>2, <3>1 DEF Once
      <3> QED  BY <2>1, <2>2, <3>2
    <2>3. CASE n # m
      BY <2>1, <2>3, OtherEntriesKeep DEF RegistryInv
    <2> QED  BY <2>2, <2>3
  <1> QED  BY <1>1, <1>2 DEF RegistryInv

(* What is known of the entry of a request. *)
LEMMA EntryHas ==
  ASSUME RegistryInv, NEW r \in Requests, job[r].at # "idle", NEW n, n = EntryOf(r), Once(n)
  PROVE  LET e == key[n]
         IN  /\ n \in Names /\ EntrySafe(n) /\ "theirs" \in {e.debugger, e.prev}
             /\ e.owned => Registered1(n) /\ (BackupNeeded(n) => e.prev = "theirs")
             /\ job[r].enabled => Registers(n, r) /\ RegistersSafely(n, r)
             /\ ~job[r].enabled => Unregisters(n, r) /\ UnregistersSafely(n, r)
  <1>1. EntryOf(r) \in Names
    BY RegistryTypes DEF RegistryInv
  <1>2. EntrySafe(EntryOf(r))
    BY <1>1 DEF RegistryInv
  <1> QED  BY <1>1, <1>2 DEF EntrySafe, Registers, Unregisters

(* Only its own steps count for whether the backup is needed. *)
LEMMA BackupNeededBy ==
  ASSUME NEW r \in Requests, NEW n, Once(n), Unregisters(n, r)
  PROVE  BackupNeeded(n) <=> job[r].at \in {"consent", "open", "check", "prev", "restore"}
  BY DEF Once, BackupNeeded

(* A request ends before or without having changed the entry, or is cut    *)
(* short.                                                                  *)
LEMMA EndKeeps ==
  ASSUME RegistryInv, RegistryTypeOK', NEW r \in Requests, job[r].at \notin {"idle", "done"},
         NEW held, Steps(r, "done", held, key[EntryOf(r)])
  PROVE  RegistryInv'
  <1>0. PICK n \in Names : n = EntryOf(r)
    BY RegistryTypes DEF RegistryInv
  <1>1. ASSUME Once(n)
        PROVE  EntrySafe(n)'
    <2>1. /\ n \in Names /\ EntrySafe(n) /\ "theirs" \in {key[n].debugger, key[n].prev}
          /\ job[r].enabled => Registers(n, r)
          /\ ~job[r].enabled => Unregisters(n, r)
      BY <1>0, <1>1, EntryHas
    <2>2. CASE job[r].enabled
      BY <1>0, <1>1, <2>1, <2>2, RegistrationKeeps
    <2>3. CASE ~job[r].enabled
      BY <1>0, <1>1, <2>1, <2>3, UnregistrationKeeps
    <2> QED  BY <2>2, <2>3
  <1>2. "done" \notin Registering \cup Unregistering
    BY DEF Registering, Unregistering
  <1> QED  BY <1>0, <1>1, <1>2, RequestKeeps

LEMMA AskKeeps ==
  ASSUME RegistryInv, NEW r \in Requests, NEW a \in Apps, NEW enabled \in BOOLEAN,
         Ask(r, a, enabled)
  PROVE  RegistryInv'
  <1>1. /\ job[r].at = "idle" /\ UNCHANGED key
        /\ job' = [job EXCEPT ![r].at = "consent", ![r].app = a, ![r].enabled = enabled]
    BY DEF Ask
  <1>2. key \in [Names -> EntryType] /\ job \in [Requests -> JobType]
    BY RegistryTypes DEF RegistryInv
  <1>3. job' \in [Requests -> JobType]
    <2>1. job[r] \in JobType /\ "consent" \in JobPlaces
      BY <1>2 DEF JobPlaces
    <2>2. [job[r] EXCEPT !.at = "consent", !.app = a, !.enabled = enabled] \in JobType
      BY <2>1 DEF JobType
    <2> QED  BY <1>1, <1>2, <2>2
  <1>4. RegistryTypeOK'
    BY <1>1, <1>2, <1>3 DEF RegistryTypeOK, EntryType, JobType, JobPlaces
  <1>5. /\ job'[r].at = "consent" /\ job'[r].enabled = enabled
        /\ \A q \in Requests : q # r => job'[q] = job[q]
    <2>1. job[r] \in JobType
      BY <1>2
    <2>2. job'[r] = [job[r] EXCEPT !.at = "consent", !.app = a, !.enabled = enabled]
      BY <1>1, <1>2
    <2> QED  BY <1>1, <1>2, <2>1, <2>2 DEF JobType
  <1>6. AsAsked'
    BY <1>5 DEF RegistryInv, AsAsked, Registering, Unregistering
  <1>7. ASSUME NEW n \in Names, Once(n)'
        PROVE  EntrySafe(n)'
    <2>1. \A q \in Requests : q # r => /\ Registers(n, q)' <=> Registers(n, q)
                                       /\ Unregisters(n, q)' <=> Unregisters(n, q)
      BY <1>5 DEF Registers, Unregisters, EntryOf
    <2>2. ~Registers(n, r) /\ ~Unregisters(n, r)
      BY <1>1 DEF Registers, Unregisters
    <2>3. Once(n) /\ EntrySafe(n)
      <3>1. Once(n)
        BY <1>5, <1>7, <2>1, <2>2 DEF Once
      <3> QED  BY <3>1 DEF RegistryInv
    <2>4. Registered1(n) => Registered1(n)'
      BY <1>5, <2>1, <2>2 DEF Registered1
    <2>5. ASSUME NEW q \in Requests, q # r, Registers(n, q)
          PROVE  RegistersSafely(n, q)'
      <3>1. RegistersSafely(n, q) /\ job'[q] = job[q]
        BY <1>5, <2>3, <2>5 DEF EntrySafe
      <3> QED  BY <1>1, <3>1 DEF RegistersSafely
    <2>6. ASSUME NEW q \in Requests, q # r, Unregisters(n, q)
          PROVE  UnregistersSafely(n, q)'
      <3>1. UnregistersSafely(n, q) /\ job'[q] = job[q]
        BY <1>5, <2>3, <2>6 DEF EntrySafe
      <3> QED  BY <1>1, <2>4, <3>1 DEF UnregistersSafely
    <2>7. UnregistersSafely(n, r)'
      BY <1>5 DEF UnregistersSafely
    <2>8. "theirs" \in {key[n].debugger, key[n].prev}
      BY <2>3 DEF EntrySafe
    <2>9. CASE Registers(n, r)'
      <3>1. \A q \in Requests : ~Registers(n, q)
        BY <1>7, <2>1, <2>2, <2>9 DEF Once
      <3>2. key[n].debugger = "theirs" /\ ~key[n].owned
        BY <2>3, <3>1 DEF EntrySafe, Registered1
      <3>3. RegistersSafely(n, r)'
        BY <1>1, <1>5, <3>2 DEF RegistersSafely
      <3> QED  BY <1>1, <2>1, <2>5, <2>6, <2>7, <2>8, <3>2, <3>3 DEF EntrySafe
    <2>10. CASE ~Registers(n, r)'
      <3>1. (\A q \in Requests : ~Registers(n, q)') => key[n].debugger = "theirs"
        BY <2>1, <2>2, <2>3 DEF EntrySafe
      <3>2. BackupNeeded(n)' => BackupNeeded(n)
        BY <1>5, <2>1, <2>2 DEF BackupNeeded
      <3>3. key[n].owned => Registered1(n)' /\ (BackupNeeded(n)' => key[n].prev = "theirs")
        BY <2>3, <2>4, <3>2 DEF EntrySafe
      <3> QED  BY <1>1, <2>1, <2>5, <2>6, <2>7, <2>8, <2>10, <3>1, <3>3 DEF EntrySafe
    <2> QED  BY <2>9, <2>10
  <1> QED  BY <1>4, <1>6, <1>7 DEF RegistryInv

LEMMA ConsentKeeps ==
  ASSUME RegistryInv, NEW r \in Requests, Consent(r)
  PROVE  RegistryInv'
  <1>1. job[r].at = "consent" /\ UNCHANGED key /\ RegistryTypeOK
    BY DEF Consent, RegistryInv
  <1>2. PICK n \in Names : n = EntryOf(r)
    BY <1>1, RegistryTypes
  <1>3. CASE (\E said \in Reported(EntryOf(r)) : Ends(r, "cancelled", said))
              \/ Ends(r, "failed", FALSE)
    <2>1. key \in [Names -> EntryType] /\ Reported(EntryOf(r)) \subseteq BOOLEAN
      BY <1>1, RegistryTypes DEF Registered, Reported
    <2>2. RegistryTypeOK' /\ Steps(r, "done", job[r].held, key[EntryOf(r)])
      <3>1. RegistryTypeOK' /\ Steps(r, "done", job[r].held, key'[EntryOf(r)])
        BY <1>1, <1>3, <2>1, EndsIs
      <3> QED  BY <1>1, <3>1
    <2> QED  BY <1>1, <2>2, EndKeeps
  <1>4. CASE Go(r, IF job[r].enabled THEN "resolve" ELSE "open")
    <2> DEFINE place == IF job[r].enabled THEN "resolve" ELSE "open"
    <2>1. RegistryTypeOK' /\ Steps(r, place, job[r].held, key[n])
      BY <1>1, <1>2, <1>4, GoIs DEF JobPlaces, Running, Registering, Unregistering
    <2>2. ASSUME Once(n)
          PROVE  EntrySafe(n)'
      <3>1. /\ EntrySafe(n) /\ "theirs" \in {key[n].debugger, key[n].prev}
            /\ key[n].owned => (BackupNeeded(n) => key[n].prev = "theirs")
            /\ job[r].enabled => Registers(n, r) /\ RegistersSafely(n, r)
            /\ ~job[r].enabled => Unregisters(n, r) /\ UnregistersSafely(n, r)
        BY <1>1, <1>2, <2>2, EntryHas
      <3>2. CASE job[r].enabled
        <4>1. key[n].debugger = "theirs" /\ place = "resolve"
          BY <1>1, <3>1, <3>2 DEF RegistersSafely
        <4> HIDE DEF place
        <4> QED  BY <1>1, <2>1, <2>2, <3>1, <3>2, <4>1, RegistrationKeeps
      <3>3. CASE ~job[r].enabled
        <4>1. key[n].owned => key[n].prev = "theirs"
          BY <1>1, <2>2, <3>1, <3>3, BackupNeededBy
        <4>2. place = "open"
          BY <3>3
        <4> HIDE DEF place
        <4> QED  BY <1>1, <2>1, <2>2, <3>1, <3>3, <4>1, <4>2, UnregistrationKeeps
      <3> QED  BY <3>2, <3>3
    <2>3. /\ place # "idle" /\ (place \in Registering => job[r].enabled)
          /\ (place \in Unregistering => ~job[r].enabled)
      BY DEF Registering, Unregistering
    <2> HIDE DEF place
    <2> QED  BY <1>2, <2>1, <2>2, <2>3, RequestKeeps
  <1> QED  BY <1>3, <1>4 DEF Consent

LEMMA StopsKeeps ==
  ASSUME RegistryInv, NEW r \in Requests, Stops(r)
  PROVE  RegistryInv'
  <1>1. /\ job[r].at \notin {"idle", "done"} /\ Ends(r, "failed", FALSE) /\ UNCHANGED key
        /\ RegistryTypeOK
    BY DEF Stops, Running, Registering, Unregistering, RegistryInv
  <1>2. key \in [Names -> EntryType]
    BY <1>1, RegistryTypes
  <1>3. RegistryTypeOK' /\ Steps(r, "done", job[r].held, key'[EntryOf(r)])
    BY <1>1, <1>2, EndsIs
  <1> QED  BY <1>1, <1>3, EndKeeps

(* What a step of a registration makes of the entry, from what it knows.   *)
RegisterGoesOn(n, r, place, held, entry) ==
    /\ entry.owned => key[n].owned \/ (place = "done" /\ entry.prev = "theirs")
    /\ "theirs" \in {entry.debugger, entry.prev}
    /\ place \in {"consent", "resolve", "read", "backup"} => entry.debugger = "theirs"
    /\ place = "backup" => held = "theirs"
    /\ place \in {"debugger", "filter", "owner"} => entry.prev = "theirs"

LEMMA RegisterStepKeeps ==
  ASSUME RegistryInv, RegistryTypeOK', NEW r \in Requests, job[r].at \in Registering,
         NEW n \in Names, n = EntryOf(r), NEW place \in Registering \cup {"done"},
         NEW held, NEW entry, Steps(r, place, held, entry),
         RegistersSafely(n, r) /\ "theirs" \in {key[n].debugger, key[n].prev}
             /\ ~job'[r].missed => RegisterGoesOn(n, r, place, held, entry)
  PROVE  RegistryInv'
  <1>1. job[r].enabled /\ job[r].at \notin {"idle", "done"} /\ place # "idle"
    BY DEF RegistryInv, AsAsked, Registering
  <1>2. place \in Unregistering => ~job[r].enabled
    BY DEF Registering, Unregistering
  <1>3. ASSUME Once(n), ~job'[r].missed
        PROVE  EntrySafe(n)'
    <2>1. Registers(n, r) /\ RegistersSafely(n, r) /\ "theirs" \in {key[n].debugger, key[n].prev}
      BY <1>1, <1>3, EntryHas
    <2>2. RegisterGoesOn(n, r, place, held, entry)
      BY <1>3, <2>1
    <2> QED  BY <1>1, <1>3, <2>1, <2>2, RegistrationKeeps DEF RegisterGoesOn
  <1> QED  BY <1>1, <1>2, <1>3, RequestKeeps

LEMMA RegisterKeeps ==
  ASSUME RegistryInv, NEW r \in Requests, Register(r)
  PROVE  RegistryInv'
  <1>1. RegistryTypeOK /\ key \in [Names -> EntryType] /\ job \in [Requests -> JobType]
    BY RegistryTypes DEF RegistryInv
  <1>2. PICK n \in Names : n = EntryOf(r)
    BY <1>1, RegistryTypes
  <1>3. PICK e \in EntryType : e = key[n]
    BY <1>1
  <1>4. e.debugger \in Debuggers /\ job[r].held \in Debuggers /\ "ours" \in Debuggers
    BY <1>1, <1>3 DEF EntryType, JobType, Debuggers
  <1>5. /\ {"resolve", "read", "backup", "debugger", "filter", "owner"} = Registering
        /\ Registering \subseteq JobPlaces
    BY DEF Registering, Running, JobPlaces
  <1>6. CASE Sets(r, "resolve", [e EXCEPT !.present = TRUE], "read")
    <2>1. PICK entry \in EntryType :
            entry.debugger = e.debugger /\ entry.prev = e.prev /\ entry.owned = e.owned
            /\ Sets(r, "resolve", entry, "read")
      BY <1>3, <1>6 DEF EntryType
    <2>2. RegistryTypeOK' /\ job[r].at = "resolve" /\ Steps(r, "read", job[r].held, entry)
      BY <1>1, <1>5, <2>1, SetsIs
    <2>3. RegistersSafely(n, r) => RegisterGoesOn(n, r, "read", job[r].held, entry)
      BY <1>3, <2>1, <2>2 DEF RegistersSafely, RegisterGoesOn
    <2> QED  BY <1>2, <1>5, <2>2, <2>3, RegisterStepKeeps
  <1>7. CASE ReadsValue(r, "read", e.debugger, "backup")
    <2>1. PICK held \in Debuggers :
            /\ RegistryTypeOK' /\ job[r].at = "read" /\ Steps(r, "backup", held, e)
            /\ held # e.debugger => job'[r].missed
      BY <1>1, <1>2, <1>3, <1>4, <1>5, <1>7, ReadsIs
    <2>2. RegistersSafely(n, r) /\ ~job'[r].missed => RegisterGoesOn(n, r, "backup", held, e)
      BY <1>3, <2>1 DEF RegistersSafely, RegisterGoesOn
    <2> QED  BY <1>2, <1>5, <2>1, <2>2, RegisterStepKeeps
  <1>8. CASE Sets(r, "backup",
                  IF job[r].held = "none" THEN e ELSE [e EXCEPT !.prev = job[r].held],
                  "debugger")
    <2>1. PICK entry \in EntryType :
            /\ entry.debugger = e.debugger /\ entry.owned = e.owned
            /\ entry.prev = IF job[r].held = "none" THEN e.prev ELSE job[r].held
            /\ Sets(r, "backup", entry, "debugger")
      <3>1. CASE job[r].held = "none"
        BY <1>3, <1>8, <3>1
      <3>2. CASE job[r].held # "none"
        <4>1. [e EXCEPT !.prev = job[r].held] \in EntryType
          BY <1>4 DEF EntryType
        <4>2. /\ [e EXCEPT !.prev = job[r].held].debugger = e.debugger
              /\ [e EXCEPT !.prev = job[r].held].owned = e.owned
              /\ [e EXCEPT !.prev = job[r].held].prev = job[r].held
          BY DEF EntryType
        <4>3. Sets(r, "backup", [e EXCEPT !.prev = job[r].held], "debugger")
          BY <1>8, <3>2
        <4> QED  BY <3>2, <4>1, <4>2, <4>3
      <3> QED  BY <3>1, <3>2
    <2>2. RegistryTypeOK' /\ job[r].at = "backup" /\ Steps(r, "debugger", job[r].held, entry)
      BY <1>1, <1>5, <2>1, SetsIs
    <2>3. RegistersSafely(n, r) => RegisterGoesOn(n, r, "debugger", job[r].held, entry)
      BY <1>3, <2>1, <2>2 DEF RegistersSafely, RegisterGoesOn
    <2> QED  BY <1>2, <1>5, <2>2, <2>3, RegisterStepKeeps
  <1>9. CASE Sets(r, "debugger", [e EXCEPT !.debugger = "ours"], "filter")
    <2>1. PICK entry \in EntryType :
            entry.prev = e.prev /\ entry.owned = e.owned /\ Sets(r, "debugger", entry, "filter")
      BY <1>3, <1>4, <1>9 DEF EntryType
    <2>2. RegistryTypeOK' /\ job[r].at = "debugger" /\ Steps(r, "filter", job[r].held, entry)
      BY <1>1, <1>5, <2>1, SetsIs
    <2>3. RegistersSafely(n, r) => RegisterGoesOn(n, r, "filter", job[r].held, entry)
      BY <1>3, <2>1, <2>2 DEF RegistersSafely, RegisterGoesOn
    <2> QED  BY <1>2, <1>5, <2>2, <2>3, RegisterStepKeeps
  <1>10. CASE Sets(r, "filter", [e EXCEPT !.filter = job[r].app], "owner")
    <2>1. job[r].app \in Apps
      BY <1>1 DEF JobType
    <2>2. PICK entry \in EntryType :
            entry.prev = e.prev /\ entry.owned = e.owned /\ Sets(r, "filter", entry, "owner")
      BY <1>3, <1>10, <2>1 DEF EntryType
    <2>3. RegistryTypeOK' /\ job[r].at = "filter" /\ Steps(r, "owner", job[r].held, entry)
      BY <1>1, <1>5, <2>2, SetsIs
    <2>4. RegistersSafely(n, r) => RegisterGoesOn(n, r, "owner", job[r].held, entry)
      BY <1>3, <2>2, <2>3 DEF RegistersSafely, RegisterGoesOn
    <2> QED  BY <1>2, <1>5, <2>3, <2>4, RegisterStepKeeps
  <1>11. CASE /\ job[r].at = "owner"
              /\ key' = [key EXCEPT ![EntryOf(r)].owned = TRUE]
              /\ Ends(r, "applied", TRUE)
    <2>1. /\ key' \in [Names -> EntryType] /\ key'[n].prev = e.prev
          /\ \A m \in Names : m # EntryOf(r) => key'[m] = key[m]
      BY <1>1, <1>2, <1>3, <1>11 DEF EntryType
    <2>2. PICK entry : entry = key'[n]
      OBVIOUS
    <2>3. RegistryTypeOK' /\ Steps(r, "done", job[r].held, entry)
      <3>1. RegistryTypeOK' /\ Steps(r, "done", job[r].held, key'[EntryOf(r)])
        BY <1>1, <1>11, <2>1, EndsIs
      <3> QED  BY <1>2, <2>2, <3>1
    <2>4. RegistersSafely(n, r) => RegisterGoesOn(n, r, "done", job[r].held, entry)
      BY <1>3, <1>11, <2>1, <2>2 DEF RegistersSafely, RegisterGoesOn
    <2> QED  BY <1>2, <1>5, <1>11, <2>3, <2>4, RegisterStepKeeps
  <1> QED  BY <1>2, <1>3, <1>6, <1>7, <1>8, <1>9, <1>10, <1>11 DEF Register

(* The same for an unregistration. *)
Late == {"prev", "restore", "drop_prev", "drop_owner", "drop_filter"}
UnregisterGoesOn(n, r, place, held, entry) ==
    /\ \/ Registered1(n)
       \/ entry.debugger = key[n].debugger /\ entry.prev = key[n].prev /\ place \notin Late
    /\ entry.owned => key[n].owned
    /\ entry.owned /\ place \in {"consent", "open", "check", "prev", "restore"} =>
           entry.prev = "theirs"
    /\ "theirs" \in {entry.debugger, entry.prev}
    /\ place \in {"prev", "restore"} => entry.prev = "theirs"
    /\ place = "restore" => held = "theirs"
    /\ place \in {"drop_prev", "drop_owner", "drop_filter"} => entry.debugger = "theirs"

(* What an unregistration that has come so far knows. *)
UnregisterKnows(n, r) ==
    /\ UnregistersSafely(n, r) /\ "theirs" \in {key[n].debugger, key[n].prev}
    /\ key[n].owned =>
           /\ Registered1(n)
           /\ job[r].at \in {"consent", "open", "check", "prev", "restore"} =>
                  key[n].prev = "theirs"

LEMMA UnregisterStepKeeps ==
  ASSUME RegistryInv, RegistryTypeOK', NEW r \in Requests, job[r].at \in Unregistering,
         NEW n \in Names, n = EntryOf(r), NEW place \in Unregistering \cup {"done"},
         NEW held, NEW entry, Steps(r, place, held, entry),
         UnregisterKnows(n, r) /\ ~job'[r].missed =>
             UnregisterGoesOn(n, r, place, held, entry)
  PROVE  RegistryInv'
  <1>1. ~job[r].enabled /\ job[r].at \notin {"idle", "done"} /\ place # "idle"
    BY DEF RegistryInv, AsAsked, Unregistering
  <1>2. place \in Registering => job[r].enabled
    BY DEF Registering, Unregistering
  <1>3. ASSUME Once(n), ~job'[r].missed
        PROVE  EntrySafe(n)'
    <2>1. /\ Unregisters(n, r) /\ UnregistersSafely(n, r)
          /\ "theirs" \in {key[n].debugger, key[n].prev}
          /\ key[n].owned => Registered1(n) /\ (BackupNeeded(n) => key[n].prev = "theirs")
      BY <1>1, <1>3, EntryHas
    <2>2. BackupNeeded(n) <=> job[r].at \in {"consent", "open", "check", "prev", "restore"}
      BY <1>3, <2>1, BackupNeededBy
    <2>3. UnregisterGoesOn(n, r, place, held, entry)
      BY <1>3, <2>1, <2>2 DEF UnregisterKnows
    <2> QED  BY <1>1, <1>3, <2>1, <2>3, UnregistrationKeeps DEF UnregisterGoesOn, Late
  <1> QED  BY <1>1, <1>2, <1>3, RequestKeeps

LEMMA UnregisterKeeps ==
  ASSUME RegistryInv, NEW r \in Requests, Unregister(r)
  PROVE  RegistryInv'
  <1>1. RegistryTypeOK /\ key \in [Names -> EntryType] /\ job \in [Requests -> JobType]
    BY RegistryTypes DEF RegistryInv
  <1>2. PICK n \in Names : n = EntryOf(r)
    BY <1>1, RegistryTypes
  <1>3. PICK e \in EntryType : e = key[n]
    BY <1>1
  <1>4. /\ e.debugger \in Debuggers /\ e.prev \in Debuggers /\ job[r].held \in Debuggers
        /\ "none" \in Debuggers /\ e.owned \in BOOLEAN
    BY <1>1, <1>3 DEF EntryType, JobType, Debuggers
  <1>5. /\ {"open", "check", "prev", "restore", "drop_prev", "drop_owner", "drop_filter"} =
             Unregistering
        /\ Unregistering \subseteq JobPlaces
    BY DEF Unregistering, Running, JobPlaces
  <1>6. CASE /\ job[r].at = "open" /\ UNCHANGED key
             /\ (e.present /\ Go(r, "check")) \/ Ends(r, "applied", FALSE)
    <2>1. CASE Go(r, "check")
      <3>1. RegistryTypeOK' /\ Steps(r, "check", job[r].held, e)
        BY <1>1, <1>2, <1>3, <1>5, <1>6, <2>1, GoIs
      <3>2. UnregisterKnows(n, r) => UnregisterGoesOn(n, r, "check", job[r].held, e)
        BY <1>3, <1>6 DEF UnregisterKnows, UnregisterGoesOn, Late
      <3> QED  BY <1>2, <1>5, <1>6, <3>1, <3>2, UnregisterStepKeeps
    <2>2. CASE Ends(r, "applied", FALSE)
      <3>1. RegistryTypeOK' /\ Steps(r, "done", job[r].held, key[EntryOf(r)])
        <4>1. RegistryTypeOK' /\ Steps(r, "done", job[r].held, key'[EntryOf(r)])
          BY <1>1, <1>6, <2>2, EndsIs
        <4> QED  BY <1>6, <4>1
      <3> QED  BY <1>6, <3>1, EndKeeps
    <2> QED  BY <1>6, <2>1, <2>2
  <1>7. CASE job[r].at = "check" /\ e.owned /\ Go(r, "prev") /\ UNCHANGED key
    <2>1. RegistryTypeOK' /\ Steps(r, "prev", job[r].held, e)
      BY <1>1, <1>2, <1>3, <1>5, <1>7, GoIs
    <2>2. UnregisterKnows(n, r) => UnregisterGoesOn(n, r, "prev", job[r].held, e)
      BY <1>3, <1>7 DEF UnregisterKnows, UnregisterGoesOn
    <2> QED  BY <1>2, <1>5, <1>7, <2>1, <2>2, UnregisterStepKeeps
  <1>8. CASE ReadsValue(r, "prev", e.prev, "restore")
    <2>1. PICK held \in Debuggers :
            /\ RegistryTypeOK' /\ job[r].at = "prev" /\ Steps(r, "restore", held, e)
            /\ held # e.prev => job'[r].missed
      BY <1>1, <1>2, <1>3, <1>4, <1>5, <1>8, ReadsIs
    <2>2. UnregisterKnows(n, r) /\ ~job'[r].missed => UnregisterGoesOn(n, r, "restore", held, e)
      BY <1>3, <2>1 DEF UnregisterKnows, UnregistersSafely, UnregisterGoesOn
    <2> QED  BY <1>2, <1>5, <2>1, <2>2, UnregisterStepKeeps
  <1>9. CASE Sets(r, "restore", [e EXCEPT !.debugger = job[r].held], "drop_prev")
    <2>1. PICK entry \in EntryType :
            /\ entry.prev = e.prev /\ entry.owned = e.owned /\ entry.debugger = job[r].held
            /\ Sets(r, "restore", entry, "drop_prev")
      BY <1>3, <1>4, <1>9 DEF EntryType
    <2>2. /\ RegistryTypeOK' /\ job[r].at = "restore"
          /\ Steps(r, "drop_prev", job[r].held, entry)
      BY <1>1, <1>5, <2>1, SetsIs
    <2>3. UnregisterKnows(n, r) => UnregisterGoesOn(n, r, "drop_prev", job[r].held, entry)
      BY <1>3, <2>1, <2>2 DEF UnregisterKnows, UnregistersSafely, UnregisterGoesOn
    <2> QED  BY <1>2, <1>5, <2>2, <2>3, UnregisterStepKeeps
  <1>10. CASE job[r].held = "none" /\ Sets(r, "restore", e, "drop_prev")
    <2>1. RegistryTypeOK' /\ job[r].at = "restore" /\ Steps(r, "drop_prev", job[r].held, e)
      BY <1>1, <1>3, <1>5, <1>10, SetsIs
    <2>2. UnregisterKnows(n, r) => UnregisterGoesOn(n, r, "drop_prev", job[r].held, e)
      BY <1>10, <2>1 DEF UnregisterKnows, UnregistersSafely
    <2> QED  BY <1>2, <1>5, <2>1, <2>2, UnregisterStepKeeps
  <1>11. CASE \E prev \in {e.prev, "none"} :
                 Sets(r, "drop_prev", [e EXCEPT !.prev = prev], "drop_owner")
    <2>1. PICK entry \in EntryType :
            /\ entry.debugger = e.debugger /\ entry.owned = e.owned
            /\ Sets(r, "drop_prev", entry, "drop_owner")
      BY <1>3, <1>4, <1>11 DEF EntryType
    <2>2. /\ RegistryTypeOK' /\ job[r].at = "drop_prev"
          /\ Steps(r, "drop_owner", job[r].held, entry)
      BY <1>1, <1>5, <2>1, SetsIs
    <2>3. UnregisterKnows(n, r) => UnregisterGoesOn(n, r, "drop_owner", job[r].held, entry)
      BY <1>3, <2>1, <2>2 DEF UnregisterKnows, UnregistersSafely, UnregisterGoesOn
    <2> QED  BY <1>2, <1>5, <2>2, <2>3, UnregisterStepKeeps
  <1>12. CASE \E owned \in {e.owned, FALSE} :
                 Sets(r, "drop_owner", [e EXCEPT !.owned = owned], "drop_filter")
    <2>1. PICK entry \in EntryType :
            /\ entry.debugger = e.debugger /\ entry.prev = e.prev /\ (entry.owned => e.owned)
            /\ Sets(r, "drop_owner", entry, "drop_filter")
      <3>1. PICK owned \in {e.owned, FALSE} :
              Sets(r, "drop_owner", [e EXCEPT !.owned = owned], "drop_filter")
        BY <1>12
      <3>2. [e EXCEPT !.owned = owned] \in EntryType
        BY <1>3, <1>4, <3>1 DEF EntryType
      <3>3. /\ [e EXCEPT !.owned = owned].debugger = e.debugger
            /\ [e EXCEPT !.owned = owned].prev = e.prev
            /\ [e EXCEPT !.owned = owned].owned = owned
        BY <1>3 DEF EntryType
      <3>4. owned => e.owned
        BY <1>4, <3>1
      <3> QED  BY <3>1, <3>2, <3>3, <3>4
    <2>2. /\ RegistryTypeOK' /\ job[r].at = "drop_owner"
          /\ Steps(r, "drop_filter", job[r].held, entry)
      BY <1>1, <1>5, <2>1, SetsIs
    <2>3. UnregisterKnows(n, r) => UnregisterGoesOn(n, r, "drop_filter", job[r].held, entry)
      BY <1>3, <2>1, <2>2 DEF UnregisterKnows, UnregistersSafely, UnregisterGoesOn
    <2> QED  BY <1>2, <1>5, <2>2, <2>3, UnregisterStepKeeps
  <1>13. CASE /\ job[r].at = "drop_filter"
              /\ \E filter \in {e.filter, "none"} :
                    key' = [key EXCEPT ![EntryOf(r)].filter = filter]
              /\ Ends(r, "applied", FALSE)
    <2>1. PICK filter \in {e.filter, "none"} :
            key' = [key EXCEPT ![EntryOf(r)].filter = filter]
      BY <1>13
    <2>2. filter \in Apps \cup {"none"}
      BY <1>3, <2>1 DEF EntryType
    <2>3. /\ key' \in [Names -> EntryType] /\ key'[n].prev = e.prev
          /\ key'[n].debugger = e.debugger /\ key'[n].owned = e.owned
          /\ \A m \in Names : m # EntryOf(r) => key'[m] = key[m]
      BY <1>1, <1>2, <1>3, <2>1, <2>2 DEF EntryType
    <2>4. PICK entry : entry = key'[n]
      OBVIOUS
    <2>5. RegistryTypeOK' /\ Steps(r, "done", job[r].held, entry)
      <3>1. RegistryTypeOK' /\ Steps(r, "done", job[r].held, key'[EntryOf(r)])
        BY <1>1, <1>13, <2>3, EndsIs
      <3> QED  BY <1>2, <2>4, <3>1
    <2>6. UnregisterKnows(n, r) => UnregisterGoesOn(n, r, "done", job[r].held, entry)
      BY <1>3, <1>13, <2>3, <2>4 DEF UnregisterKnows, UnregistersSafely, UnregisterGoesOn
    <2> QED  BY <1>2, <1>5, <1>13, <2>5, <2>6, UnregisterStepKeeps
  <1> QED  BY <1>2, <1>3, <1>6, <1>7, <1>8, <1>9, <1>10, <1>11, <1>12, <1>13 DEF Unregister

LEMMA RegistryInitHasInv ==
  ASSUME RegistryInit
  PROVE  RegistryInv
  <1>1. \A n \in Names : /\ key[n].debugger = Debugger0[n] /\ key[n].prev = "none"
                         /\ ~key[n].owned
    BY DEF RegistryInit
  <1>2. \A r \in Requests : job[r].at = "idle"
    BY DEF RegistryInit
  <1>3. (CHOOSE a \in Apps : TRUE) \in Apps
    BY RegistrationAssumption
  <1>4. RegistryTypeOK
    <2>1. key \in [Names -> [present : BOOLEAN, debugger : Debuggers, prev : Debuggers,
                             filter : Apps \cup {"none"}, owned : BOOLEAN]]
      BY RegistrationAssumption DEF RegistryInit, Debuggers
    <2>2. job \in [Requests ->
                   [at : Running \cup {"idle", "consent", "done"}, app : Apps,
                    enabled : BOOLEAN, held : Debuggers, missed : BOOLEAN,
                    answer : {"none", "applied", "cancelled", "failed"}, said : BOOLEAN]]
      BY <1>3 DEF RegistryInit, Debuggers
    <2> QED  BY <2>1, <2>2 DEF RegistryTypeOK
  <1>5. AsAsked
    BY <1>2 DEF AsAsked, Registering, Unregistering
  <1>6. \A n \in Names, r \in Requests : ~Registers(n, r) /\ ~Unregisters(n, r)
    BY <1>2 DEF Registers, Unregisters
  <1> QED  BY <1>1, <1>4, <1>5, <1>6 DEF RegistryInv, Once, EntrySafe

LEMMA RegistryNextKeepsInv ==
  ASSUME RegistryInv, RegistryNext
  PROVE  RegistryInv'
  BY AskKeeps, ConsentKeeps, StopsKeeps, RegisterKeeps, UnregisterKeeps DEF RegistryNext

LEMMA RegistryStutterKeepsInv ==
  ASSUME RegistryInv, UNCHANGED registryVars
  PROVE  RegistryInv'
  <1>1. key' = key /\ job' = job
    BY DEF registryVars
  <1>2. \A n : (Once(n)' <=> Once(n)) /\ (EntrySafe(n)' <=> EntrySafe(n))
    BY <1>1 DEF Once, EntrySafe, Registers, Unregisters, EntryOf, Registered1, BackupNeeded,
                RegistersSafely, UnregistersSafely
  <1> QED  BY <1>1, <1>2 DEF RegistryInv, RegistryTypeOK, AsAsked

(* Registered and unregistered at most once is Once. *)
LEMMA InvKeepsForeign ==
  ASSUME RegistryInv
  PROVE  ForeignKept
  <1> SUFFICES ASSUME NEW n \in Names, Debugger0[n] = "theirs", ~Misread(n),
                      Cardinality(Begun(n, TRUE)) <= 1, Cardinality(Begun(n, FALSE)) <= 1
               PROVE  "theirs" \in {key[n].debugger, key[n].prev}
    BY DEF ForeignKept
  <1>1. \A enabled \in BOOLEAN : IsFiniteSet(Begun(n, enabled))
    <2>1. \A enabled : Begun(n, enabled) \subseteq Requests
      BY DEF Begun
    <2> QED  BY <2>1, FS_Subset, RegistrationAssumption
  <1>2. ASSUME NEW S, IsFiniteSet(S), Cardinality(S) <= 1, NEW x \in S, NEW y \in S
        PROVE  x = y
    <2>1. Cardinality(S) \in Nat
      BY <1>2, FS_CardinalityType
    <2>2. Cardinality(S) # 0
      BY <1>2, FS_EmptySet
    <2>3. Cardinality(S) = 1
      BY <1>2, <2>1, <2>2
    <2> QED  BY <1>2, <2>3, FS_Singleton
  <1>3. \A r \in Requests : job[r].enabled \in BOOLEAN
    BY RegistryTypes DEF RegistryInv, JobType
  <1>4. \A r \in Requests : /\ Registers(n, r) => r \in Begun(n, TRUE)
                            /\ Unregisters(n, r) => r \in Begun(n, FALSE)
    BY <1>3 DEF Registers, Unregisters, Begun
  <1>5. Once(n)
    BY <1>1, <1>2, <1>4 DEF Once, Misread
  <1> QED  BY <1>5 DEF RegistryInv, EntrySafe

(* Another program's Debugger survives a registration and an               *)
(* unregistration, whatever they overlap with, wherever they are cut short *)
(* and however many applications share the entry, as long as a launcher    *)
(* does not take a value it cannot read for none (registry.rs, iefo.rs).   *)
THEOREM ForeignAlwaysKept == RegistrySpec => []ForeignKept
  <1>1. RegistryInv /\ [RegistryNext]_registryVars => RegistryInv'
    BY RegistryNextKeepsInv, RegistryStutterKeepsInv
  <1> QED  BY <1>1, RegistryInitHasInv, InvKeepsForeign, PTL DEF RegistrySpec

-----------------------------------------------------------------------------
(* The launches.  The types, with the domains and the fields.              *)
InstallType == [source : Sources \cup {None}, native : BOOLEAN]
Links == Apps \cup {"absent", "elsewhere", "occupied"}
SlotType == [of : Apps \cup {None}, from : Built \cup {None, Torn}, link : Links]
RunType == [at : Places, app : Apps, packaged : BOOLEAN, path : {"plain", "unc"},
            work : Built \cup {None}, mixed : BOOLEAN, token : Apps \cup {None},
            before : SUBSET Launchers]
TargetType == [app : Apps, slot : Apps \cup {None}, token : Apps \cup {None},
               clobbered : BOOLEAN]

LaunchTypes ==
    /\ install \in [Apps -> InstallType] /\ slot \in [Apps -> SlotType]
    /\ run \in [Launchers -> RunType] /\ target \in [Launchers -> TargetType \cup {None}]
    /\ sidecar # None => sidecar \in [app : {Packaged}, token : {Packaged, None}]
    /\ updates \in 0..MaxUpdates

(* What a launcher knows by how far it has come.                           *)
Prepared == {"writing", "link", "unlinked", "session", "spawn"}
Leaving == {"leave", "activate", "wait", "attach", "clean"}

Knows(l) ==
    /\ run[l].at = "idle" => ~run[l].mixed /\ ~run[l].packaged /\ run[l].token = None
    /\ run[l].at \in {"write", "writing"} => run[l].work \in Built
    /\ run[l].at \in Prepared => slot[run[l].app].of = run[l].app
    /\ run[l].at = "spawn" => run[l].token = run[l].app
    /\ run[l].at \in Leaving => run[l].packaged
    /\ run[l].packaged => run[l].app = Packaged /\ run[l].token \in {Packaged, None}

SlotsAreTheirs ==
    \A a \in Apps : /\ slot[a].of \in {a, None}
                    /\ slot[a].link \in {a, "absent", "elsewhere", "occupied"}

(* Who may leave the archive of an application torn.                       *)
Writes(l, a) ==
    /\ run[l].app = a
    /\ run[l].at \in {"writing", "write", "gone"} \/ run[l].mixed
TornIsWritten == \A a \in Apps : slot[a].from = Torn => \E l \in Launchers : Writes(l, a)

(* Who may have left the sidecar.                                          *)
Leaves(l) ==
    run[l].packaged /\ run[l].at \in {"activate", "wait", "attach", "clean", "kept", "gone"}
SidecarIsLeft == sidecar # None => \E l \in Launchers : Leaves(l)

IsItself(t) ==
    /\ t # None /\ t.slot # None /\ ~t.clobbered =>
           t.slot = t.app /\ t.token = t.app /\ slot[t.slot].of = t.app
    /\ t # None /\ t.clobbered =>
           /\ t.slot = Packaged /\ t.token \in {Packaged, None}
           /\ \E l \in Launchers : run[l].packaged
TargetsAreThemselves == \A l \in Launchers : IsItself(target[l])

LaunchInv ==
    /\ LaunchTypes /\ \A l \in Launchers : Knows(l)
    /\ SlotsAreTheirs /\ TornIsWritten /\ SidecarIsLeft /\ TargetsAreThemselves

LEMMA LaunchConstants ==
  /\ "absent" \in Links /\ "elsewhere" \in Links /\ Apps \subseteq Links
  /\ "stub" \in Built /\ None # Torn /\ Torn \notin Built /\ None \notin Built
  /\ Built \subseteq {"stub"} \cup Sources
  /\ Packaged \in Apps
  BY LaunchAssumption DEF Links, Built

(* A launcher moves; the others stay where they are.                       *)
Moves(l, to) == run' = [run EXCEPT ![l] = to]

LEMMA MovesIs ==
  ASSUME run \in [Launchers -> RunType], NEW l \in Launchers, NEW to \in RunType, Moves(l, to)
  PROVE  /\ run' \in [Launchers -> RunType] /\ run'[l] = to
         /\ \A m \in Launchers : m # l => run'[m] = run[m]
  BY DEF Moves

LEMMA GoesIs ==
  ASSUME run \in [Launchers -> RunType], NEW l \in Launchers, NEW place \in Places,
         Goes(l, place)
  PROVE  /\ Moves(l, [run[l] EXCEPT !.at = place]) /\ run' \in [Launchers -> RunType]
         /\ [run[l] EXCEPT !.at = place] \in RunType
         /\ run'[l] = [run[l] EXCEPT !.at = place]
         /\ run'[l].at = place /\ run'[l].app = run[l].app /\ run'[l].packaged = run[l].packaged
         /\ run'[l].work = run[l].work /\ run'[l].mixed = run[l].mixed
         /\ run'[l].token = run[l].token
         /\ \A m \in Launchers : m # l => run'[m] = run[m]
  <1>1. [run[l] EXCEPT !.at = place] \in RunType
    BY DEF RunType
  <1>2. Moves(l, [run[l] EXCEPT !.at = place])
    BY DEF Goes, Moves
  <1> QED  BY <1>1, <1>2, MovesIs DEF RunType

(* What holds of the launchers that do not move: nothing a launcher knows  *)
(* is undone by another.                                                   *)
Rest(l) == \A m \in Launchers : m # l => run'[m] = run[m]
Owned == \A a \in Apps : slot[a].of = a => slot'[a].of = a

LEMMA OthersKnow ==
  ASSUME NEW l \in Launchers, Rest(l), Owned, run \in [Launchers -> RunType],
         \A m \in Launchers : Knows(m)
  PROVE  \A m \in Launchers : m # l => Knows(m)'
  <1> SUFFICES ASSUME NEW m \in Launchers, m # l
               PROVE  Knows(m)'
    OBVIOUS
  <1>1. run'[m] = run[m] /\ run[m].app \in Apps /\ Knows(m)
    BY DEF Rest, RunType
  <1>2. slot[run[m].app].of = run[m].app => slot'[run'[m].app].of = run'[m].app
    BY <1>1 DEF Owned
  <1> QED  BY <1>1, <1>2 DEF Knows

(* What a launcher may not do as it moves on: forget that it left a torn   *)
(* archive or a sidecar, or that it is packaged.                           *)
GoesOn(l) ==
    /\ run[l].packaged => run'[l].packaged
    /\ \A a \in Apps : Writes(l, a) => Writes(l, a)'
    /\ Leaves(l) => Leaves(l)'

LEMMA ClaimsKeep ==
  ASSUME NEW l \in Launchers, Rest(l), GoesOn(l)
  PROVE  /\ \A m \in Launchers : run[m].packaged => run'[m].packaged
         /\ \A m \in Launchers, a \in Apps : Writes(m, a) => Writes(m, a)'
         /\ \A m \in Launchers : Leaves(m) => Leaves(m)'
  BY DEF Rest, GoesOn, Writes, Leaves

LEMMA SlotsStay ==
  ASSUME UNCHANGED slot
  PROVE  Owned /\ (SlotsAreTheirs => SlotsAreTheirs')
  BY DEF Owned, SlotsAreTheirs

LEMMA TornStays ==
  ASSUME TornIsWritten, NEW l \in Launchers, Rest(l), GoesOn(l),
         \A a \in Apps : slot'[a].from = Torn => slot[a].from = Torn
  PROVE  TornIsWritten'
  BY ClaimsKeep DEF TornIsWritten

LEMMA SidecarStays ==
  ASSUME SidecarIsLeft, NEW l \in Launchers, Rest(l), GoesOn(l), UNCHANGED sidecar
  PROVE  SidecarIsLeft'
  BY ClaimsKeep DEF SidecarIsLeft

LEMMA TargetStays ==
  ASSUME LaunchTypes, TargetsAreThemselves, Owned,
         \A k \in Launchers : run[k].packaged => run'[k].packaged,
         NEW m \in Launchers, target'[m] = target[m]
  PROVE  IsItself(target[m])'
  <1>1. PICK t : t = target[m]
    OBVIOUS
  <1>2. IsItself(t) /\ target'[m] = t /\ (t # None => t.app \in Apps)
    BY <1>1 DEF LaunchTypes, TargetsAreThemselves, TargetType
  <1>3. t # None /\ t.clobbered => \E k \in Launchers : run'[k].packaged
    BY <1>2 DEF IsItself
  <1>4. t # None /\ t.slot # None /\ ~t.clobbered => slot'[t.slot].of = t.app
    BY <1>2 DEF IsItself, Owned
  <1> QED  BY <1>2, <1>3, <1>4 DEF IsItself

LEMMA TargetsStay ==
  ASSUME LaunchTypes, TargetsAreThemselves, Owned, UNCHANGED target,
         \A k \in Launchers : run[k].packaged => run'[k].packaged
  PROVE  TargetsAreThemselves'
  BY TargetStays DEF TargetsAreThemselves

(* A step that changes nothing but where its launcher is.                  *)
LEMMA QuietKeeps ==
  ASSUME LaunchInv, NEW l \in Launchers, NEW to \in RunType, Moves(l, to),
         UNCHANGED <<install, slot, target, sidecar, updates>>, Knows(l)', GoesOn(l)
  PROVE  LaunchInv'
  <1>1. run' \in [Launchers -> RunType] /\ Rest(l)
    BY MovesIs DEF LaunchInv, LaunchTypes, Rest
  <1>2. LaunchTypes'
    BY <1>1 DEF LaunchInv, LaunchTypes
  <1>3. Owned /\ SlotsAreTheirs'
    BY SlotsStay DEF LaunchInv
  <1>4. \A m \in Launchers : Knows(m)'
    BY <1>1, <1>3, OthersKnow DEF LaunchInv, LaunchTypes
  <1>5. TornIsWritten'
    BY <1>1, TornStays DEF LaunchInv
  <1>6. SidecarIsLeft'
    BY <1>1, SidecarStays DEF LaunchInv
  <1>7. TargetsAreThemselves'
    BY <1>1, <1>3, ClaimsKeep, TargetsStay DEF LaunchInv
  <1> QED  BY <1>2, <1>3, <1>4, <1>5, <1>6, <1>7 DEF LaunchInv

LEMMA StartKeeps ==
  ASSUME LaunchInv, NEW l \in Launchers, NEW a \in Apps, NEW spelling \in Spellings,
         Start(l, a, spelling)
  PROVE  LaunchInv'
  <1>1. run \in [Launchers -> RunType] /\ run[l] \in RunType /\ Knows(l) /\ run[l].at = "idle"
    BY DEF LaunchInv, LaunchTypes, Start
  <1>2. NormalPath(spelling) \in {"plain", "unc"}
    BY LaunchAssumption DEF NormalPath
  <1>3. PICK to \in RunType :
          /\ Moves(l, to) /\ to.at \in {"read", "write"} /\ to.mixed = run[l].mixed
          /\ to.packaged = run[l].packaged /\ to.token = run[l].token /\ to.app = a
          /\ to.at = "write" => to.work = "stub"
    <2>1. CASE run' = [run EXCEPT ![l].at = "read", ![l].app = a, ![l].path = NormalPath(spelling)]
      <3> DEFINE to == [run[l] EXCEPT !.at = "read", !.app = a, !.path = NormalPath(spelling)]
      <3>1. to \in RunType /\ to.at = "read" /\ to.mixed = run[l].mixed
            /\ to.packaged = run[l].packaged /\ to.token = run[l].token /\ to.app = a
        BY <1>1, <1>2 DEF RunType, Places
      <3>2. Moves(l, to)
        BY <1>1, <2>1 DEF Moves
      <3> HIDE DEF to
      <3> QED  BY <3>1, <3>2
    <2>2. CASE run' = [run EXCEPT ![l].at = "write", ![l].app = a,
                                  ![l].path = NormalPath(spelling), ![l].work = "stub"]
      <3> DEFINE to == [run[l] EXCEPT !.at = "write", !.app = a, !.path = NormalPath(spelling),
                                      !.work = "stub"]
      <3>1. to \in RunType /\ to.at = "write" /\ to.mixed = run[l].mixed /\ to.work = "stub"
            /\ to.packaged = run[l].packaged /\ to.token = run[l].token /\ to.app = a
        BY <1>1, <1>2, LaunchConstants DEF RunType, Places
      <3>2. Moves(l, to)
        BY <1>1, <2>2 DEF Moves
      <3> HIDE DEF to
      <3> QED  BY <3>1, <3>2
    <2> QED  BY <2>1, <2>2 DEF Start
  <1>4. run'[l] = to
    BY <1>1, <1>3, MovesIs
  <1>5. Knows(l)' /\ GoesOn(l)
    BY <1>1, <1>3, <1>4, LaunchConstants DEF Knows, GoesOn, Writes, Leaves, Prepared, Leaving
  <1> QED  BY <1>3, <1>5, QuietKeeps DEF Start

LEMMA StartPackagedKeeps ==
  ASSUME LaunchInv, NEW l \in Launchers, StartPackaged(l)
  PROVE  LaunchInv'
  <1>1. run \in [Launchers -> RunType] /\ run[l] \in RunType /\ Knows(l) /\ run[l].at = "idle"
    BY DEF LaunchInv, LaunchTypes, StartPackaged
  <1> DEFINE to == [run[l] EXCEPT !.at = "read", !.app = Packaged, !.packaged = TRUE]
  <1>2. /\ to \in RunType /\ to.at = "read" /\ to.mixed = run[l].mixed /\ to.packaged
        /\ to.token = run[l].token /\ to.app = Packaged
    BY <1>1, LaunchConstants DEF RunType, Places
  <1>3. Moves(l, to)
    BY <1>1 DEF StartPackaged, Moves
  <1> HIDE DEF to
  <1>4. run'[l] = to
    BY <1>1, <1>2, <1>3, MovesIs
  <1>5. Knows(l)' /\ GoesOn(l)
    BY <1>1, <1>2, <1>4 DEF Knows, GoesOn, Writes, Leaves, Prepared, Leaving
  <1> QED  BY <1>2, <1>3, <1>5, QuietKeeps DEF StartPackaged

(* Read and WriteFails send it to write, with something that can be built. *)
LEMMA ToWriteKeeps ==
  ASSUME LaunchInv, NEW l \in Launchers, NEW work \in Built,
         run[l].at \in {"read", "write", "writing"},
         run' = [run EXCEPT ![l].at = "write", ![l].work = work],
         UNCHANGED <<install, slot, target, sidecar, updates>>
  PROVE  LaunchInv'
  <1>1. run \in [Launchers -> RunType] /\ run[l] \in RunType /\ Knows(l)
    BY DEF LaunchInv, LaunchTypes
  <1> DEFINE to == [run[l] EXCEPT !.at = "write", !.work = work]
  <1>2. /\ to \in RunType /\ to.at = "write" /\ to.mixed = run[l].mixed /\ to.work = work
        /\ to.packaged = run[l].packaged /\ to.token = run[l].token /\ to.app = run[l].app
    BY <1>1 DEF RunType, Places
  <1>3. Moves(l, to)
    BY <1>1 DEF Moves
  <1> HIDE DEF to
  <1>4. run'[l] = to
    BY <1>1, <1>2, <1>3, MovesIs
  <1>5. Knows(l)' /\ GoesOn(l)
    BY <1>1, <1>2, <1>4 DEF Knows, GoesOn, Writes, Leaves, Prepared, Leaving
  <1> QED  BY <1>2, <1>3, <1>5, QuietKeeps

LEMMA ReadKeeps ==
  ASSUME LaunchInv, NEW l \in Launchers, Read(l)
  PROVE  LaunchInv'
  <1>1. install[run[l].app].source \in Sources \cup {None}
    BY DEF LaunchInv, LaunchTypes, RunType, InstallType
  <1>2. PICK work \in Built : run' = [run EXCEPT ![l].at = "write", ![l].work = work]
    BY <1>1, LaunchConstants DEF Read, Built
  <1> QED  BY <1>2, ToWriteKeeps DEF Read

LEMMA WriteFailsKeeps ==
  ASSUME LaunchInv, NEW l \in Launchers, WriteFails(l)
  PROVE  LaunchInv'
  BY ToWriteKeeps, LaunchConstants DEF WriteFails

(* A launcher goes on with nothing but its place changed. *)
LEMMA GoesKeeps ==
  ASSUME LaunchInv, NEW l \in Launchers, NEW place \in Places, Goes(l, place),
         UNCHANGED <<install, slot, target, sidecar, updates>>, Knows(l)', GoesOn(l)
  PROVE  LaunchInv'
  <1>1. Moves(l, [run[l] EXCEPT !.at = place]) /\ [run[l] EXCEPT !.at = place] \in RunType
    BY GoesIs DEF LaunchInv, LaunchTypes
  <1> QED  BY <1>1, QuietKeeps

LEMMA LinkPassesKeeps ==
  ASSUME LaunchInv, NEW l \in Launchers, LinkPasses(l)
  PROVE  LaunchInv'
  <1>1. /\ run'[l].at = "session" /\ run'[l].app = run[l].app
        /\ run'[l].packaged = run[l].packaged /\ run'[l].mixed = run[l].mixed
        /\ run'[l].token = run[l].token
    BY GoesIs DEF LaunchInv, LaunchTypes, LinkPasses, Places
  <1>2. Knows(l) /\ run[l].at \in {"link", "unlinked"} /\ slot' = slot
    BY DEF LaunchInv, LinkPasses
  <1>3. Knows(l)' /\ GoesOn(l)
    BY <1>1, <1>2 DEF Knows, GoesOn, Writes, Leaves, Prepared, Leaving
  <1> QED  BY <1>3, GoesKeeps DEF LinkPasses, Places

LEMMA DiesKeeps ==
  ASSUME LaunchInv, NEW l \in Launchers, Dies(l)
  PROVE  LaunchInv'
  <1>1. /\ run'[l].at = "gone" /\ run'[l].app = run[l].app
        /\ run'[l].packaged = run[l].packaged /\ run'[l].mixed = run[l].mixed
        /\ run'[l].token = run[l].token
    BY GoesIs DEF LaunchInv, LaunchTypes, Dies, Places
  <1>2. Knows(l)
    BY DEF LaunchInv
  <1>3. Knows(l)' /\ GoesOn(l)
    BY <1>1, <1>2 DEF Knows, GoesOn, Writes, Leaves, Prepared, Leaving
  <1> QED  BY <1>3, GoesKeeps DEF Dies, Places

LEMMA SessionKeeps ==
  ASSUME LaunchInv, NEW l \in Launchers, Session(l)
  PROVE  LaunchInv'
  <1>1. /\ run \in [Launchers -> RunType] /\ run[l] \in RunType /\ Knows(l) /\ slot' = slot
        /\ run[l].at = "session"
    BY DEF LaunchInv, LaunchTypes, Session
  <1>2. CASE run[l].packaged /\ Goes(l, "leave")
    <2>1. /\ run'[l].at = "leave" /\ run'[l].app = run[l].app
          /\ run'[l].packaged = run[l].packaged /\ run'[l].mixed = run[l].mixed
          /\ run'[l].token = run[l].token
      BY <1>1, <1>2, GoesIs DEF Places
    <2>2. Knows(l)' /\ GoesOn(l)
      BY <1>1, <1>2, <2>1 DEF Knows, GoesOn, Writes, Leaves, Prepared, Leaving
    <2> QED  BY <1>2, <2>2, GoesKeeps DEF Session, Places
  <1>3. CASE run' = [run EXCEPT ![l].at = IF run[l].packaged THEN "leave" ELSE "spawn",
                                ![l].token = run[l].app]
    <2> DEFINE place == IF run[l].packaged THEN "leave" ELSE "spawn"
               to == [run[l] EXCEPT !.at = place, !.token = run[l].app]
    <2>1. /\ to \in RunType /\ to.at = place /\ to.mixed = run[l].mixed
          /\ to.packaged = run[l].packaged /\ to.token = run[l].app /\ to.app = run[l].app
      BY <1>1 DEF RunType, Places
    <2>2. Moves(l, to)
      BY <1>1, <1>3 DEF Moves
    <2> HIDE DEF to
    <2>3. run'[l] = to
      BY <1>1, <2>1, <2>2, MovesIs
    <2>4. Knows(l)' /\ GoesOn(l)
      BY <1>1, <2>1, <2>3 DEF Knows, GoesOn, Writes, Leaves, Prepared, Leaving
    <2> QED  BY <2>1, <2>2, <2>4, QuietKeeps DEF Session
  <1> QED  BY <1>2, <1>3 DEF Session

LEMMA SnapshotKeeps ==
  ASSUME LaunchInv, NEW l \in Launchers, Snapshot(l)
  PROVE  LaunchInv'
  <1>1. /\ run \in [Launchers -> RunType] /\ run[l] \in RunType /\ Knows(l) /\ slot' = slot
        /\ run[l].at = "activate"
    BY DEF LaunchInv, LaunchTypes, Snapshot
  <1> DEFINE to == [run[l] EXCEPT !.at = "wait", !.before = Instances]
  <1>2. /\ to \in RunType /\ to.at = "wait" /\ to.mixed = run[l].mixed
        /\ to.packaged = run[l].packaged /\ to.token = run[l].token /\ to.app = run[l].app
    <2>1. Instances \in SUBSET Launchers
      BY DEF Instances
    <2> QED  BY <1>1, <2>1 DEF RunType, Places
  <1>3. Moves(l, to)
    BY <1>1 DEF Moves, Snapshot
  <1> HIDE DEF to
  <1>4. run'[l] = to
    BY <1>1, <1>2, <1>3, MovesIs
  <1>5. Knows(l)' /\ GoesOn(l)
    BY <1>1, <1>2, <1>4 DEF Knows, GoesOn, Writes, Leaves, Prepared, Leaving
  <1> QED  BY <1>2, <1>3, <1>5, QuietKeeps DEF Snapshot

(* The writers.  A slot in which l writes becomes its application's.       *)
LEMMA SlotIs ==
  ASSUME slot \in [Apps -> SlotType], NEW a \in Apps, NEW rec \in SlotType,
         slot' = [slot EXCEPT ![a] = rec]
  PROVE  /\ slot' \in [Apps -> SlotType] /\ slot'[a] = rec
         /\ \A b \in Apps : b # a => slot'[b] = slot[b]
  OBVIOUS

Filled(s, a, from) == [s EXCEPT !.of = a, !.from = from]

LEMMA FilledIs ==
  ASSUME NEW s \in SlotType, NEW a \in Apps, NEW from \in Built \cup {Torn}
  PROVE  /\ Filled(s, a, from) \in SlotType /\ Filled(s, a, from).of = a
         /\ Filled(s, a, from).from = from /\ Filled(s, a, from).link = s.link
  BY DEF SlotType, Filled

LEMMA WriteBeginsKeeps ==
  ASSUME LaunchInv, NEW l \in Launchers, WriteBegins(l)
  PROVE  LaunchInv'
  <1>1. /\ run \in [Launchers -> RunType] /\ run[l] \in RunType /\ run[l].app \in Apps
        /\ Knows(l) /\ run[l].at = "write" /\ slot \in [Apps -> SlotType]
    BY DEF LaunchInv, LaunchTypes, RunType, WriteBegins
  <1>2. PICK a \in Apps : a = run[l].app
    BY <1>1
  <1>3. PICK rec \in SlotType : /\ rec.of = a /\ rec.link = slot[a].link
                                /\ slot' = [slot EXCEPT ![a] = rec]
    <2>1. slot' = [slot EXCEPT ![a] = Filled(slot[a], a, Torn)]
      BY <1>1, <1>2 DEF WriteBegins, Slot, CacheId, Filled
    <2>2. slot[a] \in SlotType
      BY <1>1
    <2>3. PICK rec : rec = Filled(slot[a], a, Torn)
      OBVIOUS
    <2>4. rec \in SlotType /\ rec.of = a /\ rec.link = slot[a].link
      BY <2>2, <2>3, FilledIs
    <2> QED  BY <2>1, <2>3, <2>4
  <1> DEFINE to == [run[l] EXCEPT !.at = "writing", !.mixed = Writers(l) # {}]
  <1>4. /\ to \in RunType /\ to.at = "writing" /\ to.app = a /\ to.work = run[l].work
        /\ to.packaged = run[l].packaged /\ to.token = run[l].token
    BY <1>1, <1>2 DEF RunType, Places
  <1>5. /\ run' = [m \in Launchers |-> run'[m]] /\ run'[l] = to
        /\ \A m \in Launchers : m # l =>
              run'[m] = [run[m] EXCEPT !.mixed = run[m].mixed \/ m \in Writers(l)]
    BY DEF WriteBegins
  <1> HIDE DEF to
  <1>6. \A m \in Launchers : m # l =>
          /\ run'[m] \in RunType /\ run'[m].at = run[m].at /\ run'[m].app = run[m].app
          /\ run'[m].packaged = run[m].packaged /\ run'[m].work = run[m].work
          /\ run'[m].token = run[m].token /\ (run[m].mixed => run'[m].mixed)
          /\ (run[m].at = "idle" => (run'[m].mixed <=> run[m].mixed))
    <2> SUFFICES ASSUME NEW m \in Launchers, m # l
                 PROVE  /\ run'[m] \in RunType /\ run'[m].at = run[m].at
                        /\ run'[m].app = run[m].app
                        /\ run'[m].packaged = run[m].packaged /\ run'[m].work = run[m].work
                        /\ run'[m].token = run[m].token /\ (run[m].mixed => run'[m].mixed)
                        /\ (run[m].at = "idle" => (run'[m].mixed <=> run[m].mixed))
      OBVIOUS
    <2>1. run[m] \in RunType
      BY <1>1
    <2>2. run'[m] = [run[m] EXCEPT !.mixed = run[m].mixed \/ m \in Writers(l)]
      BY <1>5
    <2>3. run[m].at = "idle" => m \notin Writers(l)
      BY DEF Writers
    <2> QED  BY <2>1, <2>2, <2>3 DEF RunType
  <1>7. run' \in [Launchers -> RunType] /\ run'[l] = to
    BY <1>4, <1>5, <1>6
  <1>8. /\ slot' \in [Apps -> SlotType] /\ slot'[a].of = a /\ slot'[a].link = slot[a].link
        /\ \A b \in Apps : b # a => slot'[b] = slot[b]
    BY <1>1, <1>3, SlotIs
  <1>9. LaunchTypes'
    BY <1>7, <1>8 DEF LaunchInv, LaunchTypes, WriteBegins
  <1>10. Owned /\ SlotsAreTheirs'
    BY <1>8 DEF LaunchInv, Owned, SlotsAreTheirs
  <1>11. ASSUME NEW m \in Launchers
         PROVE  Knows(m)'
    <2>1. CASE m = l
      BY <1>1, <1>4, <1>7, <1>8, <1>2, <2>1 DEF Knows, Prepared, Leaving
    <2>2. CASE m # l
      <3>1. Knows(m) /\ run[m].app \in Apps
        BY <1>1 DEF LaunchInv, RunType
      <3>2. slot[run[m].app].of = run[m].app => slot'[run'[m].app].of = run'[m].app
        BY <1>6, <1>10, <2>2, <3>1 DEF Owned
      <3> QED  BY <1>6, <2>2, <3>1, <3>2 DEF Knows
    <2> QED  BY <2>1, <2>2
  <1>12. /\ \A m \in Launchers : run[m].packaged => run'[m].packaged
         /\ \A m \in Launchers, b \in Apps : Writes(m, b) => Writes(m, b)'
         /\ \A m \in Launchers : Leaves(m) => Leaves(m)'
    BY <1>1, <1>2, <1>4, <1>6, <1>7 DEF Writes, Leaves
  <1>13. TornIsWritten'
    <2>1. Writes(l, a)'
      BY <1>4, <1>7 DEF Writes
    <2> QED  BY <1>8, <1>12, <2>1 DEF LaunchInv, TornIsWritten
  <1>14. SidecarIsLeft'
    BY <1>12 DEF LaunchInv, SidecarIsLeft, WriteBegins
  <1>15. TargetsAreThemselves'
    BY <1>10, <1>12, TargetsStay DEF LaunchInv, WriteBegins
  <1> QED  BY <1>9, <1>10, <1>11, <1>13, <1>14, <1>15 DEF LaunchInv

(* A step of one launcher in its own slot. *)
LEMMA SlotStepKeeps ==
  ASSUME LaunchInv, NEW l \in Launchers, NEW place \in Places, Goes(l, place),
         UNCHANGED <<install, target, sidecar, updates>>, NEW a, a = run[l].app,
         NEW rec \in SlotType, slot' = [slot EXCEPT ![a] = rec],
         rec.of \in {slot[a].of, a}, rec.link \in {slot[a].link, a, "absent"},
         rec.from # Torn \/ (GoesOn(l) /\ slot[a].from = Torn) \/ run[l].mixed,
         Knows(l)', ~run[l].packaged \/ run'[l].packaged, Leaves(l) => Leaves(l)',
         \A b \in Apps : b # a /\ Writes(l, b) => Writes(l, b)'
  PROVE  LaunchInv'
  <1>1. /\ run' \in [Launchers -> RunType] /\ Rest(l) /\ a \in Apps
        /\ run'[l].app = run[l].app /\ run'[l].mixed = run[l].mixed
    BY GoesIs DEF LaunchInv, LaunchTypes, Rest, RunType
  <1>2. /\ slot' \in [Apps -> SlotType] /\ slot'[a] = rec
        /\ \A b \in Apps : b # a => slot'[b] = slot[b]
    BY <1>1, SlotIs DEF LaunchInv, LaunchTypes
  <1>3. LaunchTypes'
    BY <1>1, <1>2 DEF LaunchInv, LaunchTypes
  <1>4. Owned /\ SlotsAreTheirs'
    BY <1>1, <1>2 DEF LaunchInv, Owned, SlotsAreTheirs
  <1>5. \A m \in Launchers : Knows(m)'
    BY <1>1, <1>4, OthersKnow DEF LaunchInv, LaunchTypes
  <1>6. TornIsWritten'
    <2> SUFFICES ASSUME NEW b \in Apps, slot'[b].from = Torn
                 PROVE  \E m \in Launchers : Writes(m, b)'
      BY DEF TornIsWritten
    <2>1. \A m \in Launchers : m # l /\ Writes(m, b) => Writes(m, b)'
      BY <1>1 DEF Rest, Writes
    <2>2. CASE b # a
      <3>1. PICK m \in Launchers : Writes(m, b)
        BY <1>2, <2>2 DEF LaunchInv, TornIsWritten
      <3> QED  BY <2>1, <2>2, <3>1
    <2>3. CASE b = a /\ run[l].mixed
      BY <1>1, <2>3 DEF Writes
    <2>4. CASE b = a /\ ~run[l].mixed
      <3>1. GoesOn(l) /\ slot[a].from = Torn
        BY <1>2, <2>4
      <3>2. PICK m \in Launchers : Writes(m, b)
        BY <1>1, <2>4, <3>1 DEF LaunchInv, TornIsWritten
      <3> QED  BY <2>1, <3>1, <3>2 DEF GoesOn
    <2> QED  BY <2>2, <2>3, <2>4
  <1>7. \A m \in Launchers : /\ run[m].packaged => run'[m].packaged
                             /\ Leaves(m) => Leaves(m)'
    BY <1>1 DEF Rest, Leaves
  <1>8. SidecarIsLeft'
    BY <1>7 DEF LaunchInv, SidecarIsLeft
  <1>9. TargetsAreThemselves'
    BY <1>4, <1>7, TargetsStay DEF LaunchInv
  <1> QED  BY <1>3, <1>4, <1>5, <1>6, <1>8, <1>9 DEF LaunchInv

(* Where a launcher goes, as facts. *)
LEMMA GoesFacts ==
  ASSUME LaunchInv, NEW l \in Launchers, NEW place \in Places, Goes(l, place)
  PROVE  /\ run' \in [Launchers -> RunType] /\ Rest(l) /\ Knows(l)
         /\ run'[l].at = place /\ run'[l].app = run[l].app /\ run'[l].packaged = run[l].packaged
         /\ run'[l].work = run[l].work /\ run'[l].mixed = run[l].mixed
         /\ run'[l].token = run[l].token
         /\ run[l].app \in Apps /\ run[l].work \in Built \cup {None}
  <1>1. run \in [Launchers -> RunType] /\ run[l] \in RunType /\ Knows(l)
    BY DEF LaunchInv, LaunchTypes
  <1>2. /\ run' \in [Launchers -> RunType]
        /\ run'[l].at = place /\ run'[l].app = run[l].app /\ run'[l].packaged = run[l].packaged
        /\ run'[l].work = run[l].work /\ run'[l].mixed = run[l].mixed
        /\ run'[l].token = run[l].token
        /\ \A m \in Launchers : m # l => run'[m] = run[m]
    BY <1>1, GoesIs
  <1> QED  BY <1>1, <1>2 DEF Rest, RunType

LEMMA WriteEndsKeeps ==
  ASSUME LaunchInv, NEW l \in Launchers, WriteEnds(l)
  PROVE  LaunchInv'
  <1>1. PICK place \in {"session", "link"} :
          place = IF run[l].work = "stub" THEN "session" ELSE "link"
    OBVIOUS
  <1>2. Goes(l, place) /\ place \in Places /\ run[l].at = "writing"
    BY <1>1 DEF WriteEnds, Places
  <1>3. /\ Rest(l) /\ Knows(l) /\ run'[l].at = place /\ run'[l].app = run[l].app
        /\ run'[l].packaged = run[l].packaged /\ run'[l].mixed = run[l].mixed
        /\ run'[l].token = run[l].token /\ run[l].app \in Apps
    BY <1>2, GoesFacts
  <1>4. PICK a \in Apps : a = run[l].app
    BY <1>3
  <1>5. slot \in [Apps -> SlotType] /\ slot[a] \in SlotType /\ slot[a].of = a
    BY <1>2, <1>3, <1>4 DEF LaunchInv, LaunchTypes, Knows, Prepared
  <1>6. PICK rec \in SlotType : /\ rec.of = a /\ rec.link = slot[a].link
                                /\ rec.from # Torn \/ run[l].mixed
                                /\ slot' = [slot EXCEPT ![a] = rec]
    <2>1. CASE slot' = [slot EXCEPT ![Slot(l)] = [@ EXCEPT !.of = run[l].app, !.from = run[l].work]]
      <3>1. PICK work \in Built : work = run[l].work
        BY <1>2, <1>3 DEF Knows
      <3>2. slot' = [slot EXCEPT ![a] = Filled(slot[a], a, work)]
        BY <1>4, <2>1, <3>1 DEF Slot, CacheId, Filled
      <3>3. PICK rec : rec = Filled(slot[a], a, work)
        OBVIOUS
      <3>4. rec \in SlotType /\ rec.of = a /\ rec.link = slot[a].link /\ rec.from = work
        BY <1>5, <3>3, FilledIs
      <3>5. work # Torn
        BY LaunchConstants
      <3> QED  BY <3>2, <3>3, <3>4, <3>5
    <2>2. CASE run[l].mixed /\ slot' = [slot EXCEPT ![Slot(l)].from = Torn]
      <3>1. slot' = [slot EXCEPT ![a].from = Torn]
        BY <1>4, <2>2 DEF Slot, CacheId
      <3>2. slot' = [slot EXCEPT ![a] = [slot[a] EXCEPT !.from = Torn]]
        BY <3>1
      <3>3. /\ [slot[a] EXCEPT !.from = Torn] \in SlotType
            /\ [slot[a] EXCEPT !.from = Torn].of = a
            /\ [slot[a] EXCEPT !.from = Torn].link = slot[a].link
        BY <1>5 DEF SlotType
      <3> QED  BY <2>2, <3>2, <3>3
    <2> QED  BY <2>1, <2>2 DEF WriteEnds
  <1>7. Knows(l)'
    <2>1. slot'[a].of = a
      BY <1>5, <1>6
    <2> QED  BY <1>2, <1>3, <1>4, <2>1 DEF Knows, Leaving
  <1>8. /\ Leaves(l) => Leaves(l)'
        /\ \A b \in Apps : b # a /\ Writes(l, b) => Writes(l, b)'
    BY <1>2, <1>4 DEF Leaves, Writes
  <1> QED  BY <1>2, <1>3, <1>4, <1>6, <1>7, <1>8, SlotStepKeeps DEF WriteEnds

(* The link beside the archive: removed, or made to lead into the app.     *)
LEMMA LinkStepKeeps ==
  ASSUME LaunchInv, NEW l \in Launchers, NEW place \in {"unlinked", "session"}, Goes(l, place),
         run[l].at \in {"link", "unlinked"}, NEW link, link \in {run[l].app, "absent"},
         SetLink(l, link), UNCHANGED <<install, target, sidecar, updates>>
  PROVE  LaunchInv'
  <1>1. place \in Places
    BY DEF Places
  <1>2. /\ Rest(l) /\ Knows(l) /\ run'[l].at = place /\ run'[l].app = run[l].app
        /\ run'[l].packaged = run[l].packaged /\ run'[l].mixed = run[l].mixed
        /\ run'[l].token = run[l].token /\ run[l].app \in Apps
    BY <1>1, GoesFacts
  <1>3. PICK a \in Apps : a = run[l].app
    BY <1>2
  <1>4. slot \in [Apps -> SlotType] /\ slot[a] \in SlotType /\ slot[a].of = a
    BY <1>2, <1>3 DEF LaunchInv, LaunchTypes, Knows, Prepared
  <1>5. link \in Links
    BY <1>2, LaunchConstants
  <1>6. PICK rec \in SlotType : /\ rec.of = a /\ rec.link = link /\ rec.from = slot[a].from
                                /\ slot' = [slot EXCEPT ![a] = rec]
    <2>1. slot' = [slot EXCEPT ![a].link = link]
      BY <1>3 DEF SetLink, Slot, CacheId
    <2>2. slot' = [slot EXCEPT ![a] = [slot[a] EXCEPT !.link = link]]
      BY <2>1
    <2>3. /\ [slot[a] EXCEPT !.link = link] \in SlotType
          /\ [slot[a] EXCEPT !.link = link].of = a
          /\ [slot[a] EXCEPT !.link = link].link = link
          /\ [slot[a] EXCEPT !.link = link].from = slot[a].from
      BY <1>4, <1>5 DEF SlotType
    <2> QED  BY <2>2, <2>3
  <1>7. Knows(l)'
    <2>1. slot'[a].of = a
      BY <1>4, <1>6
    <2> QED  BY <1>2, <1>3, <2>1 DEF Knows, Leaving
  <1>8. GoesOn(l) /\ \A b \in Apps : Writes(l, b) => Writes(l, b)'
    BY <1>2 DEF GoesOn, Leaves, Writes
  <1> QED  BY <1>1, <1>2, <1>3, <1>6, <1>7, <1>8, SlotStepKeeps DEF GoesOn

LEMMA RemoveLinkKeeps ==
  ASSUME LaunchInv, NEW l \in Launchers, RemoveLink(l)
  PROVE  LaunchInv'
  BY LinkStepKeeps DEF RemoveLink

LEMMA CreateLinkKeeps ==
  ASSUME LaunchInv, NEW l \in Launchers, CreateLink(l)
  PROVE  LaunchInv'
  BY LinkStepKeeps DEF CreateLink

(* The targets.  What a process has once the DLL is loaded.                *)
LEMMA InjectedIs ==
  ASSUME LaunchInv, NEW a \in Apps, NEW s, NEW token,
         \/ s = None /\ token = None
         \/ s = a /\ token = a /\ slot[a].of = a
  PROVE  Injected(a, s, token) \in TargetType /\ IsItself(Injected(a, s, token))
  <1>1. PICK t : t = Injected(a, s, token)
    OBVIOUS
  <1>2. CASE sidecar = None
    <2>1. t = [app |-> a, slot |-> s, token |-> token, clobbered |-> FALSE]
      BY <1>1, <1>2 DEF Injected
    <2>2. /\ t \in TargetType /\ t.app = a /\ t.slot = s /\ t.token = token /\ ~t.clobbered
      BY <2>1 DEF TargetType
    <2>3. IsItself(t)
      BY <2>2 DEF IsItself
    <2> QED  BY <1>1, <2>2, <2>3
  <1>3. CASE sidecar # None
    <2>1. sidecar.app = Packaged /\ sidecar.token \in {Packaged, None} /\ Packaged \in Apps
      BY <1>3, LaunchConstants DEF LaunchInv, LaunchTypes
    <2>2. t = [app |-> a, slot |-> Packaged, token |-> sidecar.token, clobbered |-> TRUE]
      BY <1>1, <1>3, <2>1 DEF Injected, CacheId
    <2>3. t \in TargetType /\ t.slot = Packaged /\ t.token \in {Packaged, None} /\ t.clobbered
      BY <2>1, <2>2 DEF TargetType
    <2>4. \E m \in Launchers : run[m].packaged
      BY <1>3 DEF LaunchInv, SidecarIsLeft, Leaves
    <2>5. IsItself(t)
      BY <2>3, <2>4 DEF IsItself
    <2> QED  BY <1>1, <2>3, <2>5
  <1> QED  BY <1>2, <1>3

LEMMA ItselfStays ==
  ASSUME NEW t, IsItself(t), t # None => t.app \in Apps, Owned,
         \A k \in Launchers : run[k].packaged => run'[k].packaged,
         NEW m, target'[m] = t
  PROVE  IsItself(target[m])'
  <1>1. t # None /\ t.clobbered => \E k \in Launchers : run'[k].packaged
    BY DEF IsItself
  <1>2. t # None /\ t.slot # None /\ ~t.clobbered => slot'[t.slot].of = t.app
    BY DEF IsItself, Owned
  <1> QED  BY <1>1, <1>2 DEF IsItself

(* A step of a launcher that changes one target. *)
LEMMA TargetStepKeeps ==
  ASSUME LaunchInv, NEW l \in Launchers, NEW place \in Places, Goes(l, place),
         UNCHANGED <<install, slot, sidecar, updates>>, Knows(l)', GoesOn(l),
         NEW m \in Launchers, NEW t \in TargetType, IsItself(t),
         target' = [target EXCEPT ![m] = t]
  PROVE  LaunchInv'
  <1>1. run' \in [Launchers -> RunType] /\ Rest(l)
    BY GoesFacts
  <1>2. target \in [Launchers -> TargetType \cup {None}]
    BY DEF LaunchInv, LaunchTypes
  <1>3. /\ target' \in [Launchers -> TargetType \cup {None}] /\ target'[m] = t
        /\ \A k \in Launchers : k # m => target'[k] = target[k]
    BY <1>2
  <1>4. LaunchTypes'
    BY <1>1, <1>3 DEF LaunchInv, LaunchTypes
  <1>5. Owned /\ SlotsAreTheirs'
    BY SlotsStay DEF LaunchInv
  <1>6. \A k \in Launchers : Knows(k)'
    BY <1>1, <1>5, OthersKnow DEF LaunchInv, LaunchTypes
  <1>7. TornIsWritten' /\ SidecarIsLeft'
    BY <1>1, TornStays, SidecarStays DEF LaunchInv
  <1>8. \A k \in Launchers : run[k].packaged => run'[k].packaged
    BY <1>1, ClaimsKeep
  <1>9. ASSUME NEW k \in Launchers
        PROVE  IsItself(target[k])'
    <2>1. CASE k = m
      <3>1. t.app \in Apps
        BY DEF TargetType
      <3> QED  BY <1>3, <1>5, <1>8, <2>1, <3>1, ItselfStays
    <2>2. CASE k # m
      BY <1>3, <1>5, <1>8, <2>2, TargetStays DEF LaunchInv
    <2> QED  BY <2>1, <2>2
  <1> QED  BY <1>4, <1>5, <1>6, <1>7, <1>9 DEF LaunchInv, TargetsAreThemselves

LEMMA SpawnKeeps ==
  ASSUME LaunchInv, NEW l \in Launchers, Spawn(l)
  PROVE  LaunchInv'
  <1>1. Goes(l, "ok") /\ "ok" \in Places /\ run[l].at = "spawn" /\ slot' = slot
    BY DEF Spawn, Places
  <1>2. /\ Knows(l) /\ run'[l].at = "ok" /\ run'[l].app = run[l].app
        /\ run'[l].packaged = run[l].packaged /\ run'[l].mixed = run[l].mixed
        /\ run'[l].token = run[l].token /\ run[l].app \in Apps
    BY <1>1, GoesFacts
  <1>3. Knows(l)' /\ GoesOn(l)
    BY <1>1, <1>2 DEF Knows, GoesOn, Writes, Leaves, Prepared, Leaving
  <1>4. PICK t : t = Injected(run[l].app, Slot(l), run[l].token)
    OBVIOUS
  <1>5. t \in TargetType /\ IsItself(t)
    <2>1. Slot(l) = run[l].app /\ run[l].token = run[l].app /\ slot[run[l].app].of = run[l].app
      BY <1>1, <1>2 DEF Knows, Prepared, Slot, CacheId
    <2> QED  BY <1>2, <1>4, <2>1, InjectedIs
  <1>6. target' = [target EXCEPT ![l] = t]
    BY <1>4 DEF Spawn
  <1> QED  BY <1>1, <1>3, <1>5, <1>6, TargetStepKeeps DEF Spawn

LEMMA ActivatedKeeps ==
  ASSUME LaunchInv, NEW l \in Launchers, Activated(l)
  PROVE  LaunchInv'
  <1>1. Goes(l, "attach") /\ "attach" \in Places /\ run[l].at = "wait" /\ slot' = slot
    BY DEF Activated, Places
  <1>2. /\ Knows(l) /\ run'[l].at = "attach" /\ run'[l].app = run[l].app
        /\ run'[l].packaged = run[l].packaged /\ run'[l].mixed = run[l].mixed
        /\ run'[l].token = run[l].token
    BY <1>1, GoesFacts
  <1>3. Knows(l)' /\ GoesOn(l)
    BY <1>1, <1>2 DEF Knows, GoesOn, Writes, Leaves, Prepared, Leaving
  <1>4. CASE UNCHANGED target
    BY <1>1, <1>3, <1>4, GoesKeeps DEF Activated
  <1>5. CASE target' = [target EXCEPT ![l] = [app |-> Packaged, slot |-> None, token |-> None,
                                              clobbered |-> FALSE]]
    <2>1. PICK t : t = [app |-> Packaged, slot |-> None, token |-> None, clobbered |-> FALSE]
      OBVIOUS
    <2>2. t \in TargetType /\ t.slot = None /\ ~t.clobbered
      BY <2>1, LaunchConstants DEF TargetType
    <2>3. IsItself(t)
      BY <2>2 DEF IsItself
    <2>4. target' = [target EXCEPT ![l] = t]
      BY <1>5, <2>1
    <2> QED  BY <1>1, <1>3, <2>2, <2>3, <2>4, TargetStepKeeps DEF Activated
  <1> QED  BY <1>4, <1>5 DEF Activated

LEMMA AttachKeeps ==
  ASSUME LaunchInv, NEW l \in Launchers, NEW m \in Launchers, NEW noticed \in BOOLEAN,
         Attach(l, m, noticed)
  PROVE  LaunchInv'
  <1>1. PICK place \in {"clean", "gone"} : place = IF noticed THEN "clean" ELSE "gone"
    OBVIOUS
  <1>2. Goes(l, place) /\ place \in Places /\ run[l].at = "attach" /\ slot' = slot
    BY <1>1 DEF Attach, Places
  <1>3. /\ Knows(l) /\ run'[l].at = place /\ run'[l].app = run[l].app
        /\ run'[l].packaged = run[l].packaged /\ run'[l].mixed = run[l].mixed
        /\ run'[l].token = run[l].token
    BY <1>2, GoesFacts
  <1>4. Knows(l)' /\ GoesOn(l)
    BY <1>2, <1>3 DEF Knows, GoesOn, Writes, Leaves, Prepared, Leaving
  <1>5. target[m] \in TargetType /\ target[m].app \in Apps /\ IsItself(target[m])
    <2>1. target[m] # None
      BY DEF Attach, Instances
    <2> QED  BY <2>1 DEF LaunchInv, LaunchTypes, TargetsAreThemselves, TargetType
  <1>6. PICK t : t = IF target[m].slot # None THEN target[m]
                     ELSE Injected(target[m].app, None, None)
    OBVIOUS
  <1>7. t \in TargetType /\ IsItself(t)
    <2>1. \A a \in Apps : Injected(a, None, None) \in TargetType
                          /\ IsItself(Injected(a, None, None))
      BY InjectedIs
    <2> QED  BY <1>5, <1>6, <2>1
  <1>8. target' = [target EXCEPT ![m] = t]
    BY <1>6 DEF Attach
  <1> QED  BY <1>2, <1>4, <1>7, <1>8, TargetStepKeeps DEF Attach

(* The sidecar. *)
LEMMA SidecarStepKeeps ==
  ASSUME LaunchInv, NEW l \in Launchers, NEW place \in Places, Goes(l, place),
         UNCHANGED <<install, slot, target, updates>>, Knows(l)', GoesOn(l),
         sidecar' # None => /\ sidecar' \in [app : {Packaged}, token : {Packaged, None}]
                            /\ Leaves(l)'
  PROVE  LaunchInv'
  <1>1. run' \in [Launchers -> RunType] /\ Rest(l)
    BY GoesFacts
  <1>2. LaunchTypes'
    BY <1>1 DEF LaunchInv, LaunchTypes
  <1>3. Owned /\ SlotsAreTheirs'
    BY SlotsStay DEF LaunchInv
  <1>4. \A m \in Launchers : Knows(m)'
    BY <1>1, <1>3, OthersKnow DEF LaunchInv, LaunchTypes
  <1>5. TornIsWritten'
    BY <1>1, TornStays DEF LaunchInv
  <1>6. TargetsAreThemselves'
    BY <1>1, <1>3, ClaimsKeep, TargetsStay DEF LaunchInv
  <1>7. SidecarIsLeft'
    BY DEF SidecarIsLeft
  <1> QED  BY <1>2, <1>3, <1>4, <1>5, <1>6, <1>7 DEF LaunchInv

LEMMA WriteSidecarKeeps ==
  ASSUME LaunchInv, NEW l \in Launchers, WriteSidecar(l)
  PROVE  LaunchInv'
  <1>1. Goes(l, "activate") /\ "activate" \in Places /\ run[l].at = "leave" /\ slot' = slot
    BY DEF WriteSidecar, Places
  <1>2. /\ Knows(l) /\ run'[l].at = "activate" /\ run'[l].app = run[l].app
        /\ run'[l].packaged = run[l].packaged /\ run'[l].mixed = run[l].mixed
        /\ run'[l].token = run[l].token
    BY <1>1, GoesFacts
  <1>3. run[l].packaged /\ run[l].app = Packaged /\ run[l].token \in {Packaged, None}
    BY <1>1, <1>2 DEF Knows, Leaving
  <1>4. Knows(l)' /\ GoesOn(l)
    BY <1>1, <1>2 DEF Knows, GoesOn, Writes, Leaves, Prepared, Leaving
  <1>5. sidecar' \in [app : {Packaged}, token : {Packaged, None}] /\ Leaves(l)'
    BY <1>2, <1>3 DEF WriteSidecar, Leaves
  <1> QED  BY <1>1, <1>4, <1>5, SidecarStepKeeps DEF WriteSidecar

LEMMA RemoveSidecarKeeps ==
  ASSUME LaunchInv, NEW l \in Launchers, RemoveSidecar(l)
  PROVE  LaunchInv'
  <1>1. run[l].at = "clean" /\ slot' = slot
    BY DEF RemoveSidecar
  <1>2. CASE sidecar' = None /\ Goes(l, "ok")
    <2>1. /\ Knows(l) /\ run'[l].at = "ok" /\ run'[l].app = run[l].app
          /\ run'[l].packaged = run[l].packaged /\ run'[l].mixed = run[l].mixed
          /\ run'[l].token = run[l].token /\ run' \in [Launchers -> RunType] /\ Rest(l)
      BY <1>2, GoesFacts DEF Places
    <2>2. Knows(l)' /\ (run[l].packaged => run'[l].packaged)
          /\ \A a \in Apps : Writes(l, a) => Writes(l, a)'
      BY <1>1, <2>1 DEF Knows, Writes, Prepared, Leaving
    <2>3. LaunchTypes'
      BY <1>2, <2>1 DEF LaunchInv, LaunchTypes, RemoveSidecar
    <2>4. Owned /\ SlotsAreTheirs'
      BY <1>1, SlotsStay DEF LaunchInv
    <2>5. \A m \in Launchers : Knows(m)'
      BY <2>1, <2>2, <2>4, OthersKnow DEF LaunchInv, LaunchTypes
    <2>6. \A m \in Launchers : /\ run[m].packaged => run'[m].packaged
                               /\ \A a \in Apps : Writes(m, a) => Writes(m, a)'
      BY <2>1, <2>2 DEF Rest, Writes
    <2>7. TornIsWritten'
      BY <1>1, <2>6 DEF LaunchInv, TornIsWritten
    <2>8. TargetsAreThemselves'
      BY <2>4, <2>6, TargetsStay DEF LaunchInv, RemoveSidecar
    <2> QED  BY <1>2, <2>3, <2>4, <2>5, <2>7, <2>8 DEF LaunchInv, SidecarIsLeft
  <1>3. CASE Goes(l, "kept") /\ UNCHANGED sidecar
    <2>1. /\ Knows(l) /\ run'[l].at = "kept" /\ run'[l].app = run[l].app
          /\ run'[l].packaged = run[l].packaged /\ run'[l].mixed = run[l].mixed
          /\ run'[l].token = run[l].token
      BY <1>3, GoesFacts DEF Places
    <2>2. Knows(l)' /\ GoesOn(l)
      BY <1>1, <2>1 DEF Knows, GoesOn, Writes, Leaves, Prepared, Leaving
    <2> QED  BY <1>3, <2>2, GoesKeeps DEF RemoveSidecar, Places
  <1> QED  BY <1>2, <1>3 DEF RemoveSidecar

(* A target ends, an application is updated.                               *)
LEMMA ExitsKeeps ==
  ASSUME LaunchInv, NEW l \in Launchers, Exits(l)
  PROVE  LaunchInv'
  <1>1. target \in [Launchers -> TargetType \cup {None}]
    BY DEF LaunchInv, LaunchTypes
  <1>2. /\ target' \in [Launchers -> TargetType \cup {None}] /\ target'[l] = None
        /\ \A m \in Launchers : m # l => target'[m] = target[m]
    BY <1>1 DEF Exits
  <1>3. run' = run /\ slot' = slot /\ sidecar' = sidecar /\ install' = install
        /\ updates' = updates
    BY DEF Exits
  <1>4. LaunchTypes'
    BY <1>2, <1>3 DEF LaunchInv, LaunchTypes
  <1>5. /\ \A m \in Launchers : Knows(m)'
        /\ SlotsAreTheirs' /\ TornIsWritten' /\ SidecarIsLeft'
    BY <1>3 DEF LaunchInv, Knows, SlotsAreTheirs, TornIsWritten, Writes, SidecarIsLeft, Leaves
  <1>6. ASSUME NEW m \in Launchers
        PROVE  IsItself(target[m])'
    <2>1. CASE m = l
      BY <1>2, <2>1 DEF IsItself
    <2>2. CASE m # l
      BY <1>2, <1>3, <2>2 DEF LaunchInv, TargetsAreThemselves, IsItself
    <2> QED  BY <2>1, <2>2
  <1> QED  BY <1>4, <1>5, <1>6 DEF LaunchInv, TargetsAreThemselves

LEMMA UpdateKeeps ==
  ASSUME LaunchInv, NEW a \in Apps, Update(a)
  PROVE  LaunchInv'
  <1>1. /\ run' = run /\ target' = target /\ sidecar' = sidecar
        /\ updates' = updates + 1 /\ updates < MaxUpdates
    BY DEF Update
  <1>2. install' \in [Apps -> InstallType]
    <2>1. PICK source \in Sources \cup {None}, native \in BOOLEAN :
            install' = [install EXCEPT ![a] = [source |-> source, native |-> native]]
      BY DEF Update
    <2> QED  BY <2>1 DEF LaunchInv, LaunchTypes, InstallType
  <1>3. slot \in [Apps -> SlotType] /\ updates \in 0..MaxUpdates /\ MaxUpdates \in Nat
    BY LaunchAssumption DEF LaunchInv, LaunchTypes
  <1>4. /\ slot' \in [Apps -> SlotType]
        /\ \A b \in Apps : /\ slot'[b].of = slot[b].of /\ slot'[b].from = slot[b].from
                           /\ slot'[b].link \in {slot[b].link, "elsewhere"}
    <2>1. PICK gone \in {b \in Apps : slot[b].link = a} \cup {None} :
            slot' = IF gone = None THEN slot ELSE [slot EXCEPT ![gone].link = "elsewhere"]
      BY DEF Update
    <2>2. CASE gone = None
      BY <1>3, <2>1, <2>2
    <2>3. CASE gone # None
      <3>1. gone \in Apps /\ slot[gone] \in SlotType /\ "elsewhere" \in Links
        BY <1>3, <2>1, <2>3, LaunchConstants
      <3>2. slot' = [slot EXCEPT ![gone] = [slot[gone] EXCEPT !.link = "elsewhere"]]
        BY <2>1, <2>3
      <3>3. /\ [slot[gone] EXCEPT !.link = "elsewhere"] \in SlotType
            /\ [slot[gone] EXCEPT !.link = "elsewhere"].of = slot[gone].of
            /\ [slot[gone] EXCEPT !.link = "elsewhere"].from = slot[gone].from
            /\ [slot[gone] EXCEPT !.link = "elsewhere"].link = "elsewhere"
        BY <3>1 DEF SlotType
      <3> QED  BY <1>3, <3>1, <3>2, <3>3
    <2> QED  BY <2>2, <2>3
  <1>5. updates' \in 0..MaxUpdates
    BY <1>1, <1>3
  <1>6. LaunchTypes'
    BY <1>1, <1>2, <1>4, <1>5 DEF LaunchInv, LaunchTypes
  <1>7. Owned /\ SlotsAreTheirs'
    BY <1>4 DEF LaunchInv, Owned, SlotsAreTheirs
  <1>8. ASSUME NEW m \in Launchers
        PROVE  Knows(m)'
    <2>1. Knows(m) /\ run[m].app \in Apps
      BY DEF LaunchInv, LaunchTypes, RunType
    <2> QED  BY <1>1, <1>4, <2>1 DEF Knows
  <1>9. TornIsWritten' /\ SidecarIsLeft'
    BY <1>1, <1>4 DEF LaunchInv, TornIsWritten, SidecarIsLeft, Writes, Leaves
  <1>10. TargetsAreThemselves'
    BY <1>1, <1>7, TargetsStay DEF LaunchInv
  <1> QED  BY <1>6, <1>7, <1>8, <1>9, <1>10 DEF LaunchInv

LEMMA LaunchInitHasInv ==
  ASSUME LaunchInit
  PROVE  LaunchInv
  <1>1. /\ install \in [Apps -> InstallType] /\ target = [l \in Launchers |-> None]
        /\ sidecar = None /\ updates \in 0..MaxUpdates
    BY LaunchAssumption DEF LaunchInit, InstallType
  <1>2. /\ slot \in [Apps -> SlotType]
        /\ \A a \in Apps : slot[a].of = None /\ slot[a].from = None /\ slot[a].link = "absent"
    BY LaunchConstants DEF LaunchInit, SlotType
  <1>3. /\ run \in [Launchers -> RunType]
        /\ \A l \in Launchers : /\ run[l].at = "idle" /\ ~run[l].packaged /\ ~run[l].mixed
                                /\ run[l].token = None
    BY LaunchConstants DEF LaunchInit, RunType, Places
  <1>4. LaunchTypes
    BY <1>1, <1>2, <1>3 DEF LaunchTypes
  <1>5. \A l \in Launchers : Knows(l)
    BY <1>3 DEF Knows, Prepared, Leaving
  <1>6. SlotsAreTheirs /\ TornIsWritten
    BY <1>2, LaunchConstants DEF SlotsAreTheirs, TornIsWritten
  <1>7. SidecarIsLeft /\ TargetsAreThemselves
    BY <1>1 DEF SidecarIsLeft, TargetsAreThemselves, IsItself
  <1> QED  BY <1>4, <1>5, <1>6, <1>7 DEF LaunchInv

LEMMA LaunchNextKeepsInv ==
  ASSUME LaunchInv, LaunchNext
  PROVE  LaunchInv'
  BY StartKeeps, StartPackagedKeeps, ReadKeeps, WriteBeginsKeeps, WriteEndsKeeps,
     WriteFailsKeeps, LinkPassesKeeps, RemoveLinkKeeps, CreateLinkKeeps, SessionKeeps,
     SpawnKeeps, WriteSidecarKeeps, SnapshotKeeps, ActivatedKeeps, RemoveSidecarKeeps,
     AttachKeeps, DiesKeeps, ExitsKeeps, UpdateKeeps
  DEF LaunchNext

LEMMA LaunchStutterKeepsInv ==
  ASSUME LaunchInv, UNCHANGED launchVars
  PROVE  LaunchInv'
  BY DEF launchVars, LaunchInv, LaunchTypes, Knows, SlotsAreTheirs, TornIsWritten, Writes,
         SidecarIsLeft, Leaves, TargetsAreThemselves, IsItself

LEMMA LaunchInvariance == LaunchSpec => []LaunchInv
  <1>1. LaunchInv /\ [LaunchNext]_launchVars => LaunchInv'
    BY LaunchNextKeepsInv, LaunchStutterKeepsInv
  <1> QED  BY <1>1, LaunchInitHasInv, PTL DEF LaunchSpec

LEMMA InvHasLaunchTypes ==
  ASSUME LaunchInv
  PROVE  LaunchTypeOK
  <1>1. \A a \in Apps : /\ install[a].source \in Sources \cup {None}
                        /\ install[a].native \in BOOLEAN
                        /\ slot[a].of \in Apps \cup {None}
                        /\ slot[a].from \in Built \cup {None, Torn}
                        /\ slot[a].link \in Apps \cup {"absent", "elsewhere", "occupied"}
    BY DEF LaunchInv, LaunchTypes, InstallType, SlotType, Links
  <1>2. ASSUME NEW l \in Launchers
        PROVE  /\ run[l].at \in Places /\ run[l].app \in Apps /\ run[l].packaged \in BOOLEAN
               /\ run[l].path \in {"plain", "unc"}
               /\ run[l].work \in Built \cup {None} /\ run[l].mixed \in BOOLEAN
               /\ run[l].token \in Apps \cup {None} /\ run[l].before \subseteq Launchers
    <2>1. run[l] \in RunType
      BY DEF LaunchInv, LaunchTypes
    <2> QED  BY <2>1 DEF RunType
  <1>3. ASSUME NEW l \in Launchers, target[l] # None
        PROVE  /\ target[l].app \in Apps /\ target[l].slot \in Apps \cup {None}
               /\ target[l].token \in Apps \cup {None}
               /\ target[l].clobbered \in BOOLEAN
    <2>1. target[l] \in TargetType
      BY <1>3 DEF LaunchInv, LaunchTypes
    <2> QED  BY <2>1 DEF TargetType
  <1>4. /\ sidecar # None => sidecar.app = Packaged /\ sidecar.token \in {Packaged, None}
        /\ updates \in 0..MaxUpdates
    BY DEF LaunchInv, LaunchTypes
  <1> QED  BY <1>1, <1>2, <1>3, <1>4 DEF LaunchTypeOK

LEMMA InvKeepsSlots ==
  ASSUME LaunchInv
  PROVE  SlotIsItsApps
  <1> SUFFICES ASSUME NEW a \in Apps
               PROVE  LET s == slot[a] IN
                      /\ s.of \in {a, None} /\ s.link \in {a, "absent", "elsewhere", "occupied"}
                      /\ s.from \in Sources => StandsInFor(Content(s.from), Ships[s.from])
                      /\ s.from = Torn =>
                            \E l \in Launchers : /\ run[l].app = a
                                                 /\ \/ run[l].at \in {"writing", "write", "gone"}
                                                    \/ run[l].mixed
    BY DEF SlotIsItsApps, CacheId
  <1>1. slot[a].of \in {a, None} /\ slot[a].link \in {a, "absent", "elsewhere", "occupied"}
    BY DEF LaunchInv, SlotsAreTheirs
  <1>2. ASSUME NEW s \in Sources
        PROVE  StandsInFor(Content(s), Ships[s])
    <2>1. s # "stub" /\ DOMAIN Ships[s].links \cap Overridden = {}
      BY LaunchAssumption
    <2>2. Content(s) = Merge(Ships[s])
      BY <2>1 DEF Content
    <2> QED  BY <2>1, <2>2, MergeStandsIn
  <1>3. slot[a].from = Torn => \E l \in Launchers : Writes(l, a)
    BY DEF LaunchInv, TornIsWritten
  <1> QED  BY <1>1, <1>2, <1>3 DEF Writes

LEMMA InvRunsAsItself ==
  ASSUME LaunchInv
  PROVE  RunsAsItself
  <1>1. \A l \in Launchers : IsItself(target[l])
    BY DEF LaunchInv, TargetsAreThemselves
  <1>2. \A l \in Launchers :
           target[l] # None /\ target[l].slot # None /\ ~target[l].clobbered =>
              /\ target[l].slot = CacheId(target[l].app)
              /\ target[l].token = target[l].app
              /\ slot[target[l].slot].of = target[l].app
    BY <1>1 DEF IsItself, CacheId
  <1>3. \A l \in Launchers :
           target[l] # None /\ target[l].clobbered =>
              /\ target[l].slot = CacheId(Packaged)
              /\ target[l].token \in {Packaged, None}
              /\ \E m \in Launchers : run[m].packaged
    BY <1>1 DEF IsItself, CacheId
  <1> QED  BY <1>2, <1>3 DEF RunsAsItself, LaunchInv, SidecarIsLeft, Leaves

(* What lies in an application's cache slot is that application's own      *)
(* archive, whole, with the injected entry point, unless a launcher of the *)
(* application is writing it, died writing it or wrote at the same time as *)
(* another (build_merged_asar, launcher.rs); for any sources.              *)
THEOREM SlotsAlwaysTheirApps == LaunchSpec => []SlotIsItsApps
  BY LaunchInvariance, InvKeepsSlots, PTL

(* A target runs with the slot and the token of the application it is,     *)
(* however launches overlap, die or leave their sidecar behind             *)
(* (launcher.rs); for any number of applications and launchers.            *)
THEOREM TargetsAlwaysThemselves == LaunchSpec => []RunsAsItself
  BY LaunchInvariance, InvRunsAsItself, PTL

(* The launches and the registry, as they are explored together: types and *)
(* all three properties.                                                   *)
LEMMA Invariance == Spec => [](RegistryInv /\ LaunchInv)
  <1>1. Init => RegistryInv /\ LaunchInv
    BY RegistryInitHasInv, LaunchInitHasInv DEF Init
  <1>2. Next \/ UNCHANGED <<registryVars, launchVars>> =>
          /\ RegistryNext \/ UNCHANGED registryVars
          /\ LaunchNext \/ UNCHANGED launchVars
    BY DEF Next
  <1>3. RegistryInv /\ LaunchInv /\ [Next]_<<registryVars, launchVars>>
        => (RegistryInv /\ LaunchInv)'
    BY <1>2, RegistryNextKeepsInv, RegistryStutterKeepsInv, LaunchNextKeepsInv,
       LaunchStutterKeepsInv
  <1> QED  BY <1>1, <1>3, PTL DEF Spec

(* Type correctness of both. *)
THEOREM TypeCorrect == Spec => []TypeOK
  <1>1. RegistryInv /\ LaunchInv => TypeOK
    BY InvHasLaunchTypes DEF RegistryInv, TypeOK
  <1> QED  BY <1>1, Invariance, PTL

(* And all that the run checks, of one behaviour of both. *)
THEOREM LaunchesAreSafe == Spec => [](ForeignKept /\ SlotIsItsApps /\ RunsAsItself)
  BY Invariance, InvKeepsForeign, InvKeepsSlots, InvRunsAsItself, PTL
=============================================================================
