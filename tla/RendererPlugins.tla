---------------------------- MODULE RendererPlugins ----------------------------
(***************************************************************************)
(* The renderer-plugin loader of the Runtime (crates/runtime/js/src/       *)
(* index.js): which plugins run in which window, while plan revisions      *)
(* arrive, windows load, navigate and are destroyed, and asynchronous      *)
(* loads settle in between.                                                *)
(*                                                                         *)
(* The host is one JavaScript thread, so an action is one run of an event  *)
(* handler or promise continuation, from its start to its return.  Between *)
(* two of them anything may happen; that is where the hazards are.         *)
(*                                                                         *)
(* An attempt is one call of runRendererPlugin that got past its guards.   *)
(* The runtime never makes two with the same plugin, window, plan          *)
(* generation and window generation, so that record also names the pending *)
(* reservation, the QuickJS context and the registered entry it leads to.  *)
(***************************************************************************)
EXTENDS Naturals, FiniteSets

CONSTANTS
  Plugins,          \* plugin ids
  Windows,          \* window contents ids, numbered in order of creation
  Fingerprints,     \* what pluginFingerprint tells apart
  RawFingerprints,  \* those whose grants include runtime.unsafe
  Absent,           \* "the plan gives this plugin nothing to run in a renderer"
  Plans,            \* the plans Core may send
  Cap,              \* MAX_RENDERER_PLUGINS_PER_WINDOW
  MaxRevision,      \* bound: plan revisions applied
  MaxLoads,         \* bound: finished page loads, over all windows
  MaxThrows         \* bound: loads whose host code throws

Plan == [want : [Plugins -> Fingerprints \cup {Absent}], rank : [Plugins -> Nat]]

ASSUME PluginsAssumption == IsFiniteSet(Plugins)
ASSUME WindowsAssumption == Windows \subseteq Nat
ASSUME FingerprintsAssumption ==
  RawFingerprints \subseteq Fingerprints /\ Absent \notin Fingerprints
ASSUME CapAssumption == Cap \in Nat \ {0}
ASSUME PlansAssumption ==
  /\ Plans \subseteq Plan
  /\ \A pl \in Plans : \A p, q \in Plugins :
       pl.want[p] # Absent /\ pl.want[q] # Absent /\ pl.rank[p] = pl.rank[q] => p = q

VARIABLES
  plan,            \* currentPlan: what each plugin may run, and its place in the plan
  planGeneration,
  abused,          \* abuseDisabledPlugins
  quitting,
  state,           \* of each window: not yet created, in `windows`, loaded, or destroyed
  nav,             \* rendererGeneration of each window
  capped,          \* w.capped: the plan generation under which a plugin was refused, or 0
  loaders,         \* attempts whose getQuickJS() continuation has not run yet
  pending,         \* pendingRendererPlugins
  active,          \* rendererPlugins
  watching,        \* attempts whose asynchronous activate has not settled
  exhausted,       \* the VMs whose interrupt count passed the limit
  vms,             \* QuickJS contexts created and not disposed
  handed,          \* VMs sealed by a window's destruction, owned by its close batch
  \* History variables, read by the properties only.
  leaked,          \* VMs a failed load left behind
  redisposed,      \* a context was disposed that was not there to dispose
  excuse           \* why the last reconcile of a window did not leave a plugin running

runtimeVars == <<plan, planGeneration, abused, quitting>>
windowVars == <<state, nav, capped>>
loadVars == <<loaders, pending, active, watching>>
vmVars == <<exhausted, vms, handed, leaked, redisposed>>
vars == <<runtimeVars, windowVars, loadVars, vmVars, excuse>>

Attempt == [p : Plugins, w : Windows, gen : Nat, wgen : Nat, fp : Fingerprints]
WindowState == {"none", "open", "loaded", "dead"}
Excuse == {"none", "failed", "capped", "quit"}

EmptyPlan == [want |-> [p \in Plugins |-> Absent], rank |-> [p \in Plugins |-> 0]]

Key(a) == <<a.p, a.w>>
Keys(S) == {Key(a) : a \in S}
Sandboxed(S) == {a \in S : a.fp \notin RawFingerprints}
Loaded == {w \in Windows : state[w] = "loaded"}

TypeOK ==
  /\ plan \in Plan
  /\ planGeneration \in Nat
  /\ abused \subseteq Plugins
  /\ quitting \in BOOLEAN
  /\ state \in [Windows -> WindowState]
  /\ nav \in [Windows -> Nat]
  /\ capped \in [Windows -> [Plugins -> Nat]]
  /\ \A S \in {loaders, pending, active, watching, exhausted, vms, handed, leaked} :
       S \subseteq Attempt
  /\ redisposed \in BOOLEAN
  /\ excuse \in [Windows -> [Plugins -> Excuse]]

Init ==
  /\ plan = EmptyPlan
  /\ planGeneration = 0
  /\ abused = {}
  /\ quitting = FALSE
  /\ state = [w \in Windows |-> "none"]
  /\ nav = [w \in Windows |-> 0]
  /\ capped = [w \in Windows |-> [p \in Plugins |-> 0]]
  /\ loaders = {} /\ pending = {} /\ active = {} /\ watching = {}
  /\ exhausted = {} /\ vms = {} /\ handed = {} /\ leaked = {}
  /\ redisposed = FALSE
  /\ excuse = [w \in Windows |-> [p \in Plugins |-> "none"]]
-----------------------------------------------------------------------------
(***************************************************************************)
(* Reconciliation of a set W of windows with plan pl at generation g.      *)
(***************************************************************************)

\* What disposeVM does to each context of S.
Dispose(S) ==
  /\ vms' = vms \ S
  /\ exhausted' = exhausted \ S
  /\ redisposed' = (redisposed \/ ~(S \subseteq vms))

\* Faulty variant: a reorder of the plan squeezes nothing out.
SqueezesUnwanted(p, pl) == pl.want[p] = Absent

\* What the squeeze removes before the loop: plugins without a rank, or ranked too low.
SqueezesOut(p, pl) == pl.want[p] = Absent \/ pl.rank[p] >= Cap

\* Faulty variant: an edited plugin stays registered.
KeepsAnyFingerprint(a, pl) == ~SqueezesOut(a.p, pl)

\* An entry survives: still wanted, unchanged, and not squeezed out.
Keeps(a, pl) == pl.want[a.p] = a.fp /\ ~SqueezesOut(a.p, pl)

\* A reservation survives only the generation it was made for.
KeepsPending(a, pl, g, nv) == Keeps(a, pl) /\ a.gen = g /\ a.wgen = nv[a.w]

\* The slots counted when the loop reaches p: earlier plugins as the loop has left them
\* (H holds the keys taken when it ends), later ones as the squeeze has left them.
Slots(p, w, pl, H, held) ==
  Cardinality({q \in Plugins \ {p} :
    IF pl.rank[q] < pl.rank[p]
    THEN <<q, w>> \in H
    ELSE ~SqueezesOut(q, pl) /\ <<q, w>> \in held})

\* Faulty variant: one slot too many.
HasSlotOffByOne(p, w, pl, H, held) == Slots(p, w, pl, H, held) <= Cap
HasSlot(p, w, pl, H, held) == Slots(p, w, pl, H, held) < Cap

\* Faulty variant: a refusal is forgotten at once.
NeverRefused(p, w, g) == FALSE
RefusedBefore(p, w, g) == capped[w][p] = g

\* Faulty variant: plugins the plan gives nothing to run are loaded as well.
AdmitsUnwanted(p, w, pl, g, H, held, kept, broken, ab, adds) ==
  <<p, w>> \in kept \/ (adds /\ HasSlot(p, w, pl, H, held) /\ p \notin ab)

\* The loop of window w keeps or adds p, when it ends with the keys H taken.  `broken` are
\* raw plugins whose body or activate throws; ab holds the ids disabled when w is reached.
Admits(p, w, pl, g, H, held, kept, broken, ab, adds) ==
  /\ pl.want[p] # Absent
  /\ \/ <<p, w>> \in kept
     \/ /\ adds
        /\ ~RefusedBefore(p, w, g)
        /\ HasSlot(p, w, pl, H, held)
        /\ p \notin ab
        /\ <<p, w>> \notin broken

\* What is left of the entries `act` and the reservations `pend` of the windows in W.
Kept(W, pl, act) == {a \in act : a.w \in W /\ Keeps(a, pl)}
KeptPending(W, pl, g, nv, pend) == {a \in pend : a.w \in W /\ KeepsPending(a, pl, g, nv)}
Removed(W, pl, act) == {a \in active : a.w \in W} \ Kept(W, pl, act)

\* The attempts made for the keys in K.
AttemptsAt(K, pl, g, nv) ==
  {[p |-> k[1], w |-> k[2], gen |-> g, wgen |-> nv[k[2]], fp |-> pl.want[k[1]]] : k \in K}

\* The ids disabled when the loop reaches window w: windows are visited in order of creation.
AbusedAt(w, ab, burned) == ab \cup {a.p : a \in {b \in burned : b.w <= w}}

\* The loop over the plan in each window of W, which leaves the keys H taken.  `adds` tells
\* whether loads are allowed, `burned` are the removed entries whose deactivate burns its
\* CPU budget.
Loop(W, pl, g, nv, act, pend, ab, adds, burned, broken, H) ==
  LET kept == Keys(Kept(W, pl, act) \cup KeptPending(W, pl, g, nv, pend))
      held == Keys({a \in act \cup pend : a.w \in W})
      new == AttemptsAt(H \ kept, pl, g, nv)
      Refused(p, w) == /\ adds /\ pl.want[p] # Absent /\ <<p, w>> \notin kept
                       /\ ~RefusedBefore(p, w, g) /\ ~HasSlot(p, w, pl, H, held)
  IN /\ \A p \in Plugins, w \in W :
          <<p, w>> \in H <=>
            Admits(p, w, pl, g, H, held, kept, broken, AbusedAt(w, ab, burned), adds)
     /\ active' = (active \ Removed(W, pl, act)) \cup (new \ Sandboxed(new))
     /\ pending' = {a \in pending : a.w \notin W}
                     \cup KeptPending(W, pl, g, nv, pend) \cup Sandboxed(new)
     /\ loaders' = loaders \cup Sandboxed(new)
     /\ Dispose(Sandboxed(Removed(W, pl, act)))
     /\ abused' = ab \cup {a.p : a \in burned}
     /\ capped' = [w \in Windows |-> [p \in Plugins |->
          IF w \in W /\ Refused(p, w) THEN g ELSE capped[w][p]]]
     /\ excuse' = [w \in Windows |-> [p \in Plugins |->
          IF w \notin W THEN excuse[w][p]
          ELSE IF pl.want[p] = Absent \/ <<p, w>> \in H THEN "none"
          ELSE IF ~adds THEN "quit"
          ELSE IF capped'[w][p] = g THEN "capped"
          ELSE "failed"]]

\* cleanupRendererPlugins and reconcileRendererPlugins.  `act` and `pend` are the entries and
\* reservations the caller has left in place.  Entries of W that do not survive run
\* deactivate and lose their VM; a deactivate that burns its CPU budget disables the plugin.
Reconcile(W, pl, g, nv, act, pend, ab, adds) ==
  /\ \E burned \in SUBSET (Sandboxed(Removed(W, pl, act)) \ exhausted),
        broken \in SUBSET {k \in Plugins \X W : pl.want[k[1]] \in RawFingerprints},
        H \in SUBSET (Plugins \X W) :
       Loop(W, pl, g, nv, act, pend, ab, adds, burned, broken, H)
  /\ UNCHANGED <<watching, handed, leaked>>
-----------------------------------------------------------------------------
(***************************************************************************)
(* Events.                                                                 *)
(***************************************************************************)

\* applyPlan: a plan of another revision replaces the current one, clears the abuse list
\* and reconciles every loaded window.
ApplyPlan(pl) ==
  /\ planGeneration < MaxRevision
  /\ plan' = pl
  /\ planGeneration' = planGeneration + 1
  /\ Reconcile(Loaded, pl, planGeneration + 1, nav, active, pending, {}, ~quitting)
  /\ UNCHANGED <<quitting, state, nav>>

\* web-contents-created: new content proves that a cancelled quit goes on living.
WindowCreated(w) ==
  /\ state[w] = "none"
  /\ \A v \in Windows : v < w => state[v] # "none"
  /\ state' = [state EXCEPT ![w] = "open"]
  /\ quitting' = FALSE
  /\ UNCHANGED <<plan, planGeneration, abused, nav, capped, loadVars, vmVars, excuse>>

\* onReady of did-finish-load (or of the adapter's gate): everything of the page before is
\* torn down, then the window is reconciled under its new generation.
FinishLoad(w) ==
  /\ state[w] \in {"open", "loaded"}
  /\ Cardinality({p \in Windows \X (1..MaxLoads) : p[2] <= nav[p[1]]}) < MaxLoads
  /\ state' = [state EXCEPT ![w] = "loaded"]
  /\ nav' = [nav EXCEPT ![w] = @ + 1]
  /\ quitting' = FALSE
  /\ Reconcile({w}, plan, planGeneration, nav',
               {a \in active : a.w # w}, {a \in pending : a.w # w}, abused, TRUE)
  /\ UNCHANGED <<plan, planGeneration>>

\* The destroyed transfer: loads are cancelled, VMs sealed and handed to the close batch; the
\* window record, with its refusals, leaves `windows`.
Destroyed(w) ==
  LET here == {a \in active : a.w = w}
  IN /\ state[w] \in {"open", "loaded"}
     /\ state' = [state EXCEPT ![w] = "dead"]
     /\ pending' = {a \in pending : a.w # w}
     /\ active' = active \ here
     /\ handed' = handed \cup Sandboxed(here)
     /\ capped' = [capped EXCEPT ![w] = [p \in Plugins |-> 0]]
     /\ excuse' = [excuse EXCEPT ![w] = [p \in Plugins |-> "none"]]
     /\ UNCHANGED <<runtimeVars, nav, loaders, watching, exhausted, vms, leaked,
                    redisposed>>

\* The close batch has serviced a sealed VM (CloseTeardown says how).
ServiceHanded(a) ==
  /\ a \in handed
  /\ handed' = handed \ {a}
  /\ Dispose({a})
  /\ abused' \in {abused, IF a \in exhausted THEN abused ELSE abused \cup {a.p}}
  /\ UNCHANGED <<plan, planGeneration, quitting, windowVars, loadVars, leaked, excuse>>

\* Faulty variant: the plugin may have been disabled since the load was asked for.
WantedIgnoringAbuse(a) ==
  /\ a.gen = planGeneration /\ a.wgen = nav[a.w]
  /\ state[a.w] \in {"open", "loaded"}
  /\ plan.want[a.p] = a.fp
  /\ Key(a) \notin Keys(active)

\* stillWanted, evaluated after eval and activate have run.
StillWanted(a) ==
  /\ a.gen = planGeneration /\ a.wgen = nav[a.w]
  /\ state[a.w] \in {"open", "loaded"}
  /\ plan.want[a.p] = a.fp
  /\ a.p \notin abused
  /\ Key(a) \notin Keys(active)

\* The window does without the plugin from here on.
Fails(a) == excuse' = [excuse EXCEPT ![a.w][a.p] = IF state[a.w] = "dead" THEN "none" ELSE "failed"]

\* Faulty variant: the failed VM is forgotten on the way out.
AbandonKeepingVm(a) ==
  /\ vms' = vms \cup {a}
  /\ Fails(a)
  /\ UNCHANGED <<active, watching, leaked>>

\* The load ends without an entry; its new context is disposed before anything else runs.
Abandon(a) ==
  /\ Fails(a)
  /\ UNCHANGED <<vms, active, watching, leaked>>

\* Registration; an activate that returned a promise is watched from here on.
Register(a) ==
  /\ active' = active \cup {a}
  /\ vms' = vms \cup {a}
  /\ watching' \in {watching, watching \cup {a}}
  /\ UNCHANGED <<leaked, excuse>>

\* Host code of the load throws once the context exists.  The .catch handler reads
\* cleanupCallbacks, which is not in its scope: it throws before disposeVM.
LoadThrows(a) ==
  /\ Cardinality(leaked) < MaxThrows
  /\ leaked' = leaked \cup {a}
  /\ vms' = vms \cup {a}
  /\ Fails(a)
  /\ UNCHANGED <<active, watching, abused>>

\* Faulty variant: the reservation is released by key, without comparing identities.
UnreserveByKey(a) == pending' = {b \in pending : Key(b) # Key(a)}
Unreserve(a) == pending' = pending \ {a}

\* The continuation of getQuickJS(): a superseded reservation ends here; otherwise the guest
\* is evaluated and activated, and registered if it is still wanted.
Continue(a) ==
  /\ a \in loaders
  /\ loaders' = loaders \ {a}
  /\ Unreserve(a)
  /\ \/ a \notin pending /\ UNCHANGED <<abused, active, watching, vms, leaked, excuse>>
     \/ a \in pending /\ LoadThrows(a)
     \/ /\ a \in pending
        /\ abused' \in {abused, abused \cup {a.p}}
        /\ Abandon(a)
     \/ /\ a \in pending
        /\ IF StillWanted(a) THEN Register(a) ELSE Abandon(a)
        /\ UNCHANGED abused
  /\ UNCHANGED <<plan, planGeneration, quitting, windowVars, exhausted, handed, redisposed>>

\* Faulty variant: a late rejection acts on whatever VM it was started for.
NoIdentityGuard(a) == TRUE
\* The rejection's guard: the entry is still the registered one.
IsRegistered(a) == a \in active

\* watchAsyncActivate: the activate promise settles.  A rejection fails the plugin closed,
\* unless its VM is sealed or its entry was replaced meanwhile.
ActivateSettles(a) ==
  /\ a \in watching
  /\ watching' = watching \ {a}
  /\ \/ UNCHANGED <<active, exhausted, vms, redisposed, excuse>>
     \/ /\ state[a.w] # "dead"
        /\ IsRegistered(a)
        /\ active' = active \ {a}
        /\ Dispose({a})
        /\ Fails(a)
  /\ UNCHANGED <<runtimeVars, windowVars, loaders, pending, handed, leaked>>

\* A guest callback exhausts the cumulative CPU budget of its VM: the plugin is disabled,
\* the entry of a renderer plugin stays registered.
Exhaust(a) ==
  /\ a \in Sandboxed(active) \ exhausted
  /\ exhausted' = exhausted \cup {a}
  /\ abused' = abused \cup {a.p}
  /\ UNCHANGED <<plan, planGeneration, quitting, windowVars, loadVars, vms, handed, leaked,
                 redisposed, excuse>>

\* before-quit, and the window focus or app activation that shows the quit was cancelled.
BeforeQuit ==
  /\ ~quitting
  /\ quitting' = TRUE
  /\ UNCHANGED <<plan, planGeneration, abused, windowVars, loadVars, vmVars, excuse>>

Resume ==
  /\ quitting
  /\ quitting' = FALSE
  /\ UNCHANGED <<plan, planGeneration, abused, windowVars, loadVars, vmVars, excuse>>

Next ==
  \/ \E pl \in Plans : ApplyPlan(pl)
  \/ \E w \in Windows : WindowCreated(w)
  \/ \E w \in Windows : FinishLoad(w)
  \/ \E w \in Windows : Destroyed(w)
  \/ \E a \in handed : ServiceHanded(a)
  \/ \E a \in loaders : Continue(a)
  \/ \E a \in watching : ActivateSettles(a)
  \/ \E a \in active : Exhaust(a)
  \/ BeforeQuit
  \/ Resume

Spec == Init /\ [][Next]_vars
-----------------------------------------------------------------------------
(***************************************************************************)
(* Properties.                                                             *)
(***************************************************************************)

\* A registered plugin is one the current plan wants, with that fingerprint, in a live
\* window whose page has not been replaced since; and a key has one entry.  (Every guard
\* of index.js:2761-2774, 3198-3212 and 3317-3349 serves this.)
RegisteredIsWanted ==
  /\ \A a \in active : /\ state[a.w] = "loaded"
                       /\ a.wgen = nav[a.w]
                       /\ plan.want[a.p] = a.fp
  /\ \A a, b \in active : Key(a) = Key(b) => a = b

\* R2 of index.js:3019-3024: never more than Cap plugins, loading ones included, in a window.
CapHeld ==
  \A w \in Windows : Cardinality({a \in active \cup pending : a.w = w}) <= Cap

\* A plugin refused for its rank stays out of that window for the whole plan generation,
\* whatever slots later completions free (finding 4 of index.js:3027-3029).
RefusedStaysOut ==
  \A a \in active \cup pending : capped[a.w][a.p] # planGeneration

\* The first Cap plugins in plan order win (docs/SPEC.md:193-194): none of them is refused,
\* whatever was registered or loading in the window before.
FirstInPlanOrderWin ==
  \A w \in Loaded, p \in Plugins :
    plan.want[p] # Absent /\ capped[w][p] = planGeneration => plan.rank[p] >= Cap

\* Refusals come in plan order and last: a slot that frees up, or plugins that ran before the
\* plan, put no plugin ahead of one that precedes it in the plan.
RefusalsInOrder == FirstInPlanOrderWin /\ RefusedStaysOut

\* Every context belongs to a registered entry or to a close batch; the one way to lose a
\* context is the throwing load (leaked).
VmsAccounted == vms = Sandboxed(active) \cup handed \cup leaked

\* No context is disposed twice, whichever of revision, navigation, rejection and close
\* reaches it first.
NoSecondDispose == ~redisposed

\* So a context has one owner from its creation to its disposal, unless the load that made
\* it throws.
ContextsOwned == VmsAccounted /\ NoSecondDispose

\* No sandboxed plugin is registered while it is disabled for CPU abuse, even when it was
\* disabled between the request for the load and its completion.  (A raw plugin registers
\* within the reconcile that may yet disable it, in a later window.)
DisabledNotRegistered ==
  [][\A a \in Sandboxed(active' \ active) : a.p \notin abused']_vars

\* In a loaded window a wanted plugin runs or is on its way, or one of four causes says
\* why not: it failed, it was refused, disabled, or the app was quitting.
WantedAccounted ==
  \A w \in Loaded, p \in Plugins :
    plan.want[p] # Absent =>
      <<p, w>> \in Keys(active \cup pending) \/ excuse[w][p] # "none"

\* index.js:3714-3715: "plugins disabled by cumulative CPU abuse get one clean reload under
\* the new plan": a registered VM that is out of budget belongs to a plugin that is
\* still disabled.
DisabledReloadsCleanly == \A a \in active \cap exhausted : a.p \in abused
=============================================================================
