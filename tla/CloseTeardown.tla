----------------------------- MODULE CloseTeardown -----------------------------
(***************************************************************************)
(* The background close path of the Runtime (crates/runtime/js/src/        *)
(* index.js:3352-3654, 3935-3990): a destroyed window hands its plugins to *)
(* a batch, a pump services one plugin per turn of the event loop, and     *)
(* will-quit disposes of what the pump has not reached.                    *)
(*                                                                         *)
(* An action is one macrotask with the microtasks it leaves behind.  A     *)
(* slice whose deactivate returns a promise spans several: it begins in a  *)
(* Pump step and ends in a SliceEnds step, on settlement or after 2000 ms. *)
(***************************************************************************)
EXTENDS Naturals, SequencesExt, Selection

CONSTANTS
  Windows,
  Plugins,
  RawPlugins,   \* those that run outside QuickJS: no VM, a synchronous deactivate
  Rosters,      \* the plugins a window may have registered, in order of registration
  Subscribers,  \* onUnload subscriptions; each is made at most once
  NoSlice       \* no slice of the batch is in flight

ASSUME RawAssumption == RawPlugins \subseteq Plugins
ASSUME RostersAssumption == \A r \in Rosters : r \in Seq(Plugins) /\ IsInjective(r)
ASSUME NoSliceAssumption == NoSlice \notin Plugins

VARIABLES
  window,       \* of each window: open, closing (its batch is queued), or unloaded
  closeQueue,   \* batches, in the order the pump looks at them
  scheduled,    \* closePumpScheduled
  subscription, \* of each subscriber: not made yet, in unloadCallbacks, or gone
  \* History variables, read by the properties only.
  roster,       \* the plugins the window closed with
  audience,     \* the subscribers when it closed
  deactivated,  \* how often the deactivate of a plugin of a window was started
  disposed,     \* how often its VM was disposed
  unloaded,     \* how often a subscriber was told of a window
  overtaken     \* closing windows served while this one could have been, since it was served

pumpVars == <<window, closeQueue, scheduled, subscription>>
historyVars == <<roster, audience, deactivated, disposed, unloaded, overtaken>>
vars == <<pumpVars, historyVars>>

Batch == [w : Windows, snaps : Seq(Plugins), unload : SUBSET Subscribers,
          cursor : Nat, inFlight : Plugins \cup {NoSlice}]

Live == {s \in Subscribers : subscription[s] = "live"}

TypeOK ==
  /\ window \in [Windows -> {"open", "closing", "unloaded"}]
  /\ closeQueue \in Seq(Batch)
  /\ \A i \in DOMAIN closeQueue :
       LET b == closeQueue[i]
       IN b.cursor <= Len(b.snaps) /\ (b.inFlight # NoSlice => b.snaps[b.cursor] = b.inFlight)
  /\ \A i, j \in DOMAIN closeQueue : closeQueue[i].w = closeQueue[j].w => i = j
  /\ {closeQueue[i].w : i \in DOMAIN closeQueue} = {w \in Windows : window[w] = "closing"}
  /\ scheduled \in BOOLEAN
  /\ subscription \in [Subscribers -> {"none", "live", "gone"}]
  /\ roster \in [Windows -> SUBSET Plugins]
  /\ audience \in [Windows -> SUBSET Subscribers]
  /\ deactivated \in [Windows -> [Plugins -> Nat]]
  /\ disposed \in [Windows -> [Plugins -> Nat]]
  /\ unloaded \in [Windows -> [Subscribers -> Nat]]
  /\ overtaken \in [Windows -> SUBSET Windows]

Init ==
  /\ window = [w \in Windows |-> "open"]
  /\ closeQueue = << >>
  /\ scheduled = FALSE
  /\ subscription = [s \in Subscribers |-> "none"]
  /\ roster = [w \in Windows |-> {}]
  /\ audience = [w \in Windows |-> {}]
  /\ deactivated = [w \in Windows |-> [p \in Plugins |-> 0]]
  /\ disposed = [w \in Windows |-> [p \in Plugins |-> 0]]
  /\ unloaded = [w \in Windows |-> [s \in Subscribers |-> 0]]
  /\ overtaken = [w \in Windows |-> {}]
-----------------------------------------------------------------------------
\* The destroyed transfer: nothing but bookkeeping, and a wake-up of the pump.
Destroyed(w) ==
  /\ window[w] = "open"
  /\ window' = [window EXCEPT ![w] = "closing"]
  /\ \E r \in Rosters :
       /\ closeQueue' = Append(closeQueue, [w |-> w, snaps |-> r, unload |-> Live,
                                            cursor |-> 0, inFlight |-> NoSlice])
       /\ roster' = [roster EXCEPT ![w] = ToSet(r)]
  /\ audience' = [audience EXCEPT ![w] = Live]
  /\ scheduled' = TRUE
  /\ UNCHANGED <<subscription, deactivated, disposed, unloaded, overtaken>>

\* A main plugin subscribes; or it is revoked, and its subscription with it.
Subscribe(s) ==
  /\ subscription[s] = "none"
  /\ subscription' = [subscription EXCEPT ![s] = "live"]
  /\ UNCHANGED <<window, closeQueue, scheduled, historyVars>>

Revoke(s) ==
  /\ subscription[s] = "live"
  /\ subscription' = [subscription EXCEPT ![s] = "gone"]
  /\ UNCHANGED <<window, closeQueue, scheduled, historyVars>>
-----------------------------------------------------------------------------
\* A batch the pump may serve.
Eligible(b) == b.inFlight = NoSlice /\ b.cursor < Len(b.snaps)

\* Faulty variant: the last slice of the batch may still be running.
ServicedToTheEnd(b) == b.cursor >= Len(b.snaps)

\* Every plugin of the batch has been serviced.
Serviced(b) == b.inFlight = NoSlice /\ b.cursor >= Len(b.snaps)

\* Faulty variant: the served batch keeps its place.
KeepsItsPlace(queue, i, b) == ReplaceAt(queue, i, b)

\* Faulty variant: the served batch is queued again without leaving its place.
RotateCopy(queue, i, b) == Append(ReplaceAt(queue, i, b), b)

\* The served batch moves behind the others.
Rotate(queue, i, b) == Append(RemoveAt(queue, i), b)

\* Who is told of the window of b: those of the snapshot that are still subscribed.
Receivers(b, alive) == b.unload \cap alive

\* The second loop of the pump: every serviced batch of `queue`, but the one served this
\* turn, leaves it and fires its unload, from the back of the queue to the front.  The
\* callbacks in `failing` unregister themselves when they are first called.
FireUnloads(queue, servedNow) ==
  LET done == {i \in DOMAIN queue : Serviced(queue[i]) /\ queue[i].w \notin servedNow}
      called == [i \in done |-> Receivers(queue[i], Live)]
  IN \E failing \in SUBSET UNION {called[i] : i \in done} :
       LET Hears(i, s) == /\ s \in called[i]
                          /\ s \in failing => \A j \in done : j > i => s \notin called[j]
           Told(w, s) == \E i \in done : queue[i].w = w /\ Hears(i, s)
           leaving == {queue[i].w : i \in done}
       IN /\ closeQueue' = Kept(queue, {b \in ToSet(queue) : b.w \notin leaving})
          /\ window' = [w \in Windows |-> IF w \in leaving THEN "unloaded" ELSE window[w]]
          /\ unloaded' = [w \in Windows |-> [s \in Subscribers |->
                            unloaded[w][s] + (IF Told(w, s) THEN 1 ELSE 0)]]
          /\ subscription' = [s \in Subscribers |->
                                IF s \in failing THEN "gone" ELSE subscription[s]]

\* The pump serves the i-th batch: one slice, which ends at once or stays in flight.
Serve(i, async) ==
  LET b == closeQueue[i]
      p == b.snaps[b.cursor + 1]
      served == [b EXCEPT !.cursor = @ + 1, !.inFlight = IF async THEN p ELSE NoSlice]
      couldHave == {j \in DOMAIN closeQueue \ {i} : Eligible(closeQueue[j])}
  IN /\ async => p \notin RawPlugins
     /\ deactivated' = [deactivated EXCEPT ![b.w][p] = @ + 1]
     /\ disposed' = [disposed EXCEPT ![b.w][p] = @ + (IF async \/ p \in RawPlugins THEN 0 ELSE 1)]
     /\ scheduled' = ~async
     /\ FireUnloads(Rotate(closeQueue, i, served), {b.w})
     /\ overtaken' = [w \in Windows |->
          IF w = b.w \/ window'[w] # "closing" THEN {}
          ELSE IF \E j \in couldHave : closeQueue[j].w = w THEN overtaken[w] \cup {b.w}
          ELSE overtaken[w]]

\* pumpCloseQueue.
Pump ==
  /\ scheduled
  /\ LET eligible == {i \in DOMAIN closeQueue : Eligible(closeQueue[i])}
     IN IF eligible # {}
        THEN \E async \in BOOLEAN : Serve(Min(eligible), async)
        ELSE /\ FireUnloads(closeQueue, {})
             /\ scheduled' = FALSE
             /\ overtaken' = [w \in Windows |->
                                IF window'[w] = "closing" THEN overtaken[w] ELSE {}]
             /\ UNCHANGED <<deactivated, disposed>>
  /\ UNCHANGED <<roster, audience>>

\* Faulty variant: the pump is woken only when the batch is complete.
WakesWhenServiced(b) == scheduled \/ Serviced(b)

\* Every started slice wakes the pump on completion.
Wakes(b) == TRUE

\* An asynchronous deactivate settles or times out: its VM is disposed.
SliceEnds(w) ==
  \E i \in DOMAIN closeQueue :
    LET b == closeQueue[i]
        ended == [b EXCEPT !.inFlight = NoSlice]
    IN /\ b.w = w /\ b.inFlight # NoSlice
       /\ closeQueue' = ReplaceAt(closeQueue, i, ended)
       /\ disposed' = [disposed EXCEPT ![w][b.inFlight] = @ + 1]
       /\ scheduled' = Wakes(ended)
       /\ UNCHANGED <<window, subscription, roster, audience, deactivated, unloaded, overtaken>>

\* Faulty variant: the slice in flight is swept too.
SweptWithInFlight(b) == {k \in DOMAIN b.snaps : k >= b.cursor /\ b.snaps[k] \notin RawPlugins}

\* Faulty variant: the sweep passes over the plugin that is next.
SweptOffByOne(b) == {k \in DOMAIN b.snaps : k > b.cursor + 1 /\ b.snaps[k] \notin RawPlugins}

\* What will-quit disposes of in b: the QuickJS plugins no slice has been started for.
Swept(b) == {k \in DOMAIN b.snaps : k > b.cursor /\ b.snaps[k] \notin RawPlugins}

\* What it leaves of the plugins of a batch: those started, and the raw ones.
Unswept(snaps, cursor) ==
  SubSeq(snaps, 1, cursor) \o Kept(SubSeq(snaps, cursor + 1, Len(snaps)), RawPlugins)

\* sweepUndisposedSync, on will-quit: no guest code, no unload; raw plugins stay.
WillQuit ==
  LET SweptOf(w) == UNION {{b.snaps[k] : k \in Swept(b)} :
                             b \in {x \in ToSet(closeQueue) : x.w = w}}
  IN /\ closeQueue' = [i \in DOMAIN closeQueue |->
          [closeQueue[i] EXCEPT !.snaps = Unswept(@, closeQueue[i].cursor)]]
     /\ disposed' = [w \in Windows |-> [p \in Plugins |->
                       disposed[w][p] + (IF p \in SweptOf(w) THEN 1 ELSE 0)]]
     /\ scheduled' = (scheduled \/ \E i \in DOMAIN closeQueue : Swept(closeQueue[i]) # {})
     /\ UNCHANGED <<window, subscription, roster, audience, deactivated, unloaded, overtaken>>

Next ==
  \/ \E w \in Windows : Destroyed(w)
  \/ \E s \in Subscribers : Subscribe(s)
  \/ \E s \in Subscribers : Revoke(s)
  \/ Pump
  \/ \E w \in Windows : SliceEnds(w)
  \/ WillQuit

\* Weak fairness, spelled out because the enabling condition is simple: setImmediate runs
\* what it was given, and no drain outlasts DEACTIVATE_DRAIN_MS.
InFlight(w) == \E i \in DOMAIN closeQueue : closeQueue[i].w = w /\ closeQueue[i].inFlight # NoSlice

Fairness ==
  /\ []<>~scheduled \/ []<><<Pump>>_vars
  /\ \A w \in Windows : []<>~InFlight(w) \/ []<><<SliceEnds(w)>>_vars

Spec == Init /\ [][Next]_vars /\ Fairness
-----------------------------------------------------------------------------
(***************************************************************************)
(* Properties.                                                             *)
(***************************************************************************)

\* Teardown and unload, each once and in this order, however slices, sweeps and timeouts
\* interleave.  A plugin's deactivate starts at most once and its VM is disposed at most
\* once; before a window unloads, each raw plugin it closed with has run deactivate and each
\* VM is gone; and then onUnload fires exactly once for the subscribers registered when the
\* window was destroyed, except those gone before their turn (docs/SPEC.md:185-186).
TeardownInOrder ==
  /\ \A w \in Windows, p \in Plugins : deactivated[w][p] <= 1 /\ disposed[w][p] <= 1
  /\ \A w \in Windows : window[w] = "unloaded" =>
       \A p \in roster[w] : IF p \in RawPlugins THEN deactivated[w][p] = 1 ELSE disposed[w][p] = 1
  /\ \A w \in Windows, s \in Subscribers :
       /\ unloaded[w][s] <= 1
       /\ unloaded[w][s] = 1 => s \in audience[w] /\ window[w] = "unloaded"
       /\ s \in audience[w] /\ window[w] = "unloaded" /\ subscription[s] = "live"
            => unloaded[w][s] = 1

\* Round robin: while a batch could be served, no other batch is served twice.
RoundRobin ==
  [][\A v, w \in Windows :
       deactivated'[v] # deactivated[v] /\ v \in overtaken[w] =>
         \A i \in DOMAIN closeQueue : closeQueue[i].w = w => ~Eligible(closeQueue[i])]_vars

\* After a sweep the only VMs left among the closed windows are those of running slices.
SweepLeavesOnlySlices ==
  [][WillQuit => \A w \in Windows, p \in Plugins \ RawPlugins :
       p \in roster[w] /\ disposed'[w][p] = 0 =>
         \E i \in DOMAIN closeQueue : closeQueue[i].w = w /\ closeQueue[i].inFlight = p]_vars

\* In a process that lives on, every closed window is eventually unloaded, however often
\* will-quit fires and however slow its plugins are.
EveryWindowUnloads ==
  \A w \in Windows : window[w] = "closing" ~> window[w] = "unloaded"

\* The pump implements the promise of WindowTeardown: what is owed is what has neither been
\* serviced nor swept.
Promise == INSTANCE WindowTeardown WITH
  phase <- window,
  owed <- [w \in Windows |-> {p \in roster[w] :
             IF p \in RawPlugins THEN deactivated[w][p] = 0 ELSE disposed[w][p] = 0}],
  due <- audience,
  told <- [w \in Windows |-> {s \in Subscribers : unloaded[w][s] > 0}]
ImplementsPromise == Promise!Spec
=============================================================================
