------------------------- MODULE RendererPlugins_proofs -------------------------
(***************************************************************************)
(* Proofs about the renderer-plugin loader for any plugins, windows,       *)
(* plans and cap.                                                          *)
(***************************************************************************)
EXTENDS RendererPlugins, FiniteSetTheorems, WellFoundedInduction, TLAPS

\* What is needed of the plan, the windows and the reservations for RegisteredIsWanted
\* to be inductive.
PendingIsWanted ==
  \A a \in pending : /\ state[a.w] = "loaded"
                     /\ a.gen = planGeneration /\ a.wgen = nav[a.w]
                     /\ plan.want[a.p] = a.fp

KeysUnique == \A a, b \in active \cup pending : Key(a) = Key(b) => a = b

\* An attempt is in one hand at a time, and its record is never used again.
OneHand ==
  /\ pending \subseteq loaders
  /\ loaders \cap active = {} /\ loaders \cap handed = {} /\ loaders \cap leaked = {}
  /\ active \cap handed = {} /\ active \cap leaked = {} /\ handed \cap leaked = {}
  /\ \A a \in loaders \cup watching \cup handed \cup leaked : a.fp \notin RawFingerprints

NotFromTheFuture ==
  \A a \in loaders \cup active \cup handed \cup leaked :
    a.gen <= planGeneration /\ a.wgen <= nav[a.w]

RefusalsAreRecent ==
  \A w \in Windows, p \in Plugins : capped[w][p] <= planGeneration

Inv ==
  /\ TypeOK
  /\ RegisteredIsWanted /\ PendingIsWanted /\ KeysUnique
  /\ OneHand /\ NotFromTheFuture
  /\ VmsAccounted /\ NoSecondDispose
  /\ RefusalsAreRecent /\ RefusedStaysOut
-----------------------------------------------------------------------------
\* What one reconciliation does, as far as ownership goes: of the windows in W only the
\* surviving entries and reservations are left, and every new attempt is a wanted one that
\* has not been refused.
NewAttempts(new, W, pl, g, nv, act, pend) ==
  /\ \A a \in new :
       /\ a.w \in W /\ a.gen = g /\ a.wgen = nv[a.w] /\ a.fp = pl.want[a.p]
       /\ Key(a) \notin Keys(Kept(W, pl, act) \cup KeptPending(W, pl, g, nv, pend))
       /\ capped'[a.w][a.p] = capped[a.w][a.p] /\ capped[a.w][a.p] # g
  /\ \A a, b \in new : Key(a) = Key(b) => a = b
  /\ active' = (active \ Removed(W, pl, act)) \cup (new \ Sandboxed(new))
  /\ pending' = {a \in pending : a.w \notin W}
                  \cup KeptPending(W, pl, g, nv, pend) \cup Sandboxed(new)
  /\ loaders' = loaders \cup Sandboxed(new)

Bookkeeping(W, pl, g, nv, act, pend) ==
  /\ Dispose(Sandboxed(Removed(W, pl, act)))
  /\ abused' \in SUBSET Plugins
  /\ capped' \in [Windows -> [Plugins -> Nat]]
  /\ \A a \in Kept(W, pl, act) \cup KeptPending(W, pl, g, nv, pend) :
       capped'[a.w][a.p] = capped[a.w][a.p]
  /\ \A w \in Windows, p \in Plugins :
       capped'[w][p] = capped[w][p] \/ (w \in W /\ capped'[w][p] = g)
  /\ excuse' \in [Windows -> [Plugins -> Excuse]]
  /\ UNCHANGED <<watching, handed, leaked>>

LEMMA ReconcileResult ==
  ASSUME TypeOK,
         NEW W \in SUBSET Windows, NEW pl \in Plan, NEW g \in Nat,
         NEW nv \in [Windows -> Nat], NEW act \in SUBSET active,
         NEW pend \in SUBSET pending, NEW ab \in SUBSET Plugins, NEW adds \in BOOLEAN,
         Reconcile(W, pl, g, nv, act, pend, ab, adds)
  PROVE  /\ \E new \in SUBSET Attempt : NewAttempts(new, W, pl, g, nv, act, pend)
         /\ Bookkeeping(W, pl, g, nv, act, pend)
<1> DEFINE kept == Keys(Kept(W, pl, act) \cup KeptPending(W, pl, g, nv, pend))
<1>1. PICK burned \in SUBSET (Sandboxed(Removed(W, pl, act)) \ exhausted),
           broken \in SUBSET {k \in Plugins \X W : pl.want[k[1]] \in RawFingerprints},
           H \in SUBSET (Plugins \X W) :
             Loop(W, pl, g, nv, act, pend, ab, adds, burned, broken, H)
  BY DEF Reconcile
<1>2. UNCHANGED <<watching, handed, leaked>>
  BY DEF Reconcile
<1> DEFINE new == AttemptsAt(H \ kept, pl, g, nv)
<1>3. /\ active' = (active \ Removed(W, pl, act)) \cup (new \ Sandboxed(new))
      /\ pending' = {a \in pending : a.w \notin W}
                      \cup KeptPending(W, pl, g, nv, pend) \cup Sandboxed(new)
      /\ loaders' = loaders \cup Sandboxed(new)
      /\ Dispose(Sandboxed(Removed(W, pl, act)))
      /\ abused' = ab \cup {a.p : a \in burned}
  BY <1>1 DEF Loop
<1>4. \A k \in H : k \in Plugins \X W /\ pl.want[k[1]] \in Fingerprints
  <2> SUFFICES ASSUME NEW k \in H PROVE pl.want[k[1]] \in Fingerprints
    OBVIOUS
  <2>1. k = <<k[1], k[2]>> /\ k[1] \in Plugins /\ k[2] \in W
    OBVIOUS
  <2>2. \A p \in Plugins, w \in W : <<p, w>> \in H => pl.want[p] # Absent
    BY <1>1 DEF Loop, Admits
  <2> QED
    BY <2>1, <2>2 DEF Plan
<1>5. new \in SUBSET Attempt
  BY <1>4 DEF Attempt, AttemptsAt
<1>6. \A a \in new : /\ a.w \in W /\ a.gen = g /\ a.wgen = nv[a.w] /\ a.fp = pl.want[a.p]
                      /\ Key(a) \notin kept
  <2> SUFFICES ASSUME NEW k \in H \ kept,
                      NEW a, a = [p |-> k[1], w |-> k[2], gen |-> g, wgen |-> nv[k[2]],
                                  fp |-> pl.want[k[1]]]
               PROVE  /\ a.w \in W /\ a.gen = g /\ a.wgen = nv[a.w] /\ a.fp = pl.want[a.p]
                      /\ Key(a) \notin kept
    BY DEF AttemptsAt
  <2>1. k = <<k[1], k[2]>> /\ k[2] \in W
    BY <1>4
  <2> HIDE DEF kept
  <2> QED
    BY <2>1 DEF Key
<1>7. \A a, b \in new : Key(a) = Key(b) => a = b
  <2> HIDE DEF kept
  <2> QED
    BY <1>4 DEF Key, AttemptsAt
<1>8. abused' \in SUBSET Plugins
  BY <1>3 DEF TypeOK, Attempt, Sandboxed, Removed
<1>9. capped' \in [Windows -> [Plugins -> Nat]]
  BY <1>1 DEF Loop, TypeOK
<1>10. excuse' \in [Windows -> [Plugins -> Excuse]]
  BY <1>1 DEF Loop, TypeOK, Excuse
<1>11. \A w \in Windows, p \in Plugins :
              capped'[w][p] = capped[w][p] \/ (w \in W /\ capped'[w][p] = g)
  BY <1>1 DEF Loop
<1>12. \A w \in Windows, p \in Plugins : <<p, w>> \in kept => capped'[w][p] = capped[w][p]
  BY <1>1 DEF Loop
<1>13. \A a \in Kept(W, pl, act) \cup KeptPending(W, pl, g, nv, pend) :
         capped'[a.w][a.p] = capped[a.w][a.p]
  <2> SUFFICES ASSUME NEW a \in Kept(W, pl, act) \cup KeptPending(W, pl, g, nv, pend)
               PROVE  capped'[a.w][a.p] = capped[a.w][a.p]
    OBVIOUS
  <2>1. a \in Attempt
    BY DEF Kept, KeptPending, TypeOK
  <2>2. <<a.p, a.w>> \in kept
    BY DEF Keys, Key
  <2> QED
    BY <1>12, <2>1, <2>2 DEF Attempt
<1>14. \A a \in new : capped'[a.w][a.p] = capped[a.w][a.p] /\ capped[a.w][a.p] # g
  <2>1. \A w \in W, p \in Plugins :
          <<p, w>> \in H /\ <<p, w>> \notin kept =>
            capped'[w][p] = capped[w][p] /\ capped[w][p] # g
    BY <1>1 DEF Loop, Admits, RefusedBefore
  <2> SUFFICES ASSUME NEW k \in H \ kept,
                      NEW a, a = [p |-> k[1], w |-> k[2], gen |-> g, wgen |-> nv[k[2]],
                                  fp |-> pl.want[k[1]]]
               PROVE  capped'[a.w][a.p] = capped[a.w][a.p] /\ capped[a.w][a.p] # g
    BY DEF AttemptsAt
  <2>2. k = <<k[1], k[2]>> /\ k[1] \in Plugins /\ k[2] \in W
    BY <1>4
  <2> HIDE DEF kept
  <2> QED
    BY <2>1, <2>2
<1> QED
  <2>1. NewAttempts(new, W, pl, g, nv, act, pend)
    BY <1>3, <1>6, <1>7, <1>14 DEF NewAttempts
  <2>2. Bookkeeping(W, pl, g, nv, act, pend)
    BY <1>2, <1>3, <1>8, <1>9, <1>10, <1>11, <1>13 DEF Bookkeeping
  <2> QED
    BY <1>5, <2>1, <2>2

\* When a reconciliation may be trusted: the windows it leaves alone see no change of plan,
\* no attempt carries yet the numbers it gives to new ones, and what it keeps has not been
\* refused under the generation it starts.
Fresh(W, pl, g, nv, act, pend) ==
  /\ planGeneration <= g
  /\ \A w \in Windows : nav[w] <= nv[w]
  /\ \A w \in W : state'[w] = "loaded"
  /\ \A a \in act \cup pend : a.w \in W => nv[a.w] = nav[a.w]
  /\ \A a \in active \cup pending : a.w \notin W =>
       pl = plan /\ g = planGeneration /\ state'[a.w] = state[a.w] /\ nv[a.w] = nav[a.w]
  /\ \A a \in loaders \cup active \cup handed \cup leaked :
       a.w \in W => a.gen # g \/ a.wgen # nv[a.w]
  /\ \A a \in Kept(W, pl, act) \cup KeptPending(W, pl, g, nv, pend) : capped[a.w][a.p] # g

LEMMA ReconcileKeepsInv ==
  ASSUME Inv,
         NEW W \in SUBSET Windows, NEW pl \in Plan, NEW g \in Nat,
         NEW nv \in [Windows -> Nat], NEW act \in SUBSET active,
         NEW pend \in SUBSET pending, NEW ab \in SUBSET Plugins, NEW adds \in BOOLEAN,
         Reconcile(W, pl, g, nv, act, pend, ab, adds),
         plan' = pl, planGeneration' = g, nav' = nv,
         quitting' \in BOOLEAN, state' \in [Windows -> WindowState],
         Fresh(W, pl, g, nv, act, pend)
  PROVE  Inv'
<1> USE DEF Fresh
<1> DEFINE kept == Kept(W, pl, act)
           keptPending == KeptPending(W, pl, g, nv, pend)
           gone == Removed(W, pl, act)
<1>0. TypeOK
  BY DEF Inv
<1>r. /\ \E new \in SUBSET Attempt : NewAttempts(new, W, pl, g, nv, act, pend)
      /\ Bookkeeping(W, pl, g, nv, act, pend)
  BY <1>0, ReconcileResult
<1>1. PICK new \in SUBSET Attempt :
        /\ \A a \in new :
             /\ a.w \in W /\ a.gen = g /\ a.wgen = nv[a.w] /\ a.fp = pl.want[a.p]
             /\ Key(a) \notin Keys(kept \cup keptPending)
             /\ capped'[a.w][a.p] = capped[a.w][a.p] /\ capped[a.w][a.p] # g
        /\ \A a, b \in new : Key(a) = Key(b) => a = b
        /\ active' = (active \ gone) \cup (new \ Sandboxed(new))
        /\ pending' = {a \in pending : a.w \notin W} \cup keptPending \cup Sandboxed(new)
        /\ loaders' = loaders \cup Sandboxed(new)
  BY <1>r DEF NewAttempts
<1>2. /\ Dispose(Sandboxed(gone))
      /\ abused' \in SUBSET Plugins
      /\ capped' \in [Windows -> [Plugins -> Nat]]
      /\ \A a \in kept \cup keptPending : capped'[a.w][a.p] = capped[a.w][a.p]
      /\ \A w \in Windows, p \in Plugins :
           capped'[w][p] = capped[w][p] \/ (w \in W /\ capped'[w][p] = g)
      /\ excuse' \in [Windows -> [Plugins -> Excuse]]
      /\ UNCHANGED <<watching, handed, leaked>>
  BY <1>r DEF Bookkeeping
\* The new attempts are in no hand yet.
<1>3. new \cap (loaders \cup active \cup handed \cup leaked) = {}
  BY <1>1
<1>4. /\ kept \subseteq active /\ keptPending \subseteq pending
      /\ gone = {a \in active : a.w \in W} \ kept
      /\ \A a \in kept : a.w \in W /\ pl.want[a.p] = a.fp
      /\ \A a \in keptPending : /\ a.w \in W /\ pl.want[a.p] = a.fp
                               /\ a.gen = g /\ a.wgen = nv[a.w]
  BY DEF Kept, KeptPending, Removed, Keeps, KeepsPending
<1>5. \A a \in active' : \/ a \in active /\ a.w \notin W
                         \/ a \in kept
                         \/ a \in new
  BY <1>1, <1>4
<1>6. \A a \in pending' : \/ a \in pending /\ a.w \notin W
                          \/ a \in keptPending
                          \/ a \in new
  BY <1>1 DEF Sandboxed
<1>7. \A a \in active \cup pending \cup new : a \in Attempt /\ a.w \in Windows /\ a.p \in Plugins
  BY <1>0, <1>1 DEF TypeOK, Attempt
<1>a. TypeOK'
  <2>1. active' \subseteq Attempt /\ pending' \subseteq Attempt /\ loaders' \subseteq Attempt
    BY <1>0, <1>1, <1>4 DEF TypeOK, Sandboxed
  <2>2. vms' \subseteq Attempt /\ exhausted' \subseteq Attempt /\ redisposed' \in BOOLEAN
    BY <1>0, <1>2 DEF TypeOK, Dispose
  <2> QED
    BY <1>0, <1>2, <2>1, <2>2 DEF TypeOK
<1>b. KeysUnique'
  <2>1. \A a \in new : \A b \in (active' \cup pending') \ new : Key(a) # Key(b)
    <3> SUFFICES ASSUME NEW a \in new, NEW b \in (active' \cup pending') \ new
                 PROVE  Key(a) # Key(b)
      OBVIOUS
    <3>1. CASE b.w \notin W
      BY <3>1, <1>1 DEF Key
    <3>2. CASE b \in kept \cup keptPending
      BY <3>2, <1>1 DEF Keys
    <3> QED
      BY <3>1, <3>2, <1>5, <1>6
  <2>2. \A a, b \in (active' \cup pending') \ new : Key(a) = Key(b) => a = b
    <3>1. (active' \cup pending') \ new \subseteq active \cup pending
      BY <1>4, <1>5, <1>6
    <3> QED
      BY <3>1 DEF Inv, KeysUnique
  <2> QED
    BY <2>1, <2>2, <1>1 DEF KeysUnique, Key
<1>c. (RegisteredIsWanted /\ PendingIsWanted)'
  <2>1. \A a \in active' : state'[a.w] = "loaded" /\ a.wgen = nav'[a.w] /\ plan'.want[a.p] = a.fp
    <3> SUFFICES ASSUME NEW a \in active'
                 PROVE  state'[a.w] = "loaded" /\ a.wgen = nav'[a.w] /\ plan'.want[a.p] = a.fp
      OBVIOUS
    <3>1. CASE a \in active /\ a.w \notin W
      BY <3>1 DEF Inv, RegisteredIsWanted
    <3>2. CASE a \in kept
      <4>1. a \in act /\ a \in active
        BY <3>2 DEF Kept
      <4> QED
        BY <3>2, <4>1, <1>4 DEF Inv, RegisteredIsWanted
    <3>3. CASE a \in new
      BY <3>3, <1>1
    <3> QED
      BY <3>1, <3>2, <3>3, <1>5
  <2>2. \A a \in pending' : /\ state'[a.w] = "loaded"
                            /\ a.gen = planGeneration' /\ a.wgen = nav'[a.w]
                            /\ plan'.want[a.p] = a.fp
    <3> SUFFICES ASSUME NEW a \in pending'
                 PROVE  /\ state'[a.w] = "loaded"
                        /\ a.gen = planGeneration' /\ a.wgen = nav'[a.w]
                        /\ plan'.want[a.p] = a.fp
      OBVIOUS
    <3>1. CASE a \in pending /\ a.w \notin W
      BY <3>1 DEF Inv, PendingIsWanted
    <3>2. CASE a \in keptPending
      BY <3>2, <1>4
    <3>3. CASE a \in new
      BY <3>3, <1>1
    <3> QED
      BY <3>1, <3>2, <3>3, <1>6
  <2>3. \A a, b \in active' : Key(a) = Key(b) => a = b
    BY <1>b DEF KeysUnique
  <2> QED
    BY <2>1, <2>2, <2>3 DEF RegisteredIsWanted, PendingIsWanted, Key
<1>d. OneHand'
  <2>1. OneHand
    BY DEF Inv
  <2>2. pending' \subseteq loaders'
    BY <2>1, <1>1, <1>4 DEF OneHand
  <2>3. /\ loaders' \cap active' = {} /\ loaders' \cap handed' = {} /\ loaders' \cap leaked' = {}
        /\ active' \cap handed' = {} /\ active' \cap leaked' = {}
    BY <2>1, <1>1, <1>2, <1>3, <1>4 DEF OneHand, Sandboxed
  <2>4. \A a \in loaders' \cup watching' \cup handed' \cup leaked' : a.fp \notin RawFingerprints
    BY <2>1, <1>1, <1>2 DEF OneHand, Sandboxed
  <2> QED
    BY <2>1, <2>2, <2>3, <2>4, <1>2 DEF OneHand
<1>e. NotFromTheFuture'
  <2> SUFFICES ASSUME NEW a \in (loaders \cup active \cup handed \cup leaked) \cup new
               PROVE  a.gen <= g /\ a.wgen <= nv[a.w]
    BY <1>1, <1>2, <1>4 DEF NotFromTheFuture, Sandboxed
  <2>1. a \in Attempt
    BY <1>0, <1>1 DEF TypeOK
  <2>2. CASE a \in new
    BY <2>1, <2>2, <1>1 DEF Attempt
  <2>3. CASE a \in loaders \cup active \cup handed \cup leaked
    <3>1. a.gen <= planGeneration /\ a.wgen <= nav[a.w]
      BY <2>3 DEF Inv, NotFromTheFuture
    <3> QED
      BY <3>1, <2>1, <1>0 DEF TypeOK, Attempt
  <2> QED
    BY <2>2, <2>3
<1>f. (VmsAccounted /\ NoSecondDispose)'
  <2>1. vms = Sandboxed(active) \cup handed \cup leaked /\ ~redisposed
    BY DEF Inv, VmsAccounted, NoSecondDispose
  <2>2. gone \subseteq active
    BY <1>4
  <2>3. Sandboxed(active') = Sandboxed(active) \ Sandboxed(gone)
    BY <1>1, <2>2 DEF Sandboxed
  <2>4. Sandboxed(gone) \cap (handed \cup leaked) = {}
    BY <2>2 DEF Inv, OneHand, Sandboxed
  <2>5. Sandboxed(gone) \subseteq Sandboxed(active)
    BY <2>2 DEF Sandboxed
  <2> QED
    BY <2>1, <2>3, <2>4, <2>5, <1>2 DEF VmsAccounted, NoSecondDispose, Dispose
<1>g. (RefusalsAreRecent /\ RefusedStaysOut)'
  <2>1. ASSUME NEW w \in Windows, NEW p \in Plugins PROVE capped'[w][p] <= g
    <3>1. capped[w][p] \in Nat /\ capped[w][p] <= planGeneration /\ planGeneration \in Nat
      BY <1>0 DEF Inv, RefusalsAreRecent, TypeOK
    <3> QED
      BY <3>1, <1>2
  <2>2. ASSUME NEW a \in active' \cup pending' PROVE capped'[a.w][a.p] # g
    <3>1. CASE a \in new
      BY <3>1, <1>1
    <3>2. CASE a \in kept \cup keptPending
      BY <3>2, <1>2
    <3>3. CASE a \in active \cup pending /\ a.w \notin W
      <4>1. capped[a.w][a.p] # planGeneration
        BY <3>3 DEF Inv, RefusedStaysOut
      <4> QED
        BY <3>3, <4>1, <1>2, <1>7
    <3> QED
      BY <3>1, <3>2, <3>3, <1>5, <1>6
  <2> QED
    BY <2>1, <2>2 DEF RefusalsAreRecent, RefusedStaysOut
<1> QED
  BY <1>a, <1>b, <1>c, <1>d, <1>e, <1>f, <1>g DEF Inv
-----------------------------------------------------------------------------
LEMMA InitInv == Init => Inv
<1> SUFFICES ASSUME Init PROVE Inv
  OBVIOUS
<1>1. TypeOK
  BY FingerprintsAssumption DEF Init, TypeOK, EmptyPlan, Plan, WindowState, Excuse
<1>2. /\ RegisteredIsWanted /\ PendingIsWanted /\ KeysUnique
      /\ OneHand /\ NotFromTheFuture
      /\ VmsAccounted /\ NoSecondDispose
      /\ RefusedStaysOut
  BY DEF Init, RegisteredIsWanted, PendingIsWanted, KeysUnique, OneHand, NotFromTheFuture,
         VmsAccounted, NoSecondDispose, RefusedStaysOut, Sandboxed
<1>3. RefusalsAreRecent
  BY DEF Init, RefusalsAreRecent
<1> QED
  BY <1>1, <1>2, <1>3 DEF Inv

\* A new plan gives new attempts a generation nothing carries yet.
LEMMA ApplyPlanKeepsInv ==
  ASSUME Inv, NEW pl \in Plans, ApplyPlan(pl)
  PROVE  Inv'
<1> DEFINE g == planGeneration + 1
<1>1. /\ pl \in Plan /\ Loaded \in SUBSET Windows
      /\ planGeneration \in Nat /\ g \in Nat /\ nav \in [Windows -> Nat]
      /\ quitting \in BOOLEAN /\ state \in [Windows -> WindowState]
  BY PlansAssumption DEF Inv, TypeOK, Loaded
<1>2. /\ Reconcile(Loaded, pl, g, nav, active, pending, {}, ~quitting)
      /\ plan' = pl /\ planGeneration' = g /\ UNCHANGED <<quitting, state, nav>>
  BY DEF ApplyPlan
<1>3. \A w \in Loaded : state'[w] = "loaded"
  BY <1>2 DEF Loaded
<1>4. \A a \in active \cup pending : a.w \in Loaded /\ capped[a.w][a.p] # g
  <2> SUFFICES ASSUME NEW a \in active \cup pending
               PROVE  a.w \in Loaded /\ capped[a.w][a.p] # g
    OBVIOUS
  <2>1. state[a.w] = "loaded" /\ a.w \in Windows /\ a.p \in Plugins
    BY DEF Inv, RegisteredIsWanted, PendingIsWanted, TypeOK, Attempt
  <2>2. capped[a.w][a.p] <= planGeneration /\ capped[a.w][a.p] \in Nat
    BY <2>1 DEF Inv, RefusalsAreRecent, TypeOK
  <2> QED
    BY <1>1, <2>1, <2>2 DEF Loaded
<1>5. \A a \in loaders \cup active \cup handed \cup leaked : a.gen # g
  <2> SUFFICES ASSUME NEW a \in loaders \cup active \cup handed \cup leaked
               PROVE  a.gen # g
    OBVIOUS
  <2>1. a.gen <= planGeneration /\ a.gen \in Nat
    BY DEF Inv, NotFromTheFuture, TypeOK, Attempt
  <2> QED
    BY <1>1, <2>1
<1>6. planGeneration <= g /\ \A w \in Windows : nav[w] <= nav[w]
  BY <1>1
<1>7. Kept(Loaded, pl, active) \cup KeptPending(Loaded, pl, g, nav, pending)
        \subseteq active \cup pending
  BY DEF Kept, KeptPending
<1> HIDE DEF g
<1>8. Fresh(Loaded, pl, g, nav, active, pending)
  BY <1>3, <1>4, <1>5, <1>6, <1>7 DEF Fresh
<1> QED
  BY <1>1, <1>2, <1>8, ReconcileKeepsInv

\* A finished load gives new attempts a window generation nothing carries yet.
LEMMA FinishLoadKeepsInv ==
  ASSUME Inv, NEW w \in Windows, FinishLoad(w)
  PROVE  Inv'
<1> DEFINE act == {a \in active : a.w # w}
           pend == {a \in pending : a.w # w}
           nv == [nav EXCEPT ![w] = @ + 1]
           adds == TRUE
<1>1. /\ plan \in Plan /\ planGeneration \in Nat /\ nav \in [Windows -> Nat]
      /\ abused \in SUBSET Plugins /\ state \in [Windows -> WindowState]
      /\ nv \in [Windows -> Nat]
  BY DEF Inv, TypeOK
<1>2. /\ Reconcile({w}, plan, planGeneration, nv, act, pend, abused, adds) /\ adds \in BOOLEAN
      /\ nav' = nv /\ state' = [state EXCEPT ![w] = "loaded"] /\ quitting' = FALSE
      /\ UNCHANGED <<plan, planGeneration>>
  BY DEF FinishLoad
<1>3. /\ quitting' \in BOOLEAN /\ state' \in [Windows -> WindowState]
      /\ state'[w] = "loaded"
      /\ \A v \in Windows : v # w => state'[v] = state[v] /\ nv[v] = nav[v]
      /\ \A v \in Windows : nav[v] <= nv[v]
      /\ nv[w] = nav[w] + 1
  <2>1. \A v \in Windows : nv[v] = IF v = w THEN nav[w] + 1 ELSE nav[v]
    BY <1>1
  <2>2. \A v \in Windows : nav[v] \in Nat
    BY <1>1
  <2>3. \A v \in Windows : nav[v] <= nv[v]
    BY <2>1, <2>2
  <2>4. state' \in [Windows -> WindowState] /\ state'[w] = "loaded"
    BY <1>1, <1>2 DEF WindowState
  <2>5. \A v \in Windows : v # w => state'[v] = state[v]
    BY <1>1, <1>2
  <2> HIDE DEF nv
  <2> QED
    BY <1>2, <2>1, <2>3, <2>4, <2>5
<1>4. Kept({w}, plan, act) \cup KeptPending({w}, plan, planGeneration, nv, pend) = {}
  BY DEF Kept, KeptPending
<1>5. \A a \in active \cup pending : a.w \in Windows
  BY DEF Inv, TypeOK, Attempt
<1>6. \A a \in loaders \cup active \cup handed \cup leaked : a.w = w => a.wgen # nv[w]
  <2> SUFFICES ASSUME NEW a \in loaders \cup active \cup handed \cup leaked, a.w = w
               PROVE  a.wgen # nv[w]
    OBVIOUS
  <2>1. a.wgen <= nav[w] /\ a.wgen \in Nat /\ nav[w] \in Nat
    BY <1>1 DEF Inv, NotFromTheFuture, TypeOK, Attempt
  <2> QED
    BY <1>3, <2>1
<1>7. act \in SUBSET active /\ pend \in SUBSET pending /\ {w} \in SUBSET Windows
  OBVIOUS
<1>8. \A a \in act \cup pend : a.w # w
  OBVIOUS
<1>9. planGeneration <= planGeneration
  BY <1>1
<1> HIDE DEF act, pend, nv, adds
<1>10. Fresh({w}, plan, planGeneration, nv, act, pend)
  BY <1>3, <1>4, <1>5, <1>6, <1>8, <1>9 DEF Fresh
<1> QED
  BY <1>1, <1>2, <1>3, <1>7, <1>10, ReconcileKeepsInv

LEMMA DestroyedKeepsInv ==
  ASSUME Inv, NEW w \in Windows, Destroyed(w)
  PROVE  Inv'
<1> DEFINE here == {a \in active : a.w = w}
<1>1. /\ state' = [state EXCEPT ![w] = "dead"]
      /\ pending' = {a \in pending : a.w # w}
      /\ active' = active \ here
      /\ handed' = handed \cup Sandboxed(here)
      /\ capped' = [capped EXCEPT ![w] = [p \in Plugins |-> 0]]
      /\ excuse' = [excuse EXCEPT ![w] = [p \in Plugins |-> "none"]]
      /\ UNCHANGED <<runtimeVars, nav, loaders, watching, exhausted, vms, leaked, redisposed>>
  BY DEF Destroyed
<1>2. UNCHANGED <<plan, planGeneration, abused, quitting>>
  BY <1>1 DEF runtimeVars
<1>3. TypeOK
  BY DEF Inv
<1>4. \A a \in active' \cup pending' : a \in active \cup pending /\ a.w # w /\ a.w \in Windows
                                      /\ a.p \in Plugins
  BY <1>1, <1>3 DEF TypeOK, Attempt
<1>5. \A v \in Windows : v # w => state'[v] = state[v] /\ capped'[v] = capped[v]
  BY <1>1, <1>3 DEF TypeOK
<1>6. active' \subseteq active /\ pending' \subseteq pending
  BY <1>1
<1>a. TypeOK'
  BY <1>1, <1>2, <1>3 DEF TypeOK, WindowState, Excuse, Sandboxed
<1>b. (RegisteredIsWanted /\ PendingIsWanted /\ KeysUnique)'
  BY <1>1, <1>2, <1>4, <1>5, <1>6
     DEF Inv, RegisteredIsWanted, PendingIsWanted, KeysUnique, Key
<1>c. OneHand'
  BY <1>1 DEF Inv, OneHand, Sandboxed
<1>d. NotFromTheFuture'
  BY <1>1, <1>2 DEF Inv, NotFromTheFuture, Sandboxed
<1>e. (VmsAccounted /\ NoSecondDispose)'
  BY <1>1 DEF Inv, VmsAccounted, NoSecondDispose, Sandboxed
<1>f. RefusalsAreRecent'
  <2> SUFFICES ASSUME NEW v \in Windows, NEW p \in Plugins
               PROVE  capped'[v][p] <= planGeneration
    BY <1>2 DEF RefusalsAreRecent
  <2>1. planGeneration \in Nat
    BY <1>3 DEF TypeOK
  <2>2. CASE v = w
    <3>1. capped'[v][p] = 0
      BY <1>1, <1>3, <2>2 DEF TypeOK
    <3> QED
      BY <2>1, <3>1
  <2>3. CASE v # w
    BY <2>3, <1>5 DEF Inv, RefusalsAreRecent
  <2> QED
    BY <2>2, <2>3
<1>g. RefusedStaysOut'
  BY <1>2, <1>4, <1>5 DEF Inv, RefusedStaysOut
<1> QED
  BY <1>a, <1>b, <1>c, <1>d, <1>e, <1>f, <1>g DEF Inv

LEMMA ServiceHandedKeepsInv ==
  ASSUME Inv, NEW a \in handed, ServiceHanded(a)
  PROVE  Inv'
<1>1. /\ handed' = handed \ {a}
      /\ vms' = vms \ {a} /\ exhausted' = exhausted \ {a}
      /\ redisposed' = (redisposed \/ ~({a} \subseteq vms))
      /\ abused' \in {abused, IF a \in exhausted THEN abused ELSE abused \cup {a.p}}
      /\ UNCHANGED <<plan, planGeneration, quitting, state, nav, capped,
                     loaders, pending, active, watching, leaked, excuse>>
  BY DEF ServiceHanded, Dispose, windowVars, loadVars
<1>a. TypeOK'
  <2>1. a.p \in Plugins
    BY DEF Inv, TypeOK, Attempt
  <2>2. abused' \subseteq Plugins
    BY <1>1, <2>1 DEF Inv, TypeOK
  <2>3. redisposed' \in BOOLEAN
    BY <1>1 DEF Inv, TypeOK
  <2> QED
    BY <1>1, <2>2, <2>3 DEF Inv, TypeOK
<1>b. (VmsAccounted /\ NoSecondDispose)'
  BY <1>1 DEF Inv, OneHand, VmsAccounted, NoSecondDispose, Sandboxed
<1>c. OneHand' /\ NotFromTheFuture'
  BY <1>1 DEF Inv, OneHand, NotFromTheFuture
<1>d. (RegisteredIsWanted /\ PendingIsWanted /\ KeysUnique)'
  BY <1>1 DEF Inv, RegisteredIsWanted, PendingIsWanted, KeysUnique
<1>e. (RefusalsAreRecent /\ RefusedStaysOut)'
  BY <1>1 DEF Inv, RefusalsAreRecent, RefusedStaysOut
<1> QED
  BY <1>a, <1>b, <1>c, <1>d, <1>e DEF Inv

\* The outcomes of a continuation, as far as the invariant can tell them apart: the attempt
\* leaves the loaders, and ends up nowhere, leaked, or registered.
LEMMA ContinueKeepsInv ==
  ASSUME Inv, NEW a \in loaders, Continue(a)
  PROVE  Inv'
<1>0. TypeOK /\ a \in Attempt /\ a.p \in Plugins /\ a.w \in Windows
  BY DEF Inv, TypeOK, Attempt
<1>1. /\ loaders' = loaders \ {a} /\ pending' = pending \ {a}
      /\ UNCHANGED <<plan, planGeneration, quitting, state, nav, capped, exhausted, handed,
                     redisposed>>
  BY DEF Continue, Unreserve, windowVars
<1>2. Fails(a) => excuse' \in [Windows -> [Plugins -> Excuse]]
  BY <1>0 DEF Fails, TypeOK, Excuse
<1>3. abused' \subseteq Plugins
  BY <1>0 DEF Continue, LoadThrows, TypeOK
<1>4. excuse' \in [Windows -> [Plugins -> Excuse]]
  BY <1>0, <1>2 DEF Continue, LoadThrows, Abandon, Register, TypeOK
<1>5. \/ UNCHANGED <<active, vms, leaked, watching>>
      \/ a \in pending /\ leaked' = leaked \cup {a} /\ vms' = vms \cup {a}
                       /\ UNCHANGED <<active, watching>>
      \/ /\ a \in pending /\ active' = active \cup {a} /\ vms' = vms \cup {a}
         /\ watching' \in {watching, watching \cup {a}} /\ UNCHANGED leaked
  BY DEF Continue, LoadThrows, Abandon, Register
<1>6. /\ a.fp \notin RawFingerprints
      /\ a \notin active /\ a \notin handed /\ a \notin leaked
  BY DEF Inv, OneHand
<1>a. TypeOK'
  BY <1>0, <1>1, <1>3, <1>4, <1>5 DEF TypeOK
<1>b. (RegisteredIsWanted /\ PendingIsWanted /\ KeysUnique)'
  <2>1. /\ active' \cup pending' \subseteq active \cup pending
        /\ active' \subseteq active \cup (pending \cap {a})
        /\ pending' \subseteq pending
    BY <1>1, <1>5
  <2> QED
    BY <1>1, <2>1 DEF Inv, RegisteredIsWanted, PendingIsWanted, KeysUnique, Key
<1>c. OneHand'
  <2>1. /\ pending' \subseteq loaders'
        /\ loaders' \cap active' = {} /\ loaders' \cap handed' = {}
        /\ loaders' \cap leaked' = {}
    BY <1>1, <1>5 DEF Inv, OneHand
  <2>2. /\ active' \cap handed' = {} /\ active' \cap leaked' = {} /\ handed' \cap leaked' = {}
    BY <1>1, <1>5, <1>6 DEF Inv, OneHand
  <2>3. \A b \in loaders' \cup watching' \cup handed' \cup leaked' : b.fp \notin RawFingerprints
    BY <1>1, <1>5, <1>6 DEF Inv, OneHand
  <2> QED
    BY <2>1, <2>2, <2>3 DEF OneHand
<1>d. NotFromTheFuture'
  BY <1>1, <1>5 DEF Inv, NotFromTheFuture
<1>e. (VmsAccounted /\ NoSecondDispose)'
  BY <1>1, <1>5, <1>6 DEF Inv, VmsAccounted, NoSecondDispose, Sandboxed
<1>f. (RefusalsAreRecent /\ RefusedStaysOut)'
  BY <1>1, <1>5 DEF Inv, RefusalsAreRecent, RefusedStaysOut
<1> QED
  BY <1>a, <1>b, <1>c, <1>d, <1>e, <1>f DEF Inv

LEMMA ActivateSettlesKeepsInv ==
  ASSUME Inv, NEW a \in watching, ActivateSettles(a)
  PROVE  Inv'
<1>0. TypeOK /\ a \in Attempt /\ a.p \in Plugins /\ a.w \in Windows
  BY DEF Inv, TypeOK, Attempt
<1>1. /\ watching' = watching \ {a}
      /\ UNCHANGED <<plan, planGeneration, abused, quitting, state, nav, capped,
                     loaders, pending, handed, leaked>>
  BY DEF ActivateSettles, runtimeVars, windowVars
<1>2. \/ UNCHANGED <<active, exhausted, vms, redisposed, excuse>>
      \/ /\ a \in active /\ active' = active \ {a}
         /\ vms' = vms \ {a} /\ exhausted' = exhausted \ {a}
         /\ redisposed' = (redisposed \/ ~({a} \subseteq vms))
         /\ Fails(a)
  BY DEF ActivateSettles, IsRegistered, Dispose
<1>3. Fails(a) => excuse' \in [Windows -> [Plugins -> Excuse]]
  BY <1>0 DEF Fails, TypeOK, Excuse
<1>a. TypeOK'
  BY <1>0, <1>1, <1>2, <1>3 DEF TypeOK
<1>b. (RegisteredIsWanted /\ PendingIsWanted /\ KeysUnique)'
  BY <1>1, <1>2 DEF Inv, RegisteredIsWanted, PendingIsWanted, KeysUnique, Key
<1>c. OneHand' /\ NotFromTheFuture'
  BY <1>1, <1>2 DEF Inv, OneHand, NotFromTheFuture
<1>d. (VmsAccounted /\ NoSecondDispose)'
  <2>1. a.fp \notin RawFingerprints /\ active \cap (handed \cup leaked) = {}
    BY DEF Inv, OneHand
  <2>2. vms = Sandboxed(active) \cup handed \cup leaked /\ ~redisposed
    BY DEF Inv, VmsAccounted, NoSecondDispose
  <2>3. CASE UNCHANGED <<active, vms, redisposed>>
    BY <1>1, <2>2, <2>3 DEF VmsAccounted, NoSecondDispose, Sandboxed
  <2>4. CASE /\ a \in active /\ active' = active \ {a} /\ vms' = vms \ {a}
             /\ redisposed' = (redisposed \/ ~({a} \subseteq vms))
    <3>1. a \in vms /\ Sandboxed(active') = Sandboxed(active) \ {a}
      BY <2>1, <2>2, <2>4 DEF Sandboxed
    <3>2. redisposed' = FALSE
      BY <2>2, <2>4, <3>1
    <3> QED
      BY <1>1, <2>1, <2>2, <2>4, <3>1, <3>2 DEF VmsAccounted, NoSecondDispose
  <2> QED
    BY <1>2, <2>3, <2>4
<1>e. (RefusalsAreRecent /\ RefusedStaysOut)'
  BY <1>1, <1>2 DEF Inv, RefusalsAreRecent, RefusedStaysOut
<1> QED
  BY <1>a, <1>b, <1>c, <1>d, <1>e DEF Inv

\* The steps that touch neither attempts, nor the plan, nor the generations.
LEMMA QuietStepKeepsInv ==
  ASSUME Inv,
         UNCHANGED <<plan, planGeneration, nav, capped, loadVars, vms, handed, leaked,
                     redisposed, excuse>>,
         abused' \subseteq Plugins, exhausted' \subseteq Attempt, quitting' \in BOOLEAN,
         state' \in [Windows -> WindowState],
         \A w \in Windows : state[w] = "loaded" => state'[w] = "loaded"
  PROVE  Inv'
<1>1. UNCHANGED <<plan, planGeneration, nav, capped, loaders, pending, active, watching, vms,
                  handed, leaked, redisposed, excuse>>
  BY DEF loadVars
<1>a. TypeOK'
  BY <1>1 DEF Inv, TypeOK
<1>b. (RegisteredIsWanted /\ PendingIsWanted /\ KeysUnique)'
  BY <1>1 DEF Inv, RegisteredIsWanted, PendingIsWanted, KeysUnique, TypeOK, Attempt
<1>c. OneHand' /\ NotFromTheFuture'
  BY <1>1 DEF Inv, OneHand, NotFromTheFuture
<1>d. (VmsAccounted /\ NoSecondDispose)'
  BY <1>1 DEF Inv, VmsAccounted, NoSecondDispose
<1>e. (RefusalsAreRecent /\ RefusedStaysOut)'
  BY <1>1 DEF Inv, RefusalsAreRecent, RefusedStaysOut
<1> QED
  BY <1>a, <1>b, <1>c, <1>d, <1>e DEF Inv

LEMMA NextKeepsInv == Inv /\ [Next]_vars => Inv'
<1> SUFFICES ASSUME Inv, [Next]_vars PROVE Inv'
  OBVIOUS
<1>0. /\ abused \subseteq Plugins /\ exhausted \subseteq Attempt /\ quitting \in BOOLEAN
      /\ state \in [Windows -> WindowState]
  BY DEF Inv, TypeOK
<1>1. ASSUME NEW pl \in Plans, ApplyPlan(pl) PROVE Inv'
  BY <1>1, ApplyPlanKeepsInv
<1>2. ASSUME NEW w \in Windows, WindowCreated(w) PROVE Inv'
  <2>1. /\ state' = [state EXCEPT ![w] = "open"] /\ state[w] = "none" /\ quitting' = FALSE
        /\ UNCHANGED <<plan, planGeneration, abused, nav, capped, loadVars, exhausted, vms,
                       handed, leaked, redisposed, excuse>>
    BY <1>2 DEF WindowCreated, vmVars
  <2>2. /\ state' \in [Windows -> WindowState]
        /\ \A v \in Windows : state[v] = "loaded" => state'[v] = "loaded"
    BY <1>0, <2>1 DEF WindowState
  <2> QED
    BY <1>0, <2>1, <2>2, QuietStepKeepsInv
<1>3. ASSUME NEW w \in Windows, FinishLoad(w) PROVE Inv'
  BY <1>3, FinishLoadKeepsInv
<1>4. ASSUME NEW w \in Windows, Destroyed(w) PROVE Inv'
  BY <1>4, DestroyedKeepsInv
<1>5. ASSUME NEW a \in handed, ServiceHanded(a) PROVE Inv'
  BY <1>5, ServiceHandedKeepsInv
<1>6. ASSUME NEW a \in loaders, Continue(a) PROVE Inv'
  BY <1>6, ContinueKeepsInv
<1>7. ASSUME NEW a \in watching, ActivateSettles(a) PROVE Inv'
  BY <1>7, ActivateSettlesKeepsInv
<1>8. ASSUME NEW a \in active, Exhaust(a) PROVE Inv'
  <2>1. /\ exhausted' = exhausted \cup {a} /\ abused' = abused \cup {a.p}
        /\ UNCHANGED <<plan, planGeneration, quitting, state, nav, capped, loadVars, vms,
                       handed, leaked, redisposed, excuse>>
    BY <1>8 DEF Exhaust, windowVars
  <2>2. a \in Attempt /\ a.p \in Plugins
    BY DEF Inv, TypeOK, Attempt
  <2>3. exhausted' \subseteq Attempt /\ abused' \subseteq Plugins
    BY <1>0, <2>1, <2>2
  <2> QED
    BY <1>0, <2>1, <2>3, QuietStepKeepsInv
<1>9. CASE BeforeQuit \/ Resume
  <2>1. /\ quitting' \in BOOLEAN
        /\ UNCHANGED <<plan, planGeneration, abused, state, nav, capped, loadVars, exhausted,
                       vms, handed, leaked, redisposed, excuse>>
    BY <1>9 DEF BeforeQuit, Resume, windowVars, vmVars
  <2> QED
    BY <1>0, <2>1, QuietStepKeepsInv
<1>10. CASE UNCHANGED vars
  <2>1. UNCHANGED <<plan, planGeneration, abused, quitting, state, nav, capped, loadVars,
                    exhausted, vms, handed, leaked, redisposed, excuse>>
    BY <1>10 DEF vars, runtimeVars, windowVars, vmVars
  <2> QED
    BY <1>0, <2>1, QuietStepKeepsInv
<1> QED
  BY <1>1, <1>2, <1>3, <1>4, <1>5, <1>6, <1>7, <1>8, <1>9, <1>10 DEF Next
-----------------------------------------------------------------------------
LEMMA Invariance == Spec => []Inv
<1>1. Init => Inv
  BY InitInv
<1>2. Inv /\ [Next]_vars => Inv'
  BY NextKeepsInv
<1> QED
  BY <1>1, <1>2, PTL DEF Spec

\* Every variable keeps its type, whatever the plugins, windows and plans.
THEOREM TypeCorrect == Spec => []TypeOK
<1>1. Inv => TypeOK
  BY DEF Inv
<1> QED
  BY <1>1, Invariance, PTL

\* What is registered is what the current plan wants, in the page that asked for it, once.
THEOREM RegisteredIsAlwaysWanted == Spec => []RegisteredIsWanted
<1>1. Inv => RegisteredIsWanted
  BY DEF Inv
<1> QED
  BY <1>1, Invariance, PTL

\* Plan revisions, navigations, rejections, closes and superseded loads lose no context, but
\* for the load whose host code throws, and none of them disposes of a context twice.
THEOREM ContextsAlwaysOwned == Spec => []ContextsOwned
<1>1. Inv => ContextsOwned
  BY DEF Inv, ContextsOwned
<1> QED
  BY <1>1, Invariance, PTL

\* No step registers a sandboxed plugin that is disabled when the step ends.
THEOREM DisabledNeverRegistered == Spec => DisabledNotRegistered
<1> DEFINE A == \A a \in Sandboxed(active' \ active) : a.p \notin abused'
<1>1. Inv /\ [Next]_vars => [A]_vars
  <2> SUFFICES ASSUME Inv, Next PROVE A
    OBVIOUS
  <2>0. TypeOK
    BY DEF Inv
  <2>r. ASSUME NEW W \in SUBSET Windows, NEW pl \in Plan, NEW g \in Nat,
               NEW nv \in [Windows -> Nat], NEW act \in SUBSET active,
               NEW pend \in SUBSET pending, NEW ab \in SUBSET Plugins, NEW adds \in BOOLEAN,
               Reconcile(W, pl, g, nv, act, pend, ab, adds)
        PROVE  A
    <3>1. PICK new \in SUBSET Attempt : NewAttempts(new, W, pl, g, nv, act, pend)
      BY <2>0, <2>r, ReconcileResult
    <3>2. active' \ active \subseteq new \ Sandboxed(new)
      BY <3>1 DEF NewAttempts
    <3> QED
      BY <3>2 DEF Sandboxed
  <2>1. ASSUME NEW pl \in Plans, ApplyPlan(pl) PROVE A
    <3>1. /\ pl \in Plan /\ Loaded \in SUBSET Windows /\ planGeneration + 1 \in Nat
          /\ nav \in [Windows -> Nat]
      BY <2>0, PlansAssumption DEF TypeOK, Loaded
    <3>b. (~quitting) \in BOOLEAN
      BY DEF Inv, TypeOK
    <3>2. Reconcile(Loaded, pl, planGeneration + 1, nav, active, pending, {}, ~quitting)
      BY <2>1 DEF ApplyPlan
    <3> QED
      BY <2>r, <3>1, <3>b, <3>2
  <2>2. ASSUME NEW w \in Windows, FinishLoad(w) PROVE A
    <3> DEFINE nv == [nav EXCEPT ![w] = @ + 1]
               act == {a \in active : a.w # w}
               pend == {a \in pending : a.w # w}
               adds == TRUE
    <3>1. /\ plan \in Plan /\ {w} \in SUBSET Windows /\ planGeneration \in Nat
          /\ nv \in [Windows -> Nat] /\ abused \in SUBSET Plugins
          /\ act \in SUBSET active /\ pend \in SUBSET pending /\ adds \in BOOLEAN
      BY <2>0 DEF TypeOK
    <3>2. Reconcile({w}, plan, planGeneration, nv, act, pend, abused, adds)
      BY <2>2 DEF FinishLoad
    <3> HIDE DEF nv, act, pend, adds
    <3> QED
      BY <2>r, <3>1, <3>2
  <2>3. ASSUME NEW a \in loaders, Continue(a) PROVE A
    <3>1. \/ active' = active
          \/ StillWanted(a) /\ active' = active \cup {a} /\ abused' = abused
      BY <2>3 DEF Continue, LoadThrows, Abandon, Register
    <3> QED
      BY <3>1 DEF StillWanted, Sandboxed
  <2>4. ASSUME active' \subseteq active PROVE A
    BY <2>4 DEF Sandboxed
  <2>5. ASSUME NEW w \in Windows, WindowCreated(w) \/ Destroyed(w) PROVE A
    BY <2>5, <2>4 DEF WindowCreated, Destroyed, loadVars
  <2>6. ASSUME NEW a, ServiceHanded(a) \/ ActivateSettles(a) \/ Exhaust(a) PROVE A
    BY <2>6, <2>4 DEF ServiceHanded, ActivateSettles, Exhaust, loadVars
  <2>7. CASE BeforeQuit \/ Resume
    BY <2>7, <2>4 DEF BeforeQuit, Resume, loadVars
  <2> HIDE DEF A
  <2> QED
    BY <2>1, <2>2, <2>3, <2>5, <2>6, <2>7 DEF Next
<1> QED
  BY <1>1, Invariance, PTL DEF Spec, DisabledNotRegistered
-----------------------------------------------------------------------------
\* The cap, who is refused and who is accounted for.  The ranks of wanted plugins are
\* distinct, so that those below a number are at most that many.
DistinctRanks(pl) ==
  \A p, q \in Plugins :
    pl.want[p] # Absent /\ pl.want[q] # Absent /\ pl.rank[p] = pl.rank[q] => p = q

LEMMA FewRanks ==
  ASSUME NEW pl \in Plan, DistinctRanks(pl), NEW n \in Nat, NEW S \in SUBSET Plugins,
         \A q \in S : pl.want[q] # Absent /\ pl.rank[q] < n
  PROVE  IsFiniteSet(S) /\ Cardinality(S) <= n
<1> DEFINE f == [q \in S |-> pl.rank[q]]
<1>1. \A q \in S : pl.rank[q] \in Nat
  BY DEF Plan
<1>2. f \in [S -> 0..n - 1]
  BY <1>1
<1>3. \A p, q \in S : f[p] = f[q] => p = q
  BY DEF DistinctRanks
<1>4. f \in Injection(S, 0..n - 1)
  BY <1>2, <1>3 DEF Injection, IsInjective
<1>5. IsFiniteSet(0..n - 1) /\ Cardinality(0..n - 1) = n
  BY FS_Interval
<1> HIDE DEF f
<1> QED
  BY <1>4, <1>5, FS_Injection

\* The last plugin of a set, in plan order.
LEMMA LastInOrder ==
  ASSUME NEW pl \in Plan, NEW S \in SUBSET Plugins, S # {}
  PROVE  \E m \in S : \A q \in S : pl.rank[q] <= pl.rank[m]
<1> DEFINE Later(m) == {q \in S : pl.rank[m] < pl.rank[q]}
           Laters == {Later(m) : m \in S}
<1>1. IsFiniteSet(S)
  BY PluginsAssumption, FS_Subset
<1>2. /\ IsWellFoundedOn(StrictSubsetOrdering(S), SUBSET S)
      /\ Laters \subseteq SUBSET S /\ Laters # {}
  <2>1. IsWellFoundedOn(StrictSubsetOrdering(S), SUBSET S)
    BY <1>1, FS_StrictSubsetOrderingWellFounded, FS_FiniteSubsetsOfFinite, Zenon
  <2>2. Laters \subseteq SUBSET S /\ Laters # {}
    OBVIOUS
  <2> QED
    BY <2>1, <2>2
<1>3. PICK T \in Laters : \A U \in Laters : ~(<<U, T>> \in StrictSubsetOrdering(S))
  <2> HIDE DEF Laters
  <2> QED
    BY <1>2, WFMin, Zenon
<1>4. PICK m \in S : T = Later(m)
  OBVIOUS
<1>5. \A q \in S : pl.rank[q] \in Nat
  BY DEF Plan
<1>6. ASSUME NEW q \in S, pl.rank[m] < pl.rank[q]
      PROVE  FALSE
  <2>1. Later(q) \subseteq Later(m) /\ q \in Later(m) /\ q \notin Later(q)
    BY <1>5, <1>6
  <2>2. Later(q) \in Laters /\ Later(q) \in SUBSET S /\ Later(m) \in SUBSET S
    OBVIOUS
  <2>3. Later(q) # Later(m)
    BY <2>1
  <2> HIDE DEF Later, Laters
  <2>4. <<Later(q), Later(m)>> \in StrictSubsetOrdering(S)
    BY <2>1, <2>2, <2>3 DEF StrictSubsetOrdering
  <2> QED
    BY <1>3, <1>4, <2>2, <2>4
<1> QED
  BY <1>5, <1>6

\* Of the plugins S that a loop leaves in a window some were kept, all of rank below the
\* cap; each other one found less than Cap slots taken, counting those before it in S and
\* those kept.
LEMMA LoopFits ==
  ASSUME NEW pl \in Plan, DistinctRanks(pl), NEW S \in SUBSET Plugins, NEW K \in SUBSET S,
         \A p \in S : pl.want[p] # Absent,
         \A p \in K : pl.rank[p] < Cap,
         \A p \in S \ K : \E C \in SUBSET Plugins :
            /\ Cardinality(C) < Cap
            /\ \A q \in S \ {p} : pl.rank[q] < pl.rank[p] \/ q \in K => q \in C
  PROVE  Cardinality(S) <= Cap
<1>0. Cap \in Nat
  BY CapAssumption
<1>1. CASE S = K
  BY <1>0, <1>1, FewRanks
<1>2. CASE S # K
  <2>1. PICK m \in S \ K : \A q \in S \ K : pl.rank[q] <= pl.rank[m]
    <3>1. S \ K \in SUBSET Plugins /\ S \ K # {}
      BY <1>2
    <3> QED
      BY <3>1, LastInOrder
  <2>2. PICK C \in SUBSET Plugins :
          /\ Cardinality(C) < Cap
          /\ \A q \in S \ {m} : pl.rank[q] < pl.rank[m] \/ q \in K => q \in C
    BY <2>1
  <2>3. ASSUME NEW q \in S \ {m}
        PROVE  q \in C
    <3>1. CASE q \in K
      BY <2>2, <3>1
    <3>2. CASE q \notin K
      <4>1. pl.rank[q] <= pl.rank[m] /\ pl.rank[q] # pl.rank[m]
        BY <2>1, <3>2 DEF DistinctRanks
      <4>2. pl.rank[q] \in Nat /\ pl.rank[m] \in Nat
        BY DEF Plan
      <4> QED
        BY <2>2, <4>1, <4>2
    <3> QED
      BY <3>1, <3>2
  <2>4. IsFiniteSet(C) /\ IsFiniteSet(S)
    BY PluginsAssumption, FS_Subset
  <2>5. Cardinality(S \ {m}) <= Cardinality(C) /\ Cardinality(C) \in Nat
    BY <2>3, <2>4, FS_Subset, FS_CardinalityType
  <2>6. Cardinality(S \ {m}) = Cardinality(S) - 1 /\ Cardinality(S) \in Nat
    BY <2>1, <2>4, FS_RemoveElement, FS_CardinalityType
  <2> QED
    BY <1>0, <2>2, <2>5, <2>6
<1> QED
  BY <1>1, <1>2

\* Attempts of one window, one for a plugin, are no more than the plugins.
LEMMA NoMoreAttempts ==
  ASSUME NEW T \in SUBSET Attempt, \A a, b \in T : a.p = b.p => a = b,
         NEW S \in SUBSET Plugins, \A a \in T : a.p \in S
  PROVE  IsFiniteSet(T) /\ Cardinality(T) <= Cardinality(S)
<1> DEFINE f == [a \in T |-> a.p]
<1>1. f \in Injection(T, S)
  BY DEF Injection, IsInjective
<1>2. IsFiniteSet(S)
  BY PluginsAssumption, FS_Subset
<1> HIDE DEF f
<1> QED
  BY <1>1, <1>2, FS_Injection

\* What a reconciliation leaves in its windows: at most Cap plugins, room for no plugin it
\* refuses, and of each wanted plugin an attempt or an excuse.
Taken(w, S) ==
  /\ S \subseteq Plugins /\ Cardinality(S) <= Cap
  /\ \A a \in active' \cup pending' : a.w = w => a.p \in S

Fills(W, pl) ==
  /\ \A w \in W : \E S : Taken(w, S)
  /\ \A w \in W, p \in Plugins :
       pl.want[p] # Absent =>
         <<p, w>> \in Keys(active' \cup pending') \/ excuse'[w][p] # "none"
  /\ \A w \in Windows, p \in Plugins :
       pl.want[p] # Absent /\ capped'[w][p] # capped[w][p] =>
         w \in W /\ pl.rank[p] >= Cap
  /\ \A w \in Windows \ W : excuse'[w] = excuse[w]
  /\ \A a \in active \cup pending : a.w \notin W => a \in active' \cup pending'
  /\ \A a \in active' \cup pending' : a.w \notin W => a \in active \cup pending

LEMMA ReconcileFills ==
  ASSUME TypeOK,
         NEW W \in SUBSET Windows, NEW pl \in Plan, DistinctRanks(pl), NEW g \in Nat,
         NEW nv \in [Windows -> Nat], NEW act \in SUBSET active,
         NEW pend \in SUBSET pending, NEW ab \in SUBSET Plugins, NEW adds \in BOOLEAN,
         Reconcile(W, pl, g, nv, act, pend, ab, adds)
  PROVE  Fills(W, pl)
<1> DEFINE kept == Keys(Kept(W, pl, act) \cup KeptPending(W, pl, g, nv, pend))
           held == Keys({a \in act \cup pend : a.w \in W})
           Refused(p, w) == /\ adds /\ pl.want[p] # Absent /\ <<p, w>> \notin kept
                            /\ ~RefusedBefore(p, w, g)
<1>1. PICK burned \in SUBSET (Sandboxed(Removed(W, pl, act)) \ exhausted),
           broken \in SUBSET {k \in Plugins \X W : pl.want[k[1]] \in RawFingerprints},
           H \in SUBSET (Plugins \X W) :
             Loop(W, pl, g, nv, act, pend, ab, adds, burned, broken, H)
  BY DEF Reconcile
<1> DEFINE new == AttemptsAt(H \ kept, pl, g, nv)
           Others(p, w) == {q \in Plugins \ {p} : IF pl.rank[q] < pl.rank[p]
                                                  THEN <<q, w>> \in H
                                                  ELSE ~SqueezesOut(q, pl) /\ <<q, w>> \in held}
<1>2. /\ active' = (active \ Removed(W, pl, act)) \cup (new \ Sandboxed(new))
      /\ pending' = {a \in pending : a.w \notin W}
                      \cup KeptPending(W, pl, g, nv, pend) \cup Sandboxed(new)
  BY <1>1 DEF Loop
<1>3. \A p \in Plugins, w \in W :
        <<p, w>> \in H =>
          /\ pl.want[p] # Absent
          /\ <<p, w>> \in kept \/ Cardinality(Others(p, w)) < Cap
  BY <1>1 DEF Loop, Admits, HasSlot, Slots
<1>4. \A p \in Plugins, w \in W : <<p, w>> \in kept /\ pl.want[p] # Absent => <<p, w>> \in H
  BY <1>1 DEF Loop, Admits
<1>5. \A w \in Windows, p \in Plugins :
        capped'[w][p] # capped[w][p] =>
          w \in W /\ ~(Cardinality(Others(p, w)) < Cap)
  BY <1>1 DEF Loop, HasSlot, Slots
<1>6. \A w \in Windows, p \in Plugins :
        excuse'[w][p] = IF w \notin W THEN excuse[w][p]
                        ELSE IF pl.want[p] = Absent \/ <<p, w>> \in H THEN "none"
                        ELSE IF ~adds THEN "quit"
                        ELSE IF capped'[w][p] = g THEN "capped"
                        ELSE "failed"
  BY <1>1 DEF Loop
<1>7. \A a \in Kept(W, pl, act) \cup KeptPending(W, pl, g, nv, pend) :
        /\ a \in Attempt /\ a.p \in Plugins /\ a.w \in W /\ a \in act \cup pend
        /\ ~SqueezesOut(a.p, pl)
  BY DEF Kept, KeptPending, Keeps, KeepsPending, TypeOK, Attempt
<1>8. \A p, w : <<p, w>> \in kept => ~SqueezesOut(p, pl) /\ <<p, w>> \in held
  BY <1>7 DEF Keys, Key
<1>9. \A a \in new : <<a.p, a.w>> \in H /\ a.p \in Plugins /\ a.w \in W
  <2> SUFFICES ASSUME NEW k \in H \ kept,
                      NEW a, a = [p |-> k[1], w |-> k[2], gen |-> g, wgen |-> nv[k[2]],
                                  fp |-> pl.want[k[1]]]
               PROVE  <<a.p, a.w>> \in H /\ a.p \in Plugins /\ a.w \in W
    BY DEF AttemptsAt
  <2>1. k = <<k[1], k[2]>> /\ k[1] \in Plugins /\ k[2] \in W /\ k \in H
    OBVIOUS
  <2> HIDE DEF kept
  <2> QED
    BY <2>1
<1>10. \A a \in active \cup pending : a \in Attempt
  BY DEF TypeOK
<1>11. \A p \in Plugins, w \in W : <<p, w>> \in H \ kept => \E a \in new : Key(a) = <<p, w>>
  <2> HIDE DEF kept
  <2> SUFFICES ASSUME NEW p \in Plugins, NEW w \in W, <<p, w>> \in H \ kept
               PROVE  \E a \in new : Key(a) = <<p, w>>
    OBVIOUS
  <2>1. [p |-> p, w |-> w, gen |-> g, wgen |-> nv[w], fp |-> pl.want[p]] \in new
    BY DEF AttemptsAt
  <2> HIDE DEF new
  <2> QED
    BY <2>1 DEF Key
<1> HIDE DEF kept, held, new
<1>12. \A p \in Plugins, q \in Plugins, w \in W :
         q \in Others(p, w) => pl.want[q] # Absent /\ (pl.rank[p] < Cap => pl.rank[q] < Cap)
  <2> SUFFICES ASSUME NEW p \in Plugins, NEW q \in Plugins, NEW w \in W, q \in Others(p, w)
               PROVE  pl.want[q] # Absent /\ (pl.rank[p] < Cap => pl.rank[q] < Cap)
    OBVIOUS
  <2>1. pl.rank[p] \in Nat /\ pl.rank[q] \in Nat /\ Cap \in Nat
    BY CapAssumption DEF Plan
  <2>2. CASE pl.rank[q] < pl.rank[p]
    <3>1. <<q, w>> \in H
      BY <2>2
    <3>2. pl.want[q] # Absent
      BY <1>3, <3>1
    <3> HIDE DEF Others
    <3> QED
      BY <2>1, <2>2, <3>2
  <2>3. CASE ~(pl.rank[q] < pl.rank[p])
    BY <2>1, <2>3 DEF SqueezesOut
  <2> QED
    BY <2>2, <2>3
<1>13. \A p, w : Others(p, w) \subseteq Plugins \ {p}
  OBVIOUS
<1>a. ASSUME NEW w \in W
      PROVE  \E S : Taken(w, S)
  <2> DEFINE S == {p \in Plugins : <<p, w>> \in H}
             K == {p \in Plugins : <<p, w>> \in H /\ <<p, w>> \in kept}
  <2>1. \A p \in S : pl.want[p] # Absent
    BY <1>3
  <2>2. \A p \in K : pl.rank[p] < Cap
    <3> SUFFICES ASSUME NEW p \in K PROVE pl.rank[p] < Cap
      OBVIOUS
    <3>1. pl.rank[p] \in Nat /\ Cap \in Nat
      BY CapAssumption DEF Plan
    <3> QED
      BY <1>8, <3>1 DEF SqueezesOut
  <2>3. ASSUME NEW p \in S \ K
        PROVE  \E C \in SUBSET Plugins :
                 /\ Cardinality(C) < Cap
                 /\ \A q \in S \ {p} : pl.rank[q] < pl.rank[p] \/ q \in K => q \in C
    <3>1. Cardinality(Others(p, w)) < Cap /\ Others(p, w) \in SUBSET Plugins
      BY <1>3, <1>13, <2>3
    <3>2. \A q \in S \ {p} : pl.rank[q] < pl.rank[p] \/ q \in K => q \in Others(p, w)
      BY <1>8
    <3> HIDE DEF Others, S, K
    <3> QED
      BY <3>1, <3>2
  <2>4. S \in SUBSET Plugins /\ K \in SUBSET S
    OBVIOUS
  <2>5. ASSUME NEW a \in active' \cup pending', a.w = w
        PROVE  a.p \in S
    <3>1. CASE a \in new
      BY <1>9, <2>5, <3>1
    <3>2. CASE a \in Kept(W, pl, act) \cup KeptPending(W, pl, g, nv, pend)
      <4>1. <<a.p, w>> \in kept /\ a.p \in Plugins
        BY <1>7, <2>5, <3>2 DEF kept, Keys, Key
      <4>2. pl.want[a.p] # Absent
        BY <1>8, <4>1 DEF SqueezesOut
      <4> QED
        BY <1>4, <4>1, <4>2
    <3>3. a \in new \/ a \in Kept(W, pl, act) \cup KeptPending(W, pl, g, nv, pend)
      BY <1>2, <2>5 DEF Removed, Sandboxed
    <3> QED
      BY <3>1, <3>2, <3>3
  <2> HIDE DEF S, K, Others
  <2>6. Cardinality(S) <= Cap
    BY <2>1, <2>2, <2>3, <2>4, LoopFits
  <2>7. Taken(w, S)
    BY <2>4, <2>5, <2>6 DEF Taken
  <2> QED
    BY <2>7
<1>b. ASSUME NEW w \in W, NEW p \in Plugins, pl.want[p] # Absent
      PROVE  <<p, w>> \in Keys(active' \cup pending') \/ excuse'[w][p] # "none"
  <2>1. CASE <<p, w>> \notin H
    BY <1>6, <1>b, <2>1
  <2>2. CASE <<p, w>> \in H /\ <<p, w>> \notin kept
    <3>1. PICK a \in new : Key(a) = <<p, w>>
      BY <1>11, <2>2
    <3>2. a \in active' \cup pending'
      BY <1>2
    <3> QED
      BY <3>1, <3>2 DEF Keys
  <2>3. CASE <<p, w>> \in kept
    <3>1. PICK a \in Kept(W, pl, act) \cup KeptPending(W, pl, g, nv, pend) : Key(a) = <<p, w>>
      BY <2>3 DEF kept, Keys
    <3>2. a \in active' \cup pending'
      BY <1>2 DEF Removed, Kept
    <3> QED
      BY <3>1, <3>2 DEF Keys
  <2> QED
    BY <2>1, <2>2, <2>3
<1>c. ASSUME NEW w \in Windows, NEW p \in Plugins,
             pl.want[p] # Absent, capped'[w][p] # capped[w][p]
      PROVE  w \in W /\ pl.rank[p] >= Cap
  <2>1. w \in W /\ ~(Cardinality(Others(p, w)) < Cap)
    BY <1>5, <1>c
  <2>2. pl.rank[p] \in Nat /\ Cap \in Nat
    BY CapAssumption DEF Plan
  <2>3. ASSUME pl.rank[p] < Cap
        PROVE  FALSE
    <3> DEFINE C == Others(p, w)
    <3>1. C \subseteq Plugins /\ p \notin C
      OBVIOUS
    <3>2. \A q \in C \cup {p} : pl.want[q] # Absent /\ pl.rank[q] < Cap
      BY <1>c, <1>12, <2>1, <2>3
    <3> HIDE DEF C
    <3>3. IsFiniteSet(C) /\ C \cup {p} \in SUBSET Plugins
      BY <3>1, PluginsAssumption, FS_Subset
    <3>4. Cardinality(C \cup {p}) = Cardinality(C) + 1 /\ Cardinality(C) \in Nat
      BY <3>1, <3>3, FS_AddElement, FS_CardinalityType
    <3>5. Cardinality(C \cup {p}) <= Cap
      BY <2>2, <3>2, <3>3, FewRanks
    <3> QED
      BY <2>1, <2>2, <3>4, <3>5 DEF C
  <2> QED
    BY <2>1, <2>2, <2>3
<1>d. \A w \in Windows \ W : excuse'[w] = excuse[w]
  <2>1. excuse' = [w \in Windows |-> [p \in Plugins |->
          IF w \notin W THEN excuse[w][p]
          ELSE IF pl.want[p] = Absent \/ <<p, w>> \in H THEN "none"
          ELSE IF ~adds THEN "quit"
          ELSE IF capped'[w][p] = g THEN "capped"
          ELSE "failed"]]
    BY <1>1 DEF Loop
  <2> QED
    BY <2>1 DEF TypeOK
<1>e. /\ \A a \in active \cup pending : a.w \notin W => a \in active' \cup pending'
      /\ \A a \in active' \cup pending' : a.w \notin W => a \in active \cup pending
  BY <1>2, <1>7, <1>9 DEF Removed, Sandboxed
<1> QED
  BY <1>a, <1>b, <1>c, <1>d, <1>e DEF Fills
-----------------------------------------------------------------------------
\* What is needed of the plan for FirstInPlanOrderWin, CapHeld and WantedAccounted to be
\* inductive: its ranks are distinct, a refusal of this generation was for a low rank in any
\* window, and before the first plan nothing is wanted, so that 0 says "never refused".
RefusedRankLow ==
  \A w \in Windows, p \in Plugins :
    plan.want[p] # Absent /\ capped[w][p] = planGeneration => plan.rank[p] >= Cap

PlanIsPlan == DistinctRanks(plan) /\ (planGeneration = 0 => plan = EmptyPlan)

FullInv == Inv /\ CapHeld /\ RefusedRankLow /\ WantedAccounted /\ PlanIsPlan

\* The attempts at one window fit the plugins Taken there.
LEMMA TakenIsHeld ==
  ASSUME TypeOK', KeysUnique', NEW w \in Windows, NEW S, Taken(w, S)
  PROVE  Cardinality({a \in active' \cup pending' : a.w = w}) <= Cap
<1> DEFINE T == {a \in active' \cup pending' : a.w = w}
<1>1. T \in SUBSET Attempt
  BY DEF TypeOK
<1>2. \A a, b \in T : a.p = b.p => a = b
  BY DEF KeysUnique, Key
<1>3. S \in SUBSET Plugins /\ Cardinality(S) <= Cap /\ \A a \in T : a.p \in S
  BY DEF Taken
<1> HIDE DEF T
<1>4. IsFiniteSet(T) /\ Cardinality(T) <= Cardinality(S)
  BY <1>1, <1>2, <1>3, NoMoreAttempts
<1>5. IsFiniteSet(S)
  BY <1>3, PluginsAssumption, FS_Subset
<1>6. Cardinality(T) \in Nat /\ Cardinality(S) \in Nat /\ Cap \in Nat
  BY <1>4, <1>5, FS_CardinalityType, CapAssumption
<1>7. Cardinality(T) <= Cap
  BY <1>3, <1>4, <1>6
<1> QED
  BY <1>7 DEF T

\* A window that gains no attempt keeps within the cap.
LEMMA FewerAreHeld ==
  ASSUME TypeOK, KeysUnique, CapHeld, NEW w \in Windows,
         \A a \in active' \cup pending' : a.w = w => a \in active \cup pending
  PROVE  Cardinality({a \in active' \cup pending' : a.w = w}) <= Cap
<1> DEFINE T == {a \in active \cup pending : a.w = w}
           U == {a \in active' \cup pending' : a.w = w}
<1>1. T \in SUBSET Attempt
  BY DEF TypeOK
<1>2. \A a, b \in T : a.p = b.p => a = b
  BY DEF KeysUnique, Key
<1>3. \A a \in T : a.p \in Plugins
  BY <1>1 DEF Attempt
<1>4. U \subseteq T /\ Cardinality(T) <= Cap
  BY DEF CapHeld
<1> HIDE DEF T, U
<1>5. IsFiniteSet(T)
  BY <1>1, <1>2, <1>3, NoMoreAttempts
<1>6. IsFiniteSet(U) /\ Cardinality(U) <= Cardinality(T)
  BY <1>4, <1>5, FS_Subset
<1>7. Cardinality(T) \in Nat /\ Cardinality(U) \in Nat /\ Cap \in Nat
  BY <1>5, <1>6, FS_CardinalityType, CapAssumption
<1>8. Cardinality(U) <= Cap
  BY <1>4, <1>6, <1>7
<1> QED
  BY <1>8 DEF U

\* The steps that make no attempt: every attempt that ends in a window still loaded leaves an
\* excuse, and no excuse is taken back there.
LEMMA FewerKeepFullInv ==
  ASSUME FullInv, Inv', UNCHANGED <<plan, planGeneration>>,
         active' \cup pending' \subseteq active \cup pending,
         \A w \in Windows, p \in Plugins :
           capped'[w][p] = capped[w][p] \/ capped'[w][p] = 0,
         \A w \in Windows : state'[w] = "loaded" => state[w] = "loaded",
         \A w \in Windows, p \in Plugins :
           state'[w] = "loaded" /\ excuse[w][p] # "none" => excuse'[w][p] # "none",
         \A a \in (active \cup pending) \ (active' \cup pending') :
           state'[a.w] = "loaded" => excuse'[a.w][a.p] # "none"
  PROVE  FullInv'
<1>1. TypeOK /\ KeysUnique /\ CapHeld /\ RefusedRankLow /\ WantedAccounted /\ PlanIsPlan
  BY DEF FullInv, Inv
<1>a. CapHeld'
  BY <1>1, FewerAreHeld DEF CapHeld
<1>b. RefusedRankLow'
  <2> SUFFICES ASSUME NEW w \in Windows, NEW p \in Plugins,
                      plan.want[p] # Absent, capped'[w][p] = planGeneration
               PROVE  plan.rank[p] >= Cap
    BY DEF RefusedRankLow
  <2>1. CASE capped'[w][p] = capped[w][p]
    BY <1>1, <2>1 DEF RefusedRankLow
  <2>2. CASE capped'[w][p] = 0
    <3>1. plan.want[p] = Absent
      BY <1>1, <2>2 DEF PlanIsPlan, EmptyPlan
    <3> QED
      BY <3>1
  <2> QED
    BY <2>1, <2>2
<1>c. WantedAccounted'
  <2> SUFFICES ASSUME NEW w \in Windows, state'[w] = "loaded", NEW p \in Plugins,
                      plan.want[p] # Absent, excuse'[w][p] = "none"
               PROVE  <<p, w>> \in Keys(active' \cup pending')
    BY DEF WantedAccounted, Loaded
  <2>1. state[w] = "loaded" /\ excuse[w][p] = "none"
    OBVIOUS
  <2>2. <<p, w>> \in Keys(active \cup pending)
    BY <1>1, <2>1 DEF WantedAccounted, Loaded
  <2>3. PICK a \in active \cup pending : Key(a) = <<p, w>>
    BY <2>2 DEF Keys
  <2>4. a.p = p /\ a.w = w
    BY <2>3 DEF Key
  <2>5. a \in active' \cup pending'
    BY <2>4
  <2> QED
    BY <2>3, <2>5 DEF Keys
<1>d. PlanIsPlan'
  BY <1>1 DEF PlanIsPlan, DistinctRanks
<1> QED
  BY <1>a, <1>b, <1>c, <1>d DEF FullInv

\* A reconciliation, when no other window sees a change of plan.
LEMMA ReconcileKeepsFullInv ==
  ASSUME FullInv, Inv',
         NEW W \in SUBSET Windows, NEW pl \in Plan, DistinctRanks(pl), NEW g \in Nat,
         NEW nv \in [Windows -> Nat], NEW act \in SUBSET active,
         NEW pend \in SUBSET pending, NEW ab \in SUBSET Plugins, NEW adds \in BOOLEAN,
         Reconcile(W, pl, g, nv, act, pend, ab, adds),
         plan' = pl, planGeneration' = g, g = 0 => pl = EmptyPlan,
         \A w \in Windows, p \in Plugins :
           pl.want[p] # Absent /\ capped[w][p] = g => pl.rank[p] >= Cap,
         \A w \in Windows \ W : state'[w] = "loaded" => state[w] = "loaded" /\ pl = plan
  PROVE  FullInv'
<1>1. TypeOK /\ KeysUnique /\ CapHeld /\ RefusedRankLow /\ WantedAccounted /\ PlanIsPlan
  BY DEF FullInv, Inv
<1>0. Fills(W, pl)
  BY <1>1, ReconcileFills
<1>2. /\ \A w \in W : \E S : Taken(w, S)
      /\ \A w \in W, p \in Plugins :
           pl.want[p] # Absent =>
             <<p, w>> \in Keys(active' \cup pending') \/ excuse'[w][p] # "none"
      /\ \A w \in Windows, p \in Plugins :
           pl.want[p] # Absent /\ capped'[w][p] # capped[w][p] =>
             w \in W /\ pl.rank[p] >= Cap
      /\ \A w \in Windows \ W : excuse'[w] = excuse[w]
      /\ \A a \in active \cup pending : a.w \notin W => a \in active' \cup pending'
      /\ \A a \in active' \cup pending' : a.w \notin W => a \in active \cup pending
  BY <1>0 DEF Fills
<1>a. CapHeld'
  <2> SUFFICES ASSUME NEW w \in Windows
               PROVE  Cardinality({a \in active' \cup pending' : a.w = w}) <= Cap
    BY DEF CapHeld
  <2>1. CASE w \in W
    <3>1. TypeOK' /\ KeysUnique'
      BY DEF Inv
    <3> QED
      BY <1>2, <2>1, <3>1, TakenIsHeld
  <2>2. CASE w \notin W
    <3>1. \A a \in active' \cup pending' : a.w = w => a \in active \cup pending
      BY <1>2, <2>2
    <3> QED
      BY <1>1, <3>1, FewerAreHeld
  <2> QED
    BY <2>1, <2>2
<1>b. RefusedRankLow'
  <2> SUFFICES ASSUME NEW w \in Windows, NEW p \in Plugins,
                      pl.want[p] # Absent, capped'[w][p] = g
               PROVE  pl.rank[p] >= Cap
    BY DEF RefusedRankLow
  <2> QED
    BY <1>2
<1>c. WantedAccounted'
  <2> SUFFICES ASSUME NEW w \in Windows, state'[w] = "loaded", NEW p \in Plugins,
                      pl.want[p] # Absent
               PROVE  <<p, w>> \in Keys(active' \cup pending') \/ excuse'[w][p] # "none"
    BY DEF WantedAccounted, Loaded
  <2>1. CASE w \in W
    BY <1>2, <2>1
  <2>2. CASE w \notin W
    <3>1. state[w] = "loaded" /\ pl = plan /\ excuse'[w] = excuse[w]
      BY <1>2, <2>2
    <3>2. <<p, w>> \in Keys(active \cup pending) \/ excuse[w][p] # "none"
      BY <1>1, <3>1 DEF WantedAccounted, Loaded
    <3>3. CASE <<p, w>> \in Keys(active \cup pending)
      <4>1. PICK a \in active \cup pending : Key(a) = <<p, w>>
        BY <3>3 DEF Keys
      <4>2. a.w \notin W
        BY <2>2, <4>1 DEF Key
      <4>3. a \in active' \cup pending'
        BY <1>2, <4>2
      <4> QED
        BY <4>1, <4>3 DEF Keys
    <3> QED
      BY <3>1, <3>2, <3>3
  <2> QED
    BY <2>1, <2>2
<1>d. PlanIsPlan'
  BY DEF PlanIsPlan, DistinctRanks
<1> QED
  BY <1>a, <1>b, <1>c, <1>d DEF FullInv

LEMMA InitFullInv == Init => FullInv
<1> SUFFICES ASSUME Init PROVE FullInv
  OBVIOUS
<1>1. Inv
  BY InitInv
<1>2. active = {} /\ pending = {} /\ plan = EmptyPlan /\ planGeneration = 0
      /\ state = [w \in Windows |-> "none"]
  BY DEF Init
<1>a. CapHeld
  <2>1. \A w : {a \in active \cup pending : a.w = w} = {}
    BY <1>2
  <2> QED
    BY <2>1, FS_EmptySet, CapAssumption DEF CapHeld
<1>b. RefusedRankLow
  BY <1>2 DEF RefusedRankLow, EmptyPlan
<1>c. WantedAccounted
  BY <1>2 DEF WantedAccounted, Loaded
<1>d. PlanIsPlan
  BY <1>2 DEF PlanIsPlan, DistinctRanks, EmptyPlan
<1> QED
  BY <1>1, <1>a, <1>b, <1>c, <1>d DEF FullInv

\* A refusal under the new generation is one of this step.
LEMMA ApplyPlanKeepsFullInv ==
  ASSUME FullInv, NEW pl \in Plans, ApplyPlan(pl)
  PROVE  FullInv'
<1> DEFINE g == planGeneration + 1
           adds == ~quitting
<1>0. Inv
  BY DEF FullInv
<1>1. /\ pl \in Plan /\ DistinctRanks(pl) /\ Loaded \in SUBSET Windows
      /\ planGeneration \in Nat /\ g \in Nat /\ g # 0 /\ nav \in [Windows -> Nat]
      /\ adds \in BOOLEAN /\ {} \in SUBSET Plugins
  BY <1>0, PlansAssumption DEF Inv, TypeOK, Loaded, DistinctRanks
<1>2. /\ Reconcile(Loaded, pl, g, nav, active, pending, {}, adds)
      /\ plan' = pl /\ planGeneration' = g /\ state' = state
  BY DEF ApplyPlan
<1>3. Inv'
  BY <1>0, ApplyPlanKeepsInv
<1>4. \A w \in Windows, p \in Plugins : capped[w][p] # g
  <2> SUFFICES ASSUME NEW w \in Windows, NEW p \in Plugins PROVE capped[w][p] # g
    OBVIOUS
  <2>1. capped[w][p] <= planGeneration /\ capped[w][p] \in Nat
    BY <1>0 DEF Inv, RefusalsAreRecent, TypeOK
  <2> QED
    BY <1>1, <2>1
<1>5. \A w \in Windows \ Loaded : ~(state'[w] = "loaded")
  BY <1>2 DEF Loaded
<1>6. active \in SUBSET active /\ pending \in SUBSET pending
  OBVIOUS
<1> HIDE DEF g, adds
<1> QED
  BY <1>1, <1>2, <1>3, <1>4, <1>5, <1>6, ReconcileKeepsFullInv

\* A refusal under the current generation was for a low rank already.
LEMMA FinishLoadKeepsFullInv ==
  ASSUME FullInv, NEW w \in Windows, FinishLoad(w)
  PROVE  FullInv'
<1> DEFINE act == {a \in active : a.w # w}
           pend == {a \in pending : a.w # w}
           nv == [nav EXCEPT ![w] = @ + 1]
           adds == TRUE
<1>0. Inv /\ RefusedRankLow /\ PlanIsPlan
  BY DEF FullInv
<1>1. /\ plan \in Plan /\ planGeneration \in Nat /\ nv \in [Windows -> Nat]
      /\ abused \in SUBSET Plugins /\ state \in [Windows -> WindowState]
      /\ act \in SUBSET active /\ pend \in SUBSET pending /\ {w} \in SUBSET Windows
      /\ adds \in BOOLEAN
  BY <1>0 DEF Inv, TypeOK
<1>2. /\ Reconcile({w}, plan, planGeneration, nv, act, pend, abused, adds)
      /\ plan' = plan /\ planGeneration' = planGeneration
      /\ state' = [state EXCEPT ![w] = "loaded"]
  BY DEF FinishLoad
<1>3. Inv'
  BY <1>0, FinishLoadKeepsInv
<1>4. /\ DistinctRanks(plan) /\ (planGeneration = 0 => plan = EmptyPlan)
      /\ \A v \in Windows, p \in Plugins :
           plan.want[p] # Absent /\ capped[v][p] = planGeneration => plan.rank[p] >= Cap
  BY <1>0 DEF PlanIsPlan, RefusedRankLow
<1>5. \A v \in Windows \ {w} : state'[v] = "loaded" => state[v] = "loaded"
  BY <1>1, <1>2
<1> HIDE DEF act, pend, nv, adds
<1> QED
  BY <1>1, <1>2, <1>3, <1>4, <1>5, ReconcileKeepsFullInv

LEMMA DestroyedKeepsFullInv ==
  ASSUME FullInv, NEW w \in Windows, Destroyed(w)
  PROVE  FullInv'
<1>0. Inv /\ TypeOK
  BY DEF FullInv, Inv
<1>1. /\ state' = [state EXCEPT ![w] = "dead"]
      /\ pending' = {a \in pending : a.w # w}
      /\ active' = active \ {a \in active : a.w = w}
      /\ capped' = [capped EXCEPT ![w] = [p \in Plugins |-> 0]]
      /\ excuse' = [excuse EXCEPT ![w] = [p \in Plugins |-> "none"]]
      /\ UNCHANGED <<plan, planGeneration>>
  BY DEF Destroyed, runtimeVars
<1>2. Inv'
  BY <1>0, DestroyedKeepsInv
<1>3. \A v \in Windows, p \in Plugins : capped'[v][p] = capped[v][p] \/ capped'[v][p] = 0
  BY <1>0, <1>1 DEF TypeOK
<1>4. \A v \in Windows : state'[v] = "loaded" => v # w /\ state[v] = "loaded"
  BY <1>0, <1>1 DEF TypeOK
<1>5. \A v \in Windows : v # w => excuse'[v] = excuse[v]
  BY <1>0, <1>1 DEF TypeOK
<1>6. \A a \in (active \cup pending) \ (active' \cup pending') : a.w = w /\ a.w \in Windows
  BY <1>0, <1>1 DEF TypeOK, Attempt
<1>7. active' \cup pending' \subseteq active \cup pending
  BY <1>1
<1>8. \A a \in (active \cup pending) \ (active' \cup pending') : ~(state'[a.w] = "loaded")
  BY <1>4, <1>6
<1> QED
  BY <1>1, <1>2, <1>3, <1>4, <1>5, <1>7, <1>8, FewerKeepFullInv

\* What Fails(a) writes.
LEMMA FailsLeavesExcuse ==
  ASSUME TypeOK, NEW a \in Attempt, Fails(a)
  PROVE  /\ state[a.w] = "loaded" => excuse'[a.w][a.p] # "none"
         /\ \A w \in Windows, p \in Plugins :
              state[w] = "loaded" /\ excuse[w][p] # "none" => excuse'[w][p] # "none"
<1>1. a.w \in Windows /\ a.p \in Plugins
  BY DEF Attempt
<1>2. \A w \in Windows, p \in Plugins :
        excuse'[w][p] = IF w = a.w /\ p = a.p
                        THEN IF state[a.w] = "dead" THEN "none" ELSE "failed"
                        ELSE excuse[w][p]
  BY <1>1 DEF Fails, TypeOK
<1> QED
  BY <1>1, <1>2

LEMMA ContinueKeepsFullInv ==
  ASSUME FullInv, NEW a \in loaders, Continue(a)
  PROVE  FullInv'
<1>0. Inv /\ TypeOK /\ a \in Attempt
  BY DEF FullInv, Inv, TypeOK
<1>1. /\ pending' = pending \ {a}
      /\ UNCHANGED <<plan, planGeneration, state, capped>>
  BY DEF Continue, Unreserve, windowVars
<1>2. \/ UNCHANGED <<active, excuse>> /\ a \notin pending
      \/ a \in pending /\ active' = active /\ Fails(a)
      \/ a \in pending /\ active' = active \cup {a} /\ UNCHANGED excuse
  BY DEF Continue, LoadThrows, Abandon, Register
<1>3. active' \cup pending' \subseteq active \cup pending
  BY <1>1, <1>2
<1>4. \A b \in (active \cup pending) \ (active' \cup pending') : b = a /\ Fails(a)
  BY <1>1, <1>2
<1>5. \A w \in Windows, p \in Plugins :
        state'[w] = "loaded" /\ excuse[w][p] # "none" => excuse'[w][p] # "none"
  BY <1>0, <1>1, <1>2, FailsLeavesExcuse
<1>6. \A b \in (active \cup pending) \ (active' \cup pending') :
        state'[b.w] = "loaded" => excuse'[b.w][b.p] # "none"
  BY <1>0, <1>1, <1>4, FailsLeavesExcuse
<1>7. Inv'
  BY <1>0, ContinueKeepsInv
<1> QED
  BY <1>1, <1>3, <1>5, <1>6, <1>7, FewerKeepFullInv

LEMMA ActivateSettlesKeepsFullInv ==
  ASSUME FullInv, NEW a \in watching, ActivateSettles(a)
  PROVE  FullInv'
<1>0. Inv /\ TypeOK /\ a \in Attempt
  BY DEF FullInv, Inv, TypeOK
<1>1. UNCHANGED <<plan, planGeneration, state, capped, pending>>
  BY DEF ActivateSettles, runtimeVars, windowVars
<1>2. \/ UNCHANGED <<active, excuse>>
      \/ active' = active \ {a} /\ Fails(a)
  BY DEF ActivateSettles
<1>3. active' \cup pending' \subseteq active \cup pending
  BY <1>1, <1>2
<1>4. \A b \in (active \cup pending) \ (active' \cup pending') : b = a /\ Fails(a)
  BY <1>1, <1>2
<1>5. \A w \in Windows, p \in Plugins :
        state'[w] = "loaded" /\ excuse[w][p] # "none" => excuse'[w][p] # "none"
  BY <1>0, <1>1, <1>2, FailsLeavesExcuse
<1>6. \A b \in (active \cup pending) \ (active' \cup pending') :
        state'[b.w] = "loaded" => excuse'[b.w][b.p] # "none"
  BY <1>0, <1>1, <1>4, FailsLeavesExcuse
<1>7. Inv'
  BY <1>0, ActivateSettlesKeepsInv
<1> QED
  BY <1>1, <1>3, <1>5, <1>6, <1>7, FewerKeepFullInv

LEMMA NextKeepsFullInv == FullInv /\ [Next]_vars => FullInv'
<1> SUFFICES ASSUME FullInv, [Next]_vars PROVE FullInv'
  OBVIOUS
<1>0. TypeOK /\ Inv'
  BY NextKeepsInv DEF FullInv, Inv
<1>1. ASSUME NEW pl \in Plans, ApplyPlan(pl) PROVE FullInv'
  BY <1>1, ApplyPlanKeepsFullInv
<1>2. ASSUME NEW w \in Windows, FinishLoad(w) PROVE FullInv'
  BY <1>2, FinishLoadKeepsFullInv
<1>3. ASSUME NEW w \in Windows, Destroyed(w) PROVE FullInv'
  BY <1>3, DestroyedKeepsFullInv
<1>4. ASSUME NEW a \in loaders, Continue(a) PROVE FullInv'
  BY <1>4, ContinueKeepsFullInv
<1>5. ASSUME NEW a \in watching, ActivateSettles(a) PROVE FullInv'
  BY <1>5, ActivateSettlesKeepsFullInv
<1>6. ASSUME UNCHANGED <<plan, planGeneration, active, pending, capped, excuse>>,
             \A v \in Windows : state'[v] = "loaded" => state[v] = "loaded"
      PROVE  FullInv'
  BY <1>0, <1>6, FewerKeepFullInv
<1>7. ASSUME NEW w \in Windows, WindowCreated(w) PROVE FullInv'
  <2>1. /\ state' = [state EXCEPT ![w] = "open"]
        /\ UNCHANGED <<plan, planGeneration, active, pending, capped, excuse>>
    BY <1>7 DEF WindowCreated, loadVars
  <2>2. \A v \in Windows : state'[v] = "loaded" => state[v] = "loaded"
    BY <1>0, <2>1 DEF TypeOK
  <2> QED
    BY <1>6, <2>1, <2>2
<1>8. ASSUME UNCHANGED <<plan, planGeneration, windowVars, loadVars, excuse>>
      PROVE  FullInv'
  BY <1>6, <1>8 DEF windowVars, loadVars
<1>9. ASSUME NEW a \in handed, ServiceHanded(a) PROVE FullInv'
  BY <1>8, <1>9 DEF ServiceHanded
<1>10. ASSUME NEW a \in active, Exhaust(a) PROVE FullInv'
  BY <1>8, <1>10 DEF Exhaust
<1>11. CASE BeforeQuit \/ Resume
  BY <1>8, <1>11 DEF BeforeQuit, Resume
<1>12. CASE UNCHANGED vars
  BY <1>8, <1>12 DEF vars, runtimeVars
<1> QED
  BY <1>1, <1>2, <1>3, <1>4, <1>5, <1>7, <1>9, <1>10, <1>11, <1>12 DEF Next

LEMMA FullInvariance == Spec => []FullInv
<1>1. Init => FullInv
  BY InitFullInv
<1>2. FullInv /\ [Next]_vars => FullInv'
  BY NextKeepsFullInv
<1> QED
  BY <1>1, <1>2, PTL DEF Spec

\* For any plugins, windows, plans and cap: revisions that reorder the plan, navigations and
\* loads still under way never put more than Cap plugins in a window.
THEOREM CapAlwaysHeld == Spec => []CapHeld
<1>1. FullInv => CapHeld
  BY DEF FullInv
<1> QED
  BY <1>1, FullInvariance, PTL

\* A plugin among the first Cap of the plan is never refused for lack of room, whatever was
\* registered or loading in the window when the plan arrived; one that is refused is neither
\* registered nor loading there while the plan generation lasts.
THEOREM RefusalsAlwaysInOrder == Spec => []RefusalsInOrder
<1>1. FullInv => FirstInPlanOrderWin
  BY DEF FullInv, RefusedRankLow, FirstInPlanOrderWin, Loaded
<1>2. FullInv => RefusedStaysOut
  BY DEF FullInv, Inv
<1> QED
  BY <1>1, <1>2, FullInvariance, PTL DEF RefusalsInOrder

\* No interleaving drops a wanted plugin from a loaded window without a recorded cause.
THEOREM WantedAlwaysAccounted == Spec => []WantedAccounted
<1>1. FullInv => WantedAccounted
  BY DEF FullInv
<1> QED
  BY <1>1, FullInvariance, PTL
=============================================================================
