-------------------------- MODULE CssReconcile_proofs --------------------------
(***************************************************************************)
(* Proofs about manifest style sheets, for any plugins, style sheets,      *)
(* plans, number of attempts and of generations.                           *)
(***************************************************************************)
EXTENDS CssReconcile, TLAPS

Lost == {l[1] : l \in lost}

\* Sheets and chains belong to the plugin they are kept for, and none is of a generation
\* still to come.
Owned ==
  /\ \A p \in Plugins : keys[p] # NoSheet => keys[p].p = p
  /\ \A j \in jobs : j.sheet # NoSheet => j.sheet.p = j.p
  /\ \A j \in jobs : j.gen <= gens[j.p]
  /\ \A s \in Registered \cup InHand \cup Lost : s.gen <= gens[s.p]

\* A generation of a plugin has one chain, its injection or its revocation; and while its
\* sheet is still to be inserted, there is no such sheet.
OneChain ==
  /\ \A i, j \in jobs : (i.p = j.p /\ i.gen = j.gen /\ i.kind # "drop" /\ j.kind # "drop") => i = j
  /\ \A j \in jobs : j.kind = "inject" =>
       \A s \in Registered \cup InHand \cup Lost : ~(s.p = j.p /\ s.gen = j.gen)

\* The injection of the current generation is for what the plan wants, and nothing is
\* registered in the meantime: any other reconcile starts a generation of its own.
CurrentInjection ==
  \A j \in jobs : (j.kind = "inject" /\ j.gen = gens[j.p]) =>
     keys[j.p] = NoSheet /\ want[j.p] = j.css

\* What is wanted is there or on its way, what is not wanted is not registered.
OnItsWay ==
  \A p \in Plugins \ failed :
     IF want[p] = NoCss THEN keys[p] = NoSheet
     ELSE \/ keys[p] # NoSheet /\ keys[p].css = want[p]
          \/ \E j \in jobs : j.kind = "inject" /\ j.p = p /\ j.gen = gens[p]

Inv ==
  /\ TypeOK
  /\ Owned /\ OneChain /\ CurrentInjection
  /\ SheetsAccounted
  /\ OnItsWay

-----------------------------------------------------------------------------
\* A chain, by its kind.
LEMMA JobHas ==
  ASSUME NEW j \in Job
  PROVE  /\ j.kind \in {"inject", "revoke", "drop"} /\ j.p \in Plugins /\ j.gen \in 1..MaxGen
         /\ j.attempt \in 1..MaxAttempts /\ j.sheet \in Sheet \cup {NoSheet}
         /\ j.kind = "inject" => j.css \in Css
         /\ j.kind # "inject" => j.sheet \in Sheet
  BY DEF Job

LEMMA SheetHas ==
  ASSUME NEW s \in Sheet
  PROVE  s.p \in Plugins /\ s.gen \in 1..MaxGen /\ s.css \in Css /\ s # NoSheet
  BY SheetAssumption DEF Sheet

\* The chains a reconcile starts: of each plugin at most one, of a new generation, which
\* takes over the sheet that was registered.
Started(new, wanted) ==
  /\ new \subseteq Job
  /\ \A j \in new : /\ Forgets(j.p, wanted)
                    /\ j.gen = gens[j.p] + 1 /\ j.sheet = keys[j.p]
                    /\ \/ j.kind = "inject" /\ j.css = wanted[j.p]
                       \/ j.kind = "revoke"
  /\ \A i, j \in new : i.p = j.p => i = j
  /\ \A p \in Plugins : Injects(p, wanted) => \E j \in new : j.p = p /\ j.kind = "inject"
  /\ \A p \in Plugins : Forgets(p, wanted) /\ keys[p] # NoSheet => \E j \in new : j.p = p

LEMMA ReconcileStarts ==
  ASSUME TypeOK, NEW wanted \in [Plugins -> Css \cup {NoCss}], Reconcile(wanted)
  PROVE  /\ gens' \in [Plugins -> 0..MaxGen]
         /\ \A p \in Plugins : gens'[p] = IF Forgets(p, wanted) THEN gens[p] + 1 ELSE gens[p]
         /\ \A p \in Plugins : keys'[p] = IF Forgets(p, wanted) THEN NoSheet ELSE keys[p]
         /\ \E new \in SUBSET Job : Started(new, wanted) /\ jobs' = jobs \cup new
<1>1. /\ \A p \in Plugins : gens'[p] = IF Forgets(p, wanted) THEN gens[p] + 1 ELSE gens[p]
      /\ \A p \in Plugins : keys'[p] = IF Forgets(p, wanted) THEN NoSheet ELSE keys[p]
  BY DEF Reconcile, Forgets
<1>2. gens' \in [Plugins -> 0..MaxGen]
  <2>1. \A p \in Plugins : gens'[p] \in 0..MaxGen
    BY <1>1, AttemptsAssumption DEF TypeOK, Reconcile
  <2> QED
    BY <2>1 DEF Reconcile
<1> DEFINE injection(p) == [kind |-> "inject", p |-> p, gen |-> gens'[p], css |-> wanted[p],
                            sheet |-> keys[p], attempt |-> 1]
           revocation(p) == [kind |-> "revoke", p |-> p, gen |-> gens'[p], sheet |-> keys[p],
                             attempt |-> 1]
           new == {injection(p) : p \in {q \in Plugins : Injects(q, wanted)}}
                  \cup {revocation(p) : p \in {q \in Plugins : Revokes(q, wanted) /\ keys[q] # NoSheet}}
<1>3. jobs' = jobs \cup new
  BY DEF Reconcile
<1>4. \A p \in Plugins : Forgets(p, wanted) => gens'[p] = gens[p] + 1 /\ gens'[p] \in 1..MaxGen
  BY <1>1, <1>2, AttemptsAssumption DEF TypeOK
<1>5. \A p \in Plugins : Injects(p, wanted) =>
         injection(p) \in Job /\ wanted[p] \in Css /\ Forgets(p, wanted)
  BY <1>4, AttemptsAssumption DEF Injects, Forgets, TypeOK, Job
<1>6. \A p \in Plugins : Revokes(p, wanted) /\ keys[p] # NoSheet =>
         revocation(p) \in Job /\ ~Injects(p, wanted) /\ Forgets(p, wanted)
  BY <1>4, AttemptsAssumption DEF Revokes, Injects, Forgets, TypeOK, Job
<1>7. new \subseteq Job
  BY <1>5, <1>6
<1>8. \A j \in new : /\ Forgets(j.p, wanted)
                     /\ j.gen = gens[j.p] + 1 /\ j.sheet = keys[j.p]
                     /\ \/ j.kind = "inject" /\ j.css = wanted[j.p]
                        \/ j.kind = "revoke"
  BY <1>4, <1>5, <1>6
<1>9. \A i, j \in new : i.p = j.p => i = j
  BY <1>6
<1>10. \A p \in Plugins : Injects(p, wanted) => \E j \in new : j.p = p /\ j.kind = "inject"
  <2> SUFFICES ASSUME NEW p \in Plugins, Injects(p, wanted)
               PROVE  \E j \in new : j.p = p /\ j.kind = "inject"
    OBVIOUS
  <2>1. injection(p) \in new /\ injection(p).p = p /\ injection(p).kind = "inject"
    OBVIOUS
  <2> QED
    BY <2>1
<1>11. \A p \in Plugins : Forgets(p, wanted) /\ keys[p] # NoSheet => \E j \in new : j.p = p
  <2> SUFFICES ASSUME NEW p \in Plugins, Forgets(p, wanted), keys[p] # NoSheet
               PROVE  \E j \in new : j.p = p
    OBVIOUS
  <2>1. CASE Injects(p, wanted)
    BY <1>10, <2>1
  <2>2. CASE ~Injects(p, wanted)
    <3>1. revocation(p) \in new /\ revocation(p).p = p
      BY <2>2 DEF Forgets
    <3> QED
      BY <3>1
  <2> QED
    BY <2>1, <2>2
<1> HIDE DEF new, injection, revocation
<1> QED
  BY <1>1, <1>2, <1>3, <1>7, <1>8, <1>9, <1>10, <1>11 DEF Started

-----------------------------------------------------------------------------
\* Init and each action keep Inv.
LEMMA InitHasInv == Init => Inv
  BY AttemptsAssumption
  DEF Init, Inv, TypeOK, Owned, OneChain, CurrentInjection, SheetsAccounted, OnItsWay,
      Registered, InHand, Lost

LEMMA ReconcileKeeps ==
  ASSUME Inv, NEW wanted \in [Plugins -> Css \cup {NoCss}], Reconcile(wanted)
  PROVE  Inv'
<1> USE DEF Inv
<1>1. PICK new \in SUBSET Job : Started(new, wanted) /\ jobs' = jobs \cup new
  BY ReconcileStarts
<1>2. /\ gens' \in [Plugins -> 0..MaxGen]
      /\ \A p \in Plugins : gens'[p] = IF Forgets(p, wanted) THEN gens[p] + 1 ELSE gens[p]
      /\ \A p \in Plugins : keys'[p] = IF Forgets(p, wanted) THEN NoSheet ELSE keys[p]
  BY ReconcileStarts
<1>3. want' = wanted /\ failed' = {} /\ UNCHANGED <<alive, applied, lost>>
  BY DEF Reconcile
<1>4. keys' \in [Plugins -> Sheet \cup {NoSheet}]
  BY DEF Reconcile, TypeOK
<1>5. TypeOK'
  BY <1>1, <1>2, <1>3, <1>4 DEF TypeOK
<1>6. \A j \in new : /\ j \in Job /\ j.p \in Plugins /\ j.gen = gens[j.p] + 1
                      /\ j.gen = gens'[j.p] /\ j.sheet = keys[j.p]
  BY <1>1, <1>2, JobHas DEF Started
\* Sheets change hands only: what is forgotten is what the new chains take over.
<1>7. \A s : s \in Registered' <=>
         \E p \in Plugins : ~Forgets(p, wanted) /\ s = keys[p] /\ s # NoSheet
  BY <1>2 DEF Registered
<1>8. \A s : s \in InHand' <=>
         s \in InHand \/ \E p \in Plugins : Forgets(p, wanted) /\ s = keys[p] /\ s # NoSheet
  <2>1. \A s : s \in InHand' <=> s \in InHand \/ \E j \in new : s = j.sheet /\ s # NoSheet
    BY <1>1 DEF InHand
  <2>2. \A p \in Plugins : Forgets(p, wanted) /\ keys[p] # NoSheet =>
           \E j \in new : j.sheet = keys[p]
    BY <1>1, <1>6 DEF Started
  <2>3. \A j \in new : Forgets(j.p, wanted)
    BY <1>1 DEF Started
  <2> QED
    BY <1>6, <2>1, <2>2, <2>3
<1>9. Lost' = Lost
  BY <1>3 DEF Lost
<1>10. (Registered \cup InHand \cup Lost)' = Registered \cup InHand \cup Lost
  BY <1>7, <1>8, <1>9 DEF Registered
<1>11. \A p \in Plugins : gens[p] \in Nat /\ gens'[p] \in Nat /\ gens[p] <= gens'[p]
  BY <1>2, AttemptsAssumption DEF TypeOK
<1>12. Registered \cup InHand \cup Lost \subseteq Sheet
  BY JobHas DEF TypeOK, Registered, InHand, Lost
<1>13. Owned'
  <2>1. \A p \in Plugins : keys'[p] # NoSheet => keys'[p].p = p
    BY <1>2 DEF Owned
  <2>2. \A j \in jobs' : j.sheet # NoSheet => j.sheet.p = j.p
    BY <1>1, <1>6 DEF Owned
  <2>3. \A j \in jobs' : j.gen <= gens'[j.p]
    <3>1. \A j \in jobs : j.gen \in Nat /\ j.p \in Plugins /\ j.gen <= gens[j.p]
      BY JobHas, AttemptsAssumption DEF Owned, TypeOK
    <3> QED
      BY <1>1, <1>6, <1>11, <3>1
  <2>4. \A s \in Registered \cup InHand \cup Lost : s.gen <= gens'[s.p]
    BY <1>11, <1>12, SheetHas, AttemptsAssumption DEF Owned
  <2> QED
    BY <1>10, <2>1, <2>2, <2>3, <2>4 DEF Owned
<1>14. OneChain'
  <2>1. \A i \in jobs, j \in new : i.p = j.p => i.gen # j.gen
    <3>1. \A i \in jobs : i.gen \in Nat /\ i.p \in Plugins /\ i.gen <= gens[i.p]
      BY JobHas, AttemptsAssumption DEF Owned, TypeOK
    <3> QED
      BY <1>6, <1>11, <3>1
  <2>2. \A i, j \in jobs' : (i.p = j.p /\ i.gen = j.gen /\ i.kind # "drop" /\ j.kind # "drop")
                             => i = j
    BY <1>1, <2>1 DEF OneChain, Started
  <2>3. \A j \in new : \A s \in Registered \cup InHand \cup Lost : ~(s.p = j.p /\ s.gen = j.gen)
    BY <1>6, <1>11, <1>12, SheetHas DEF Owned
  <2> QED
    BY <1>1, <1>10, <2>2, <2>3 DEF OneChain
<1>15. CurrentInjection'
  <2> SUFFICES ASSUME NEW j \in jobs', j.kind = "inject", j.gen = gens'[j.p]
               PROVE  keys'[j.p] = NoSheet /\ wanted[j.p] = j.css
    BY <1>3 DEF CurrentInjection
  <2>1. CASE j \in new
    BY <1>1, <1>2, <1>6, <2>1 DEF Started
  <2>2. CASE j \in jobs
    <3>1. j \in Job /\ j.p \in Plugins /\ j.gen \in Nat /\ j.gen > 0 /\ j.css \in Css
      BY <2>2, JobHas, AttemptsAssumption DEF TypeOK
    <3>2. ~Forgets(j.p, wanted) /\ j.gen = gens[j.p]
      BY <1>2, <1>11, <2>2, <3>1 DEF Owned
    <3>3. keys[j.p] = NoSheet
      BY <2>2, <3>2 DEF CurrentInjection
    <3>4. Forgets(j.p, wanted)
      BY <3>1, <3>2, <3>3 DEF Forgets, Injects, Revokes
    <3> QED
      BY <3>2, <3>4
  <2> QED
    BY <1>1, <2>1, <2>2
<1>16. SheetsAccounted'
  <2>1. \A p, q \in Plugins : keys[p] = keys[q] /\ keys[p] # NoSheet => p = q
    BY DEF Owned
  <2>2. Registered' \cap InHand' = {}
    BY <1>7, <1>8, <2>1 DEF SheetsAccounted, Registered
  <2>3. \A l \in lost' : l[1] \notin Registered' \cup InHand'
    BY <1>3, <1>7, <1>8 DEF SheetsAccounted, Registered
  <2>4. \A i, j \in jobs' : i.sheet = j.sheet /\ i.sheet # NoSheet => i = j
    <3>1. \A i \in jobs, j \in new : i.sheet # NoSheet => i.sheet # j.sheet
      BY <1>6 DEF SheetsAccounted, Registered, InHand
    <3>2. \A i, j \in new : i.sheet = j.sheet /\ i.sheet # NoSheet => i = j
      BY <1>1, <1>6, <2>1 DEF Started
    <3> QED
      BY <1>1, <3>1, <3>2 DEF SheetsAccounted
  <2>5. alive' => applied' = Registered' \cup InHand' \cup {l[1] : l \in lost'}
    BY <1>3, <1>10 DEF SheetsAccounted, Lost
  <2> QED
    BY <2>2, <2>3, <2>4, <2>5 DEF SheetsAccounted
<1>17. OnItsWay'
  <2> SUFFICES ASSUME NEW p \in Plugins
               PROVE  IF wanted[p] = NoCss THEN keys'[p] = NoSheet
                      ELSE \/ keys'[p] # NoSheet /\ keys'[p].css = wanted[p]
                           \/ \E j \in jobs' : j.kind = "inject" /\ j.p = p /\ j.gen = gens'[p]
    BY <1>3 DEF OnItsWay
  <2>1. CASE wanted[p] = NoCss
    BY <1>2, <2>1 DEF Forgets, Injects, Revokes
  <2>2. CASE wanted[p] # NoCss /\ Injects(p, wanted)
    BY <1>1, <1>6, <2>2 DEF Started
  <2>3. CASE wanted[p] # NoCss /\ ~Injects(p, wanted)
    BY <1>2, <2>3 DEF Forgets, Injects, Revokes
  <2> QED
    BY <2>1, <2>2, <2>3
<1> QED
  BY <1>5, <1>13, <1>14, <1>15, <1>16, <1>17

LEMMA DestroyedKeeps ==
  ASSUME Inv, Destroyed
  PROVE  Inv'
<1>1. /\ alive' = FALSE /\ applied' = {}
      /\ UNCHANGED <<want, gens, keys, jobs, lost, failed>>
  BY DEF Destroyed
<1>2. TypeOK'
  BY <1>1 DEF Inv, TypeOK
<1>3. Owned' /\ OneChain' /\ CurrentInjection'
  BY <1>1 DEF Inv, Owned, OneChain, CurrentInjection, Registered, InHand, Lost
<1>4. SheetsAccounted'
  BY <1>1 DEF Inv, SheetsAccounted, Registered, InHand
<1>5. OnItsWay'
  BY <1>1 DEF Inv, OnItsWay
<1> QED
  BY <1>2, <1>3, <1>4, <1>5 DEF Inv

\* Chain j ends, or goes on with or without its sheet: other chains are not disturbed.
Continues(j, next) ==
  /\ next \subseteq Job
  /\ \A k \in next : /\ k.kind = j.kind /\ k.p = j.p /\ k.gen = j.gen
                     /\ k.kind = "inject" => k.css = j.css
                     /\ k.sheet \in {j.sheet, NoSheet}
  /\ \A k, l \in next : k = l

LEMMA ContinuesKeeps ==
  ASSUME Inv, NEW j \in jobs, NEW next, Continues(j, next),
         jobs' = (jobs \ {j}) \cup next, gens' = gens
  PROVE  /\ jobs' \subseteq Job
         /\ \A i \in jobs' : /\ i.sheet # NoSheet => i.sheet.p = i.p
                             /\ i.gen <= gens'[i.p]
                             /\ i.kind = "inject" =>
                                  \E k \in jobs : /\ k.kind = "inject" /\ k.p = i.p
                                                 /\ k.gen = i.gen /\ k.css = i.css
         /\ \A i, k \in jobs' : (i.p = k.p /\ i.gen = k.gen /\ i.kind # "drop" /\ k.kind # "drop")
                                => i = k
         /\ \A i, k \in jobs' : i.sheet = k.sheet /\ i.sheet # NoSheet => i = k
         /\ InHand' = (InHand \ {j.sheet}) \cup ({k.sheet : k \in next} \ {NoSheet})
<1> USE DEF Inv
<1>1. jobs' \subseteq Job
  BY DEF Continues, TypeOK
<1>2. \A i \in jobs' : /\ i.sheet # NoSheet => i.sheet.p = i.p
                      /\ i.gen <= gens'[i.p]
  BY DEF Continues, Owned
<1>3. \A i \in jobs' : i.kind = "inject" =>
         \E k \in jobs : k.kind = "inject" /\ k.p = i.p /\ k.gen = i.gen /\ k.css = i.css
  BY DEF Continues
<1>4. \A i, k \in jobs' : (i.p = k.p /\ i.gen = k.gen /\ i.kind # "drop" /\ k.kind # "drop")
                          => i = k
  BY DEF Continues, OneChain
<1>5. \A i, k \in jobs' : i.sheet = k.sheet /\ i.sheet # NoSheet => i = k
  BY DEF Continues, SheetsAccounted
<1>6. InHand' = (InHand \ {j.sheet}) \cup ({k.sheet : k \in next} \ {NoSheet})
  BY DEF Continues, InHand, SheetsAccounted
<1> QED
  BY <1>1, <1>2, <1>3, <1>4, <1>5, <1>6

\* An injection under way is not forgotten as long as it goes on.
LEMMA ContinuesOnItsWay ==
  ASSUME Inv, NEW j \in jobs, NEW next, Continues(j, next),
         jobs' = (jobs \ {j}) \cup next, UNCHANGED <<want, gens>>, failed \subseteq failed',
         \A p \in Plugins \ failed' : keys'[p] = keys[p],
         next # {} \/ j.kind # "inject" \/ j.p \in failed'
  PROVE  OnItsWay'
<1> SUFFICES ASSUME NEW p \in Plugins \ failed'
             PROVE  IF want[p] = NoCss THEN keys[p] = NoSheet
                    ELSE \/ keys[p] # NoSheet /\ keys[p].css = want[p]
                         \/ \E i \in jobs' : i.kind = "inject" /\ i.p = p /\ i.gen = gens[p]
  BY DEF OnItsWay
<1>1. CASE want[p] = NoCss \/ (keys[p] # NoSheet /\ keys[p].css = want[p])
  BY <1>1 DEF Inv, OnItsWay
<1>2. CASE want[p] # NoCss /\ ~(keys[p] # NoSheet /\ keys[p].css = want[p])
  <2>1. PICK i \in jobs : i.kind = "inject" /\ i.p = p /\ i.gen = gens[p]
    BY <1>2 DEF Inv, OnItsWay
  <2>2. CASE i # j
    BY <1>2, <2>1, <2>2
  <2>3. CASE i = j
    BY <1>2, <2>1, <2>3 DEF Continues
  <2> QED
    BY <2>2, <2>3
<1> QED
  BY <1>1, <1>2

\* What goes on after a removal has settled is the same chain without its sheet.
LetsGo(j, next) ==
  /\ Continues(j, next)
  /\ \A k \in next : k.sheet = NoSheet
  /\ j.kind = "inject" => next # {}

LEMMA AfterRemovalContinues ==
  ASSUME Inv, NEW j \in jobs, Removing(j), AfterRemoval(j)
  PROVE  \E next \in SUBSET Job : LetsGo(j, next) /\ jobs' = (jobs \ {j}) \cup next
<1> DEFINE next == IF j.kind = "inject" THEN {[j EXCEPT !.sheet = NoSheet]} ELSE {}
<1>1. j \in Job
  BY DEF Inv, TypeOK
<1>2. j.kind = "inject" =>
        /\ [j EXCEPT !.sheet = NoSheet] \in Job
        /\ [j EXCEPT !.sheet = NoSheet].kind = j.kind /\ [j EXCEPT !.sheet = NoSheet].p = j.p
        /\ [j EXCEPT !.sheet = NoSheet].gen = j.gen /\ [j EXCEPT !.sheet = NoSheet].css = j.css
        /\ [j EXCEPT !.sheet = NoSheet].sheet = NoSheet
  BY <1>1 DEF Job
<1>3. Continues(j, next)
  BY <1>2 DEF Continues
<1>4. jobs' = (jobs \ {j}) \cup next /\ (j.kind = "inject" => next # {})
  BY DEF AfterRemoval
<1>5. \A k \in next : k.sheet = NoSheet
  BY <1>2
<1> HIDE DEF next
<1> QED
  BY <1>3, <1>4, <1>5 DEF LetsGo, Continues

LEMMA RemovedKeeps ==
  ASSUME Inv, NEW j \in jobs, Removed(j)
  PROVE  Inv'
<1>0. PICK next \in SUBSET Job : LetsGo(j, next) /\ jobs' = (jobs \ {j}) \cup next
  BY AfterRemovalContinues DEF Removed
<1>1. /\ Continues(j, next) /\ jobs' = (jobs \ {j}) \cup next
      /\ \A k \in next : k.sheet = NoSheet
      /\ j.kind = "inject" => next # {}
  BY <1>0 DEF LetsGo
<1> USE DEF Inv
<1>2. /\ j.sheet # NoSheet /\ applied' = applied \ {j.sheet}
      /\ UNCHANGED <<want, alive, gens, keys, lost, failed>>
  BY DEF Removed, Removing
<1>3. /\ jobs' \subseteq Job
      /\ \A i \in jobs' : /\ i.sheet # NoSheet => i.sheet.p = i.p
                          /\ i.gen <= gens'[i.p]
                          /\ i.kind = "inject" =>
                               \E k \in jobs : /\ k.kind = "inject" /\ k.p = i.p
                                              /\ k.gen = i.gen /\ k.css = i.css
      /\ \A i, k \in jobs' : (i.p = k.p /\ i.gen = k.gen /\ i.kind # "drop" /\ k.kind # "drop")
                             => i = k
      /\ \A i, k \in jobs' : i.sheet = k.sheet /\ i.sheet # NoSheet => i = k
      /\ InHand' = (InHand \ {j.sheet}) \cup ({k.sheet : k \in next} \ {NoSheet})
  BY <1>1, <1>2, ContinuesKeeps
<1>4. InHand' = InHand \ {j.sheet} /\ j.sheet \in InHand
  BY <1>1, <1>2, <1>3 DEF InHand
<1>5. Registered' = Registered /\ Lost' = Lost
  BY <1>2 DEF Registered, Lost
<1>6. TypeOK'
  BY <1>2, <1>3 DEF TypeOK
<1>7. Owned'
  BY <1>2, <1>3, <1>4, <1>5 DEF Owned
<1>8. OneChain'
  BY <1>3, <1>4, <1>5 DEF OneChain
<1>9. CurrentInjection'
  BY <1>2, <1>3 DEF CurrentInjection
<1>10. SheetsAccounted'
  <2>1. j.sheet \notin Registered \cup Lost
    BY <1>4 DEF SheetsAccounted, Lost
  <2>2. alive' => applied' = Registered' \cup InHand' \cup {l[1] : l \in lost'}
    BY <1>2, <1>4, <1>5, <2>1 DEF SheetsAccounted, Lost
  <2> QED
    BY <1>2, <1>3, <1>4, <1>5, <2>2 DEF SheetsAccounted
<1>11. OnItsWay'
  BY <1>1, <1>2, ContinuesOnItsWay
<1> QED
  BY <1>6, <1>7, <1>8, <1>9, <1>10, <1>11

LEMMA RemovalRetriedKeeps ==
  ASSUME Inv, NEW j \in jobs, RemovalRetried(j)
  PROVE  Inv'
<1> USE DEF Inv
<1> DEFINE again == [j EXCEPT !.attempt = @ + 1]
           next == {again}
<1>1. j \in Job /\ j.sheet # NoSheet /\ j.attempt \in 1..MaxAttempts /\ j.attempt # MaxAttempts
  BY JobHas DEF TypeOK, RemovalRetried, Removing, IsLastAttempt
<1>2. j.attempt + 1 \in 1..MaxAttempts
  BY <1>1, AttemptsAssumption
<1>3. /\ again \in Job /\ again.kind = j.kind /\ again.p = j.p /\ again.gen = j.gen
      /\ again.sheet = j.sheet /\ (j.kind = "inject" => again.css = j.css)
  BY <1>1, <1>2 DEF Job
<1>4. /\ Continues(j, next) /\ jobs' = (jobs \ {j}) \cup next /\ next # {}
      /\ {k.sheet : k \in next} = {j.sheet}
      /\ UNCHANGED <<want, alive, gens, keys, applied, lost, failed>>
  BY <1>3 DEF RemovalRetried, Continues
<1> HIDE DEF next
<1>5. /\ jobs' \subseteq Job
      /\ \A i \in jobs' : /\ i.sheet # NoSheet => i.sheet.p = i.p
                          /\ i.gen <= gens'[i.p]
                          /\ i.kind = "inject" =>
                               \E k \in jobs : /\ k.kind = "inject" /\ k.p = i.p
                                              /\ k.gen = i.gen /\ k.css = i.css
      /\ \A i, k \in jobs' : (i.p = k.p /\ i.gen = k.gen /\ i.kind # "drop" /\ k.kind # "drop")
                             => i = k
      /\ \A i, k \in jobs' : i.sheet = k.sheet /\ i.sheet # NoSheet => i = k
      /\ InHand' = (InHand \ {j.sheet}) \cup ({k.sheet : k \in next} \ {NoSheet})
  BY <1>4, ContinuesKeeps
<1>6. InHand' = InHand /\ Registered' = Registered /\ Lost' = Lost
  BY <1>1, <1>4, <1>5 DEF InHand, Registered, Lost
<1>7. TypeOK'
  BY <1>4, <1>5 DEF TypeOK
<1>8. Owned'
  BY <1>4, <1>5, <1>6 DEF Owned
<1>9. OneChain'
  BY <1>5, <1>6 DEF OneChain
<1>10. CurrentInjection'
  BY <1>4, <1>5 DEF CurrentInjection
<1>11. SheetsAccounted'
  BY <1>4, <1>5, <1>6 DEF SheetsAccounted
<1>12. OnItsWay'
  BY <1>4, ContinuesOnItsWay
<1> QED
  BY <1>7, <1>8, <1>9, <1>10, <1>11, <1>12

LEMMA RemovalFailsKeeps ==
  ASSUME Inv, NEW j \in jobs, RemovalFails(j)
  PROVE  Inv'
<1>0. PICK next \in SUBSET Job : LetsGo(j, next) /\ jobs' = (jobs \ {j}) \cup next
  BY AfterRemovalContinues DEF RemovalFails
<1>1. /\ Continues(j, next) /\ jobs' = (jobs \ {j}) \cup next
      /\ \A k \in next : k.sheet = NoSheet
      /\ j.kind = "inject" => next # {}
  BY <1>0 DEF LetsGo
<1> USE DEF Inv
<1>2. /\ j \in Job /\ j.p \in Plugins /\ j.sheet \in Sheet /\ j.sheet # NoSheet
      /\ j.sheet.p = j.p
      /\ failed' = failed \cup {j.p}
      /\ UNCHANGED <<want, alive, gens, applied>>
  BY JobHas DEF RemovalFails, Removing, TypeOK, Owned
<1>3. /\ jobs' \subseteq Job
      /\ \A i \in jobs' : /\ i.sheet # NoSheet => i.sheet.p = i.p
                          /\ i.gen <= gens'[i.p]
                          /\ i.kind = "inject" =>
                               \E k \in jobs : /\ k.kind = "inject" /\ k.p = i.p
                                              /\ k.gen = i.gen /\ k.css = i.css
      /\ \A i, k \in jobs' : (i.p = k.p /\ i.gen = k.gen /\ i.kind # "drop" /\ k.kind # "drop")
                             => i = k
      /\ \A i, k \in jobs' : i.sheet = k.sheet /\ i.sheet # NoSheet => i = k
      /\ InHand' = (InHand \ {j.sheet}) \cup ({k.sheet : k \in next} \ {NoSheet})
  BY <1>1, <1>2, ContinuesKeeps
<1>4. InHand' = InHand \ {j.sheet} /\ j.sheet \in InHand
  BY <1>1, <1>2, <1>3 DEF InHand
<1>5. j.sheet \notin Registered \cup Lost
  BY <1>4 DEF SheetsAccounted, Lost
\* Either way the sheet stays known; only its owner changes.
<1>6. CASE GivesBack(j)
  <2>1. keys' = [keys EXCEPT ![j.p] = j.sheet] /\ lost' = lost /\ keys[j.p] = NoSheet
    BY <1>6 DEF RemovalFails, GivesBack
  <2>2. Registered' = Registered \cup {j.sheet} /\ Lost' = Lost
    BY <1>2, <2>1 DEF Registered, Lost, TypeOK
  <2>3. TypeOK'
    BY <1>2, <1>3, <2>1 DEF TypeOK
  <2>4. Owned'
    BY <1>2, <1>3, <1>4, <2>1, <2>2 DEF Owned, TypeOK
  <2>5. OneChain'
    BY <1>3, <1>4, <2>2 DEF OneChain
  <2>6. CurrentInjection'
    <3>1. \A k \in jobs : k.kind = "inject" /\ k.gen = gens[k.p] => k.p # j.p
      BY <1>6 DEF OneChain, GivesBack
    <3> QED
      BY <1>2, <1>3, <2>1, <3>1 DEF CurrentInjection, TypeOK
  <2>7. SheetsAccounted'
    <3>1. alive' => applied' = Registered' \cup InHand' \cup {l[1] : l \in lost'}
      BY <1>2, <1>4, <2>1, <2>2 DEF SheetsAccounted, Lost
    <3>2. \A l \in lost' : l[1] \notin Registered' \cup InHand'
      BY <1>4, <1>5, <2>1, <2>2 DEF SheetsAccounted, Lost
    <3> QED
      BY <1>3, <1>4, <2>2, <3>1, <3>2 DEF SheetsAccounted
  <2>8. OnItsWay'
    BY <1>1, <1>2, <2>1, ContinuesOnItsWay DEF TypeOK
  <2> QED
    BY <2>3, <2>4, <2>5, <2>6, <2>7, <2>8
<1>7. CASE ~GivesBack(j)
  <2>1. lost' = lost \cup {<<j.sheet, ReasonOf(j)>>} /\ keys' = keys
    BY <1>7 DEF RemovalFails
  <2>2. Registered' = Registered /\ Lost' = Lost \cup {j.sheet}
    <3>1. \A s : s \in Lost' <=> \E l \in lost' : s = l[1]
      BY DEF Lost
    <3>2. \A s : s \in Lost <=> \E l \in lost : s = l[1]
      BY DEF Lost
    <3>3. \A l \in lost' : l \in lost \/ l[1] = j.sheet
      BY <2>1
    <3>4. <<j.sheet, ReasonOf(j)>> \in lost' /\ <<j.sheet, ReasonOf(j)>>[1] = j.sheet /\ lost \subseteq lost'
      BY <2>1
    <3>5. Lost' = Lost \cup {j.sheet}
      BY <3>1, <3>2, <3>3, <3>4
    <3> QED
      BY <2>1, <3>5 DEF Registered
  <2>3. TypeOK'
    <3>1. ReasonOf(j) \in Reason
      BY DEF ReasonOf, Reason
    <3>2. lost' \subseteq Sheet \X Reason
      BY <1>2, <2>1, <3>1 DEF TypeOK
    <3> QED
      BY <1>2, <1>3, <2>1, <3>2 DEF TypeOK
  <2>4. Owned'
    BY <1>2, <1>3, <1>4, <2>1, <2>2 DEF Owned
  <2>5. OneChain'
    BY <1>3, <1>4, <2>2 DEF OneChain
  <2>6. CurrentInjection'
    BY <1>2, <1>3, <2>1 DEF CurrentInjection
  <2>7. SheetsAccounted'
    <3>1. alive' => applied' = Registered' \cup InHand' \cup {l[1] : l \in lost'}
      BY <1>2, <1>4, <2>2 DEF SheetsAccounted, Lost
    <3>2. \A l \in lost' : l[1] \notin Registered' \cup InHand'
      BY <1>4, <1>5, <2>1, <2>2 DEF SheetsAccounted, Lost
    <3> QED
      BY <1>3, <1>4, <2>2, <3>1, <3>2 DEF SheetsAccounted
  <2>8. OnItsWay'
    BY <1>1, <1>2, <2>1, ContinuesOnItsWay
  <2> QED
    BY <2>3, <2>4, <2>5, <2>6, <2>7, <2>8
<1> QED
  BY <1>6, <1>7

LEMMA InsertedKeeps ==
  ASSUME Inv, NEW j \in jobs, Inserted(j)
  PROVE  Inv'
<1> USE DEF Inv
<1> DEFINE sheet == [p |-> j.p, gen |-> j.gen, css |-> j.css]
<1>1. /\ j \in Job /\ j.sheet = NoSheet /\ j.kind = "inject"
      /\ j.p \in Plugins /\ j.gen \in 1..MaxGen /\ j.css \in Css
      /\ alive /\ applied' = applied \cup {sheet}
      /\ UNCHANGED <<want, alive, gens, lost, failed>>
  BY JobHas, SheetHas DEF Inserted, Removing, TypeOK
<1>2. sheet \in Sheet /\ sheet # NoSheet /\ sheet.p = j.p /\ sheet.gen = j.gen /\ sheet.css = j.css
  BY <1>1, SheetAssumption DEF Sheet
\* The sheet is new.
<1>3. sheet \notin Registered \cup InHand \cup Lost
  BY <1>1, <1>2 DEF OneChain
<1>4. Lost' = Lost
  BY <1>1 DEF Lost
<1>5. j.gen <= gens[j.p]
  BY DEF Owned
<1>6. CASE IsCurrent(j)
  <2>1. keys' = [keys EXCEPT ![j.p] = sheet] /\ jobs' = jobs \ {j}
    BY <1>6 DEF Inserted
  <2>2. keys[j.p] = NoSheet /\ want[j.p] = j.css
    BY <1>1, <1>6 DEF CurrentInjection, IsCurrent
  <2>3. Continues(j, {}) /\ jobs' = (jobs \ {j}) \cup {}
    BY <2>1 DEF Continues
  <2>4. Registered' = Registered \cup {sheet}
    BY <1>1, <1>2, <2>1, <2>2 DEF Registered, TypeOK
  <2>5. InHand' = InHand
    BY <1>1, <2>1 DEF InHand
  <2>6. TypeOK'
    BY <1>1, <1>2, <2>1 DEF TypeOK
  <2>7. Owned'
    BY <1>1, <1>2, <1>4, <1>5, <2>1, <2>4, <2>5 DEF Owned, TypeOK
  <2>8. OneChain'
    <3>1. \A i \in jobs' : i.kind = "inject" => ~(i.p = j.p /\ i.gen = j.gen)
      BY <1>1, <2>1 DEF OneChain
    <3> QED
      BY <1>2, <1>4, <2>1, <2>4, <2>5, <3>1 DEF OneChain
  <2>9. CurrentInjection'
    <3>1. \A i \in jobs' : i.kind = "inject" /\ i.gen = gens[i.p] => i.p # j.p
      BY <1>1, <1>6, <2>1 DEF OneChain, IsCurrent
    <3> QED
      BY <1>1, <2>1, <3>1 DEF CurrentInjection, TypeOK
  <2>10. SheetsAccounted'
    <3>1. alive' => applied' = Registered' \cup InHand' \cup {l[1] : l \in lost'}
      BY <1>1, <1>4, <2>4, <2>5 DEF SheetsAccounted
    <3>2. \A l \in lost' : l[1] \notin Registered' \cup InHand'
      BY <1>1, <1>3, <2>4, <2>5 DEF SheetsAccounted, Lost
    <3> QED
      BY <1>3, <2>1, <2>4, <2>5, <3>1, <3>2 DEF SheetsAccounted
  <2>11. OnItsWay'
    <3> SUFFICES ASSUME NEW p \in Plugins \ failed
                 PROVE  IF want[p] = NoCss THEN keys'[p] = NoSheet
                        ELSE \/ keys'[p] # NoSheet /\ keys'[p].css = want[p]
                             \/ \E i \in jobs' : i.kind = "inject" /\ i.p = p /\ i.gen = gens[p]
      BY <1>1 DEF OnItsWay
    <3>1. CASE p = j.p
      BY <1>1, <1>2, <2>1, <2>2, <3>1, CssAssumption DEF TypeOK
    <3>2. CASE p # j.p
      BY <2>1, <3>2 DEF OnItsWay, TypeOK
    <3> QED
      BY <3>1, <3>2
  <2> QED
    BY <2>6, <2>7, <2>8, <2>9, <2>10, <2>11
<1>7. CASE ~IsCurrent(j)
  <2> DEFINE drop == [kind |-> "drop", p |-> j.p, gen |-> j.gen, sheet |-> sheet, attempt |-> 1]
  <2>1. keys' = keys /\ jobs' = (jobs \ {j}) \cup {drop}
    BY <1>7 DEF Inserted, Drop
  <2>2. /\ drop \in Job /\ drop.kind = "drop" /\ drop.p = j.p /\ drop.gen = j.gen
        /\ drop.sheet = sheet
    BY <1>1, <1>2, AttemptsAssumption DEF Job
  <2> HIDE DEF drop
  <2>3. Registered' = Registered
    BY <2>1 DEF Registered
  <2>4. InHand' = InHand \cup {sheet}
    BY <1>1, <1>2, <2>1, <2>2 DEF InHand
  <2> HIDE DEF sheet
  <2>5. TypeOK'
    BY <1>1, <1>2, <2>1, <2>2 DEF TypeOK
  <2>6. Owned'
    BY <1>1, <1>2, <1>4, <1>5, <2>1, <2>2, <2>3, <2>4 DEF Owned
  <2>7. OneChain'
    <3>1. \A i \in jobs' : i.kind = "inject" => i \in jobs /\ ~(i.p = j.p /\ i.gen = j.gen)
      BY <1>1, <2>1, <2>2 DEF OneChain
    <3>2. \A i, k \in jobs' : (i.p = k.p /\ i.gen = k.gen /\ i.kind # "drop" /\ k.kind # "drop")
                             => i = k
      BY <2>1, <2>2 DEF OneChain
    <3> QED
      BY <1>2, <1>4, <2>3, <2>4, <3>1, <3>2 DEF OneChain
  <2>8. CurrentInjection'
    BY <1>1, <2>1, <2>2 DEF CurrentInjection
  <2>9. SheetsAccounted'
    <3>1. alive' => applied' = Registered' \cup InHand' \cup {l[1] : l \in lost'}
      BY <1>1, <1>4, <2>3, <2>4 DEF SheetsAccounted
    <3>2. \A l \in lost' : l[1] \notin Registered' \cup InHand'
      BY <1>1, <1>3, <2>3, <2>4 DEF SheetsAccounted, Lost
    <3>3. \A i \in jobs : i.sheet # sheet
      BY <1>2, <1>3 DEF InHand
    <3>4. \A i, k \in jobs' : i.sheet = k.sheet /\ i.sheet # NoSheet => i = k
      BY <2>1, <2>2, <3>3 DEF SheetsAccounted
    <3> QED
      BY <1>3, <2>3, <2>4, <3>1, <3>2, <3>4 DEF SheetsAccounted
  <2>10. OnItsWay'
    <3> SUFFICES ASSUME NEW p \in Plugins \ failed
                 PROVE  IF want[p] = NoCss THEN keys[p] = NoSheet
                        ELSE \/ keys[p] # NoSheet /\ keys[p].css = want[p]
                             \/ \E i \in jobs' : i.kind = "inject" /\ i.p = p /\ i.gen = gens[p]
      BY <1>1, <2>1 DEF OnItsWay
    <3>1. CASE want[p] = NoCss \/ (keys[p] # NoSheet /\ keys[p].css = want[p])
      BY <3>1 DEF OnItsWay
    <3>2. CASE want[p] # NoCss /\ ~(keys[p] # NoSheet /\ keys[p].css = want[p])
      <4>1. PICK i \in jobs : i.kind = "inject" /\ i.p = p /\ i.gen = gens[p]
        BY <3>2 DEF OnItsWay
      <4>2. i # j
        BY <1>7, <4>1 DEF IsCurrent
      <4> QED
        BY <2>1, <3>2, <4>1, <4>2
    <3> QED
      BY <3>1, <3>2
  <2> QED
    BY <2>5, <2>6, <2>7, <2>8, <2>9, <2>10
<1> QED
  BY <1>6, <1>7

LEMMA InsertionFailsKeeps ==
  ASSUME Inv, NEW j \in jobs, InsertionFails(j)
  PROVE  Inv'
<1>1. /\ Continues(j, {}) /\ jobs' = (jobs \ {j}) \cup {} /\ j.sheet = NoSheet
      /\ failed' = failed \cup {j.p}
      /\ UNCHANGED <<want, alive, gens, keys, applied, lost>>
  BY DEF InsertionFails, Removing, Continues
<1> USE DEF Inv
<1>2. jobs' \subseteq jobs /\ j.p \in Plugins
  BY <1>1, JobHas DEF TypeOK
<1>3. InHand' = InHand /\ Registered' = Registered /\ Lost' = Lost
  BY <1>1 DEF InHand, Registered, Lost
<1>4. TypeOK'
  BY <1>1, <1>2 DEF TypeOK
<1>5. Owned'
  BY <1>1, <1>2, <1>3 DEF Owned
<1>6. OneChain'
  BY <1>2, <1>3 DEF OneChain
<1>7. CurrentInjection'
  BY <1>1, <1>2 DEF CurrentInjection
<1>8. SheetsAccounted'
  BY <1>1, <1>2, <1>3 DEF SheetsAccounted
<1>9. OnItsWay'
  BY <1>1, ContinuesOnItsWay
<1> QED
  BY <1>4, <1>5, <1>6, <1>7, <1>8, <1>9

-----------------------------------------------------------------------------
LEMMA NextKeepsInv == Inv /\ [Next]_vars => Inv'
<1> SUFFICES ASSUME Inv, [Next]_vars
             PROVE  Inv'
  OBVIOUS
<1>1. CASE \E wanted \in [Plugins -> Css \cup {NoCss}] : Reconcile(wanted)
  BY <1>1, ReconcileKeeps
<1>2. CASE Destroyed
  BY <1>2, DestroyedKeeps
<1>3. CASE \E j \in jobs : Removed(j)
  BY <1>3, RemovedKeeps
<1>4. CASE \E j \in jobs : RemovalRetried(j)
  BY <1>4, RemovalRetriedKeeps
<1>5. CASE \E j \in jobs : RemovalFails(j)
  BY <1>5, RemovalFailsKeeps
<1>6. CASE \E j \in jobs : Inserted(j)
  BY <1>6, InsertedKeeps
<1>7. CASE \E j \in jobs : InsertionFails(j)
  BY <1>7, InsertionFailsKeeps
<1>8. CASE UNCHANGED vars
  BY <1>8 DEF vars, Inv, TypeOK, Owned, OneChain, CurrentInjection, SheetsAccounted, OnItsWay,
              Registered, InHand, Lost
<1> QED
  BY <1>1, <1>2, <1>3, <1>4, <1>5, <1>6, <1>7, <1>8 DEF Next

LEMMA Invariance == Spec => []Inv
  BY InitHasInv, NextKeepsInv, PTL DEF Spec

\* The state stays well-formed, however reconciles, settled calls and retries interleave.
THEOREM TypeCorrect == Spec => []TypeOK
<1>1. Inv => TypeOK
  BY DEF Inv
<1> QED
  BY <1>1, Invariance, PTL

\* index.js:284-406: the page of a live window shows exactly the sheets some owner knows of,
\* and no two owners share one.
THEOREM SheetsAlwaysAccounted == Spec => []SheetsAccounted
<1>1. Inv => SheetsAccounted
  BY DEF Inv
<1> QED
  BY <1>1, Invariance, PTL

\* index.js:355-406: once every chain of a window has ended, the page shows what the plan
\* wants of every plugin whose calls succeeded since the last reconcile.
THEOREM AlwaysSettlesAsWanted == Spec => []SettledAsWanted
<1>1. Inv => SettledAsWanted
  BY DEF Inv, OnItsWay, SettledAsWanted
<1> QED
  BY <1>1, Invariance, PTL

\* index.js:355-406: a sheet whose insertion arrives when its generation is still the current
\* one takes an empty entry of w.keys, so no registered sheet is overwritten and forgotten.
THEOREM InsertionOverwritesNothing ==
  Spec => [][\A j \in jobs : Inserted(j) /\ IsCurrent(j) => keys[j.p] = NoSheet]_vars
<1>1. Inv => (\A j \in jobs : Inserted(j) /\ IsCurrent(j) => keys[j.p] = NoSheet)
  <2> SUFFICES ASSUME Inv, NEW j \in jobs, Inserted(j), IsCurrent(j)
               PROVE  keys[j.p] = NoSheet
    OBVIOUS
  <2>1. j.kind = "inject"
    BY JobHas, SheetHas DEF Inv, TypeOK, Inserted, Removing
  <2> QED
    BY <2>1 DEF Inv, CurrentInjection, IsCurrent
<1> QED
  BY <1>1, Invariance, PTL
=============================================================================
