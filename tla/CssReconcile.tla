------------------------------ MODULE CssReconcile ------------------------------
(***************************************************************************)
(* Manifest style sheets in one window (crates/runtime/js/src/index.js:    *)
(* 284-406): each reconcile injects what the plan wants and removes what   *)
(* it no longer wants, through asynchronous calls that overlap with later  *)
(* reconciles.  Windows share nothing but the plan.                        *)
(*                                                                         *)
(* insertCSS and removeInsertedCSS are Electron's; a call takes effect     *)
(* when its promise settles, and a call on destroyed contents rejects.     *)
(***************************************************************************)
EXTENDS Naturals, FiniteSets

CONSTANTS
  Plugins,
  Css,          \* style sheet texts
  NoCss,        \* the plan wants no style sheet of the plugin
  NoSheet,
  MaxAttempts,  \* CSS_REMOVE_MAX_ATTEMPTS
  MaxGen        \* bound: generations of one plugin

ASSUME CssAssumption == NoCss \notin Css
ASSUME AttemptsAssumption == MaxAttempts \in Nat \ {0} /\ MaxGen \in Nat

VARIABLES
  want,     \* the style sheet the current plan wants of each plugin
  alive,    \* the window is in `windows` and its contents are not destroyed
  gens,     \* w.gens
  keys,     \* w.keys: the sheet registered for each plugin
  jobs,     \* promise chains under way
  applied,  \* the sheets the page shows
  \* History variables, read by the properties only.
  lost,     \* sheets no later reconcile knows about, with the reason
  failed    \* plugins with a failed insertion or removal since the last reconcile

vars == <<want, alive, gens, keys, jobs, applied, lost, failed>>

\* An Electron key, named after the injection that obtained it.
Sheet == [p : Plugins, gen : 1..MaxGen, css : Css]

ASSUME SheetAssumption == NoSheet \notin Sheet

\* A chain removes `sheet`, at the given attempt.  One that injects goes on to insert `css`.
Job == [kind : {"inject"}, p : Plugins, gen : 1..MaxGen, css : Css,
        sheet : Sheet \cup {NoSheet}, attempt : 1..MaxAttempts]
  \cup [kind : {"revoke", "drop"}, p : Plugins, gen : 1..MaxGen, sheet : Sheet,
        attempt : 1..MaxAttempts]

Reason == {"superseded", "dropped", "overtaken", "revoked"}

TypeOK ==
  /\ want \in [Plugins -> Css \cup {NoCss}]
  /\ alive \in BOOLEAN
  /\ gens \in [Plugins -> 0..MaxGen]
  /\ keys \in [Plugins -> Sheet \cup {NoSheet}]
  /\ jobs \subseteq Job
  /\ applied \subseteq Sheet
  /\ lost \subseteq Sheet \X Reason
  /\ failed \subseteq Plugins

Init ==
  /\ want = [p \in Plugins |-> NoCss]
  /\ alive = TRUE
  /\ gens = [p \in Plugins |-> 0]
  /\ keys = [p \in Plugins |-> NoSheet]
  /\ jobs = {} /\ applied = {} /\ lost = {} /\ failed = {}
-----------------------------------------------------------------------------
\* The loops of reconcile, for new wants.
Injects(p, wanted) ==
  wanted[p] # NoCss /\ (keys[p] = NoSheet \/ keys[p].css # wanted[p])

Revokes(p, wanted) == wanted[p] = NoCss /\ (keys[p] # NoSheet \/ gens[p] > 0)

\* The plugins whose entry leaves w.keys at once.
Forgets(p, wanted) == Injects(p, wanted) \/ Revokes(p, wanted)

\* reconcile, when the plan changes to `wanted` or the page has loaded.
Reconcile(wanted) ==
  /\ alive
  /\ want' = wanted
  /\ gens' = [p \in Plugins |->
       IF Injects(p, wanted) \/ Revokes(p, wanted) THEN gens[p] + 1 ELSE gens[p]]
  /\ \A p \in Plugins : gens'[p] <= MaxGen
  /\ keys' = [p \in Plugins |-> IF Forgets(p, wanted) THEN NoSheet ELSE keys[p]]
  /\ jobs' = jobs
       \cup {[kind |-> "inject", p |-> p, gen |-> gens'[p], css |-> wanted[p],
              sheet |-> keys[p], attempt |-> 1] : p \in {q \in Plugins : Injects(q, wanted)}}
       \cup {[kind |-> "revoke", p |-> p, gen |-> gens'[p], sheet |-> keys[p], attempt |-> 1] :
               p \in {q \in Plugins : Revokes(q, wanted) /\ keys[q] # NoSheet}}
  /\ failed' = {}
  /\ UNCHANGED <<alive, applied, lost>>

Destroyed ==
  /\ alive
  /\ alive' = FALSE
  /\ applied' = {}
  /\ UNCHANGED <<want, gens, keys, jobs, lost, failed>>
-----------------------------------------------------------------------------
Removing(j) == j.sheet # NoSheet

\* What follows a removal: an injection goes on to insert, other chains end.
AfterRemoval(j) ==
  jobs' = (jobs \ {j}) \cup (IF j.kind = "inject" THEN {[j EXCEPT !.sheet = NoSheet]} ELSE {})

\* removeInsertedCSS resolves, or rejects because the contents are gone.
Removed(j) ==
  /\ Removing(j)
  /\ AfterRemoval(j)
  /\ applied' = applied \ {j.sheet}
  /\ UNCHANGED <<want, alive, gens, keys, lost, failed>>

\* Faulty variant: one attempt too many.
IsLastAttemptOffByOne(j) == j.attempt > MaxAttempts
IsLastAttempt(j) == j.attempt = MaxAttempts

\* The removal rejects and is tried again after a pause.
RemovalRetried(j) ==
  /\ alive /\ Removing(j) /\ ~IsLastAttempt(j)
  /\ jobs' = (jobs \ {j}) \cup {[j EXCEPT !.attempt = @ + 1]}
  /\ UNCHANGED <<want, alive, gens, keys, applied, lost, failed>>

\* A revocation that failed for good gives its sheet back, unless it was overtaken.
GivesBack(j) == j.kind = "revoke" /\ gens[j.p] = j.gen /\ keys[j.p] = NoSheet

ReasonOf(j) ==
  IF j.kind = "inject" THEN "superseded" ELSE IF j.kind = "drop" THEN "dropped"
  ELSE IF want[j.p] = NoCss THEN "revoked" ELSE "overtaken"

\* The last attempt rejects.
RemovalFails(j) ==
  /\ alive /\ Removing(j) /\ IsLastAttempt(j)
  /\ AfterRemoval(j)
  /\ IF GivesBack(j)
     THEN /\ keys' = [keys EXCEPT ![j.p] = j.sheet]
          /\ UNCHANGED lost
     ELSE /\ lost' = lost \cup {<<j.sheet, ReasonOf(j)>>}
          /\ UNCHANGED keys
  /\ failed' = failed \cup {j.p}
  /\ UNCHANGED <<want, alive, gens, applied>>

\* Faulty variant: whatever has been inserted is registered.
RegistersAnyway(j) == TRUE
IsCurrent(j) == gens[j.p] = j.gen

\* Faulty variant: a superseded insertion is left alone.
DropNothing(j, sheet) == {}

\* The removal, which nobody awaits, of a sheet that was superseded before it arrived.
Drop(j, sheet) ==
  {[kind |-> "drop", p |-> j.p, gen |-> j.gen, sheet |-> sheet, attempt |-> 1]}

\* insertCSS resolves.
Inserted(j) ==
  LET sheet == [p |-> j.p, gen |-> j.gen, css |-> j.css]
  IN /\ alive /\ ~Removing(j)
     /\ applied' = applied \cup {sheet}
     /\ IF IsCurrent(j)
        THEN /\ keys' = [keys EXCEPT ![j.p] = sheet]
             /\ jobs' = jobs \ {j}
        ELSE /\ jobs' = (jobs \ {j}) \cup Drop(j, sheet)
             /\ UNCHANGED keys
     /\ UNCHANGED <<want, alive, gens, lost, failed>>

\* insertCSS rejects.
InsertionFails(j) ==
  /\ ~Removing(j)
  /\ jobs' = jobs \ {j}
  /\ failed' = failed \cup {j.p}
  /\ UNCHANGED <<want, alive, gens, keys, applied, lost>>

Next ==
  \/ \E wanted \in [Plugins -> Css \cup {NoCss}] : Reconcile(wanted)
  \/ Destroyed
  \/ \E j \in jobs : Removed(j)
  \/ \E j \in jobs : RemovalRetried(j)
  \/ \E j \in jobs : RemovalFails(j)
  \/ \E j \in jobs : Inserted(j)
  \/ \E j \in jobs : InsertionFails(j)

Spec == Init /\ [][Next]_vars
-----------------------------------------------------------------------------
(***************************************************************************)
(* Properties.                                                             *)
(***************************************************************************)

Registered == {keys[p] : p \in Plugins} \ {NoSheet}
InHand == {j.sheet : j \in jobs} \ {NoSheet}

\* The page of a live window shows exactly the sheets that are registered, that some chain
\* is removing, or whose removal failed for good: none is forgotten on the way, and none
\* is believed to be there that is not.  And a sheet has one such owner: no removal is asked
\* for twice and none runs against a sheet in use.
SheetsAccounted ==
  /\ alive => applied = Registered \cup InHand \cup {l[1] : l \in lost}
  /\ Registered \cap InHand = {}
  /\ \A l \in lost : l[1] \notin Registered \cup InHand
  /\ \A i, j \in jobs : i.sheet = j.sheet /\ i.sheet # NoSheet => i = j

\* When every chain of a live window has ended, the page agrees with the plan except where
\* an insertion or removal failed since the last reconcile.
SettledAsWanted ==
  alive /\ jobs = {} => \A p \in Plugins \ failed :
    IF want[p] = NoCss THEN keys[p] = NoSheet ELSE keys[p] # NoSheet /\ keys[p].css = want[p]

\* index.js:400-401, of a removal that failed while the window is alive: "Re-register the
\* entry so the next reconcile retries the removal instead of silently dropping the stale
\* CSS."  A reconcile during the removal defeats it, although the plan still does not want
\* the sheet.
StaleSheetKeepsItsEntry == \A l \in lost : l[2] # "revoked"
=============================================================================
