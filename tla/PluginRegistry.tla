---------------------------- MODULE PluginRegistry ----------------------------
(***************************************************************************)
(* What Core promises of its plugins, whatever file operations do it: one  *)
(* is replaced or removed in a single step, none is lost but in trouble,   *)
(* and grants are given for the version that is installed and gone before  *)
(* another one is (docs/PLAN.md:17, daemon.rs).                            *)
(***************************************************************************)
CONSTANTS Plugins, Versions, Apps, Absent, NoPolicy, Default

VARIABLES
  installed,  \* the version of each plugin
  policy,     \* what each application has granted to each plugin
  troubled    \* plugins in whose operation too much went wrong; not ours to say

Grants == [version : Versions, fallback : BOOLEAN]

Init ==
  /\ installed = [p \in Plugins |-> Absent]
  /\ policy = [a \in Apps |-> [p \in Plugins |-> NoPolicy]]

\* A grant is for what is installed, or says that nobody could tell.
Grant(a, p, grant) ==
  /\ grant.fallback \/ grant.version = installed[p]
  /\ policy' = [policy EXCEPT ![a][p] = grant]
  /\ UNCHANGED installed

PoliciesWith(p, entry) == [a \in Apps |-> [policy[a] EXCEPT ![p] = entry]]

\* All grants of a plugin are taken back.
Reset(p) ==
  /\ policy' = PoliciesWith(p, Default)
  /\ UNCHANGED installed

\* The new version takes the place of the old one, if there is one.
Install(p, v) ==
  /\ \A a \in Apps : policy[a][p] = Default
  /\ installed' = [installed EXCEPT ![p] = v]
  /\ UNCHANGED policy

\* The plugin goes, and its grants with it.
Remove(p) ==
  /\ installed' = [installed EXCEPT ![p] = Absent]
  /\ policy' = PoliciesWith(p, NoPolicy)

Lose(p) ==
  /\ p \in troubled'
  /\ installed' = [installed EXCEPT ![p] = Absent]
  /\ UNCHANGED policy

Next ==
  \E p \in Plugins :
    \/ \E a \in Apps, grant \in Grants : Grant(a, p, grant)
    \/ Reset(p)
    \/ \E v \in Versions : Install(p, v)
    \/ Remove(p)
    \/ Lose(p)

\* Trouble comes from outside: whatever happens to it is no step of Core's.
promised == <<installed, policy>>
Spec == Init /\ [][Next]_promised
=============================================================================
