---------------------------- MODULE WindowTeardown ----------------------------
(***************************************************************************)
(* What closing a window promises, whatever machinery does it              *)
(* (docs/SPEC.md:182-191): the window is released at once, each plugin     *)
(* that ran in it is cleaned up some time later, and the subscribers that  *)
(* were registered when it closed are told once, after the last cleanup.   *)
(* Windows do not wait for each other.                                     *)
(***************************************************************************)
EXTENDS FiniteSets

CONSTANTS Windows, Plugins, Subscribers

VARIABLES
  phase,  \* of each window
  owed,   \* the plugins of a closed window that are still to be cleaned up
  due,    \* the subscribers to be told of a closed window
  told    \* the subscribers that have been told

vars == <<phase, owed, due, told>>

Init ==
  /\ phase = [w \in Windows |-> "open"]
  /\ owed = [w \in Windows |-> {}]
  /\ due = [w \in Windows |-> {}]
  /\ told = [w \in Windows |-> {}]

\* The window closes: what is owed is settled here, once and for all.
Close(w) ==
  /\ phase[w] = "open" /\ phase'[w] = "closing"
  /\ owed'[w] \subseteq Plugins /\ due'[w] \subseteq Subscribers
  /\ told'[w] = {}

\* Some of its plugins are cleaned up.
CleanUp(w) ==
  /\ phase[w] = "closing" /\ phase'[w] = "closing"
  /\ owed'[w] \subseteq owed[w]
  /\ due'[w] = due[w] /\ told'[w] = {}

\* Nothing is owed any more, and those still subscribed are told.
Unload(w) ==
  /\ phase[w] = "closing" /\ phase'[w] = "unloaded"
  /\ owed[w] = {} /\ owed'[w] = {}
  /\ told'[w] \subseteq due[w]
  /\ due'[w] = due[w]

Rest(w) ==
  phase'[w] = phase[w] /\ owed'[w] = owed[w] /\ due'[w] = due[w] /\ told'[w] = told[w]

\* One turn of the pump may serve one window and unload others.
Next == \A w \in Windows : Close(w) \/ CleanUp(w) \/ Unload(w) \/ Rest(w)

Spec == Init /\ [][Next]_vars
=============================================================================
