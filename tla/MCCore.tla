------------------------------ MODULE MCCore ------------------------------
(***************************************************************************)
(* Core for TLC: how it is started, and what it does once it serves.       *)
(* The requests of NetworkProxy and CorePolicy are answered by a process   *)
(* that has come up, whose end is their CoreRestarts; so each part is      *)
(* explored with the other at rest.                                        *)
(*                                                                         *)
(* Two applications with one plugin that exists in two versions, a host,   *)
(* one under it and a foreign one; two commands of the Manager, two Core   *)
(* processes, and data of an older version or a state backup.              *)
(***************************************************************************)
EXTENDS NetworkProxy, CoreStartup

A == <<"a">>
CdnA == <<"cdn", "a">>
B == <<"b">>
MCHosts == {A, CdnA, B}
Origin(host, number) == [host |-> host, port |-> number]
MCOrigins == {Origin(A, 443), Origin(A, 80), Origin(CdnA, 443), Origin(B, 443)}
ListA == [host |-> A, wildcard |-> FALSE, port |-> 443]
UnderA == [host |-> A, wildcard |-> TRUE, port |-> AnyPort]
MCDomains == {ListA, UnderA}
Modest == [permissions |-> {"renderer.script", "network.access"},
           css |-> FALSE, renderer |-> TRUE, main |-> FALSE, domains |-> {ListA, UnderA},
           config |-> {"k"}, defaults |-> {}]
Broad == [permissions |-> {"renderer.script", "renderer.css", "runtime.unsafe"},
          css |-> TRUE, renderer |-> TRUE, main |-> TRUE, domains |-> {},
          config |-> {}, defaults |-> {}]
MCManifests == {Modest, Broad}
MCRequested == {{}, {"network.access"}, {"renderer.script"}, {"renderer.css", "runtime.unsafe"}}

(* Whether this is about the start; a start on an empty disk takes the      *)
(* steps of one that finds a backup, and is left out.                      *)
AboutStart == initially.legacy \/ initially.backup
NothingInstalled == ~developer /\ installed = [p \in Plugins |-> Absent]

CoreInit ==
    /\ Init /\ StartupInit
    /\ IF AboutStart THEN NothingInstalled ELSE legacy = {}

CoreNext ==
    \/ ~AboutStart /\ Next /\ UNCHANGED startupVars
    \/ AboutStart /\ StartupNext /\ UNCHANGED vars

CoreSpec ==
    /\ CoreInit /\ [][CoreNext]_<<vars, startupVars>>
    /\ ExchangesGoOn /\ StartupFairness

CoreTypeOK == TypeOK /\ StartupTypeOK

=============================================================================
