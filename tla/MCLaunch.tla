----------------------------- MODULE MCLaunch -----------------------------
(***************************************************************************)
(* Launches and registrations share no state: Windows or the Manager may   *)
(* start a launcher for any application at any time.  So each is explored  *)
(* with the other at rest, which loses no behaviour of either.             *)
(***************************************************************************)
EXTENDS Launch, TLC

CONSTANTS A, B, R1, R2, R3, LibData, NativeData, Name

MCExeName == (A :> "app.exe") @@ (B :> "app.exe")
MCDebugger0 == "app.exe" :> "theirs"

Lib == <<"lib", "a.js">>
Native == <<"lib", "n.node">>
Package == [name |-> Name, main |-> Lib]

(* An app with a native module and a link, and one with an archive that    *)
(* cannot be read.                                                         *)
Good == [wellFormed |-> TRUE,
         packed |-> (Lib :> LibData) @@ (IndexJs :> LibData) @@ (PackageJson :> Package),
         links |-> <<"current">> :> Lib, loose |-> Native :> NativeData]
Bad == [Good EXCEPT !.wellFormed = FALSE]
(* Its package.json does not parse; index.js is kept unpacked.             *)
Odd == [Good EXCEPT !.packed = (Lib :> LibData) @@ (PackageJson :> Garbage),
                    !.loose = (Native :> NativeData) @@ (IndexJs :> NativeData)]
MCShips == ("good" :> Good) @@ ("bad" :> Bad) @@ ("odd" :> Odd)

Init ==
    /\ RegistryInit /\ LaunchInit
    /\ \A a \in Apps : install[a] = [source |-> "good", native |-> TRUE]

LaunchesAtRest == \A l \in Launchers : run[l].at = "idle"
RegistryAtRest == \A r \in Requests : job[r].at = "idle"

Next ==
    \/ LaunchesAtRest /\ updates = 0 /\ RegistryNext /\ UNCHANGED launchVars
    \/ RegistryAtRest /\ LaunchNext /\ UNCHANGED registryVars

Spec == Init /\ [][Next]_<<registryVars, launchVars>>

TypeOK == RegistryTypeOK /\ LaunchTypeOK

=============================================================================
