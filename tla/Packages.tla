------------------------------- MODULE Packages -------------------------------
(***************************************************************************)
(* Plugin packages as a whole: the format of an archive and the store of   *)
(* installed plugins.  They share no state, as an install is handed the    *)
(* archive it extracts and the store keeps what came out.  So each is      *)
(* explored with the other at rest, which loses no behaviour of either.    *)
(***************************************************************************)
EXTENDS PluginStore, PackageFormat

StoreAtRest == Init
FormatAtRest == PackageInit /\ source = CHOOSE s \in Sources : TRUE

PackagesInit == Init /\ PackageInit

PackagesNext ==
    \/ FormatAtRest /\ Next /\ UNCHANGED packageVars
    \/ StoreAtRest /\ PackageNext /\ UNCHANGED vars

PackagesSpec == PackagesInit /\ [][PackagesNext]_<<vars, packageVars>>

PackagesTypeOK == TypeOK /\ PackageTypeOK
=============================================================================
