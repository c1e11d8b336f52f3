--------------------------- MODULE MCPluginStore ---------------------------
(* Instance of PluginStore for TLC. *)
EXTENDS PluginStore, TLC
CONSTANTS p1, p2, v1, v2
MCPlugins == {p1, p2}
MCVersions == {v1, v2}
Symmetric == Permutations(MCVersions)
=============================================================================
