----------------------------- MODULE MCPackages -----------------------------
(* Instance of Packages for TLC: those of MCPluginStore and                *)
(* MCPackageFormat, side by side.                                          *)
EXTENDS Packages, MCPluginStore, MCPackageFormat
=============================================================================
