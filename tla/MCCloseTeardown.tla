---------------------------- MODULE MCCloseTeardown ----------------------------
(***************************************************************************)
(* Instance of CloseTeardown: windows that close with two sandboxed        *)
(* plugins, or with a raw one ahead of a sandboxed one.  A batch with      *)
(* nothing to tear down is what a sweep leaves of the former.              *)
(***************************************************************************)
EXTENDS CloseTeardown

CONSTANTS p1, p2, r

MCRosters == {<<p1, p2>>, <<r, p1>>}
=============================================================================
