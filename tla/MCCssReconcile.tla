----------------------------- MODULE MCCssReconcile -----------------------------
(***************************************************************************)
(* Instance of CssReconcile: plugins do not affect each other, so one is   *)
(* enough; what matters is how many of its reconciles overlap.  The texts  *)
(* of its style sheets are interchangeable.                                *)
(***************************************************************************)
EXTENDS CssReconcile, TLC

MCSymmetry == Permutations(Css)
=============================================================================
