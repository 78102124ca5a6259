---------------------------- MODULE MCFpsSession ----------------------------
(* Small instances of FpsSession for TLC.  Calls in flight are alike.      *)
EXTENDS FpsSession, TLC

Symmetry == Permutations(Pollers)
=============================================================================
