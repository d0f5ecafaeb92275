----------------------------- MODULE MCReconcile ----------------------------
(* Small instances of Reconcile for TLC.                                   *)
EXTENDS Reconcile, TLC

CONSTANTS d1, d2, s1, s2, x, y, z, m, c1, c2, c3, v, w

(* x and y are of one type, z is of another; y depends on x.               *)
TwoTypes == [i \in Item |-> IF i \in {x, y} THEN "server" ELSE "app"]
OneLink == {<<x, y>>}
IdSymmetry == Permutations(Id \ Manual)
Symmetry == IdSymmetry \cup Permutations(Run) \cup Permutations(Source)
=============================================================================
