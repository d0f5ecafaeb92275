----------------------------- MODULE MCRelGraph -----------------------------
(* Small instances of RelGraph for TLC.                                    *)
EXTENDS RelGraph

CONSTANTS r1, r2, r3, c1, c2, c3, depends, owns

MCRelDef ==
  depends :> [card |-> "many_to_many", dependency |-> TRUE, self |-> TRUE, permits |-> Ci \X Ci]
    @@ owns :> [card |-> "one_to_one", dependency |-> FALSE, self |-> TRUE, permits |-> Ci \X Ci]

Symmetry == Permutations(Ci) \cup Permutations(Req)
=============================================================================
