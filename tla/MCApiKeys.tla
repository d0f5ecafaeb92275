------------------------------ MODULE MCApiKeys -----------------------------
(* Small instances of ApiKeys for TLC.                                     *)
EXTENDS ApiKeys, TLC

CONSTANTS r1, r2, r3, a1, a2, b1, t1

MCTokenEnds == t1 :> 2

Symmetry == Permutations(Req)
=============================================================================
