----------------------------- MODULE MCCIStore -----------------------------
(* Small instances of CIStore for TLC.                                     *)
EXTENDS CIStore, TLC

CONSTANTS r1, r2, r3, c1, c2, c3, x1, f, g, v, w

ReqSymmetry == Permutations(Req)
(* A replacement of both fields, and a change of one.                      *)
MCBodies == { f :> w @@ g :> w, f :> v }
TwoBodies == { f :> v, f :> w }
=============================================================================
