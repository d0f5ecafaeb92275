----------------------------- MODULE MCCICreate ----------------------------
(* Small instances of CICreate for TLC.                                    *)
EXTENDS CICreate, TLC

CONSTANTS r1, r2, r3, r4, k1, k2

(* Two attempts of each of two operations.                                 *)
MCKeyOf == r1 :> k1 @@ r2 :> k1 @@ r3 :> k2 @@ r4 :> k2
=============================================================================
