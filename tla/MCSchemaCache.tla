---------------------------- MODULE MCSchemaCache ---------------------------
(* Small instances of SchemaCache for TLC.                                 *)
EXTENDS SchemaCache, TLC

CONSTANTS a1, a2, a3, w1, w2, q1, q2

Symmetry == Permutations(Admin) \cup Permutations(Worker) \cup Permutations(Req)
=============================================================================
