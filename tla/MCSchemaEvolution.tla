-------------------------- MODULE MCSchemaEvolution -------------------------
(* Small instances of SchemaEvolution for TLC.                             *)
EXTENDS SchemaEvolution

CONSTANTS f, g, text

Required == [required |-> TRUE, default |-> Null, enum |-> Null, low |-> Null, high |-> Null]
Optional == [Required EXCEPT !.required = FALSE]

(* Bounds on required and optional fields, a default outside them and one  *)
(* inside, an enum that overrides a bound, and one that nothing satisfies. *)
MCSpecs ==
  {Required, [Required EXCEPT !.low = 1],
   Optional, [Optional EXCEPT !.high = 0],
   [Optional EXCEPT !.default = 0, !.low = 1],
   [Optional EXCEPT !.default = 1, !.low = 1],
   [Optional EXCEPT !.default = 0, !.enum = {0, text}, !.low = 1],
   [Optional EXCEPT !.enum = {}]}
=============================================================================
