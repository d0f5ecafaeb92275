--------------------------- MODULE SchemaEvolution --------------------------
(***************************************************************************)
(* One CI under a schema that changes: field specifications and the models *)
(* compiled from them (src/cmdboss/schema.py), and what create, update and *)
(* apply_discovery store of a payload they validated (src/cmdboss/         *)
(* repository.py).  update_type replaces the schema and leaves CIs alone.  *)
(*                                                                         *)
(* Requests are single steps here: their interleaving is in CIStore and    *)
(* SchemaCache.  A value stands for what pydantic converts it to; numbers  *)
(* are the values of the declared type and have an order, which minimum,   *)
(* length and item bounds constrain alike; the others have another type.   *)
(* Null is null.                                                           *)
(***************************************************************************)
EXTENDS Naturals

CONSTANTS Field,
          Number,  \* the values of the right type
          Other,   \* values of another type
          Specs,   \* the field specifications that occur
          Null

Value == Number \cup Other

(* What FieldSpec._coherent admits.  A bound or an enum may be missing.    *)
Coherent(spec) ==
  /\ ~(spec.low # Null /\ spec.high # Null /\ spec.low > spec.high)
  /\ ~(spec.required /\ spec.default # Null)

FieldSpec ==
  [required : BOOLEAN, default : Value \cup {Null}, enum : {Null} \cup SUBSET Value,
   low : Number \cup {Null}, high : Number \cup {Null}]

ASSUME EvolutionAssumption ==
  /\ Number \subseteq Nat /\ Number \cap Other = {} /\ Null \notin Value
  /\ \A spec \in Specs : spec \in FieldSpec /\ Coherent(spec)

VARIABLES
  fields,     \* the specifications of the active schema
  ci,         \* the CI, or Null
  stamped,    \* the schema that the CI's schema_version names
  owned,      \* does a discovery source own the CI
  compatible  \* has every schema so far been compatible with the one before

seVars == <<fields, ci, stamped, owned, compatible>>

(* At least one field, each with a specification.                          *)
Schemas == UNION {[declared -> Specs] : declared \in SUBSET Field \ {{}}}
Payloads == UNION {[given -> Value \cup {Null}] : given \in SUBSET Field}

(***************************************************************************)
(* compile_model, and _validate.                                           *)
(***************************************************************************)
(* Literal of no value at all cannot be built; the upload does not try.    *)
Compiles(schema) == \A f \in DOMAIN schema : schema[f].enum # {}

InRange(spec, v) ==
  /\ v \in Number
  /\ spec.low # Null => spec.low <= v
  /\ spec.high # Null => v <= spec.high

(* Fault: an optional field is not declared Optional.                      *)
AcceptsNoNull(spec, v) ==
  IF spec.enum # Null THEN v \in spec.enum ELSE InRange(spec, v)

(* An enum is the whole constraint; null is for optional fields.           *)
Accepts(spec, v) ==
  \/ v = Null /\ ~spec.required
  \/ v # Null /\ spec.enum # Null /\ v \in spec.enum
  \/ v # Null /\ spec.enum = Null /\ InRange(spec, v)

(* extra="forbid"; a default is not validated.                             *)
Validates(schema, payload) ==
  /\ DOMAIN payload \subseteq DOMAIN schema
  /\ \A f \in DOMAIN schema :
       IF f \in DOMAIN payload THEN Accepts(schema[f], payload[f]) ELSE ~schema[f].required

(* model_dump: every declared field.                                       *)
Dump(schema, payload) ==
  [f \in DOMAIN schema |-> IF f \in DOMAIN payload THEN payload[f] ELSE schema[f].default]

(* "$set", and dict.update.                                                *)
Over(old, new) ==
  [f \in DOMAIN old \cup DOMAIN new |-> IF f \in DOMAIN new THEN new[f] ELSE old[f]]

(***************************************************************************)
(* The operations.                                                         *)
(***************************************************************************)
(* A schema is compatible with one before it if it keeps its fields and    *)
(* what they accept, adds optional ones only, and has defaults it accepts. *)
SoundDefaults(schema) ==
  \A f \in DOMAIN schema : ~schema[f].required => Accepts(schema[f], schema[f].default)

CompatibleWith(old, new) ==
  /\ DOMAIN old \subseteq DOMAIN new
  /\ \A f \in DOMAIN new :
       IF f \in DOMAIN old
         THEN \A v \in Value \cup {Null} : Accepts(old[f], v) => Accepts(new[f], v)
         ELSE ~new[f].required
  /\ Compiles(new) /\ SoundDefaults(new)

SEInit ==
  /\ fields \in Schemas
  /\ ci = Null /\ stamped = fields /\ owned = FALSE
  /\ compatible = (Compiles(fields) /\ SoundDefaults(fields))

UpdateType(new) ==
  /\ fields' = new
  /\ compatible' = (compatible /\ CompatibleWith(fields, new))
  /\ UNCHANGED <<ci, stamped, owned>>

Store(data) ==
  /\ ci' = IF ci = Null THEN data ELSE Over(ci, data)
  /\ stamped' = fields
  /\ UNCHANGED <<fields, compatible>>

(* POST, or the first time a source sees the CI.                           *)
Create(payload, by) ==
  /\ ci = Null /\ Compiles(fields) /\ Validates(fields, payload)
  /\ Store(Dump(fields, payload)) /\ owned' = by

(* PUT.                                                                    *)
Replace(payload) ==
  /\ ci # Null /\ Compiles(fields) /\ Validates(fields, payload)
  /\ Store(Dump(fields, payload)) /\ UNCHANGED owned

(* Fault: what is sent is validated and stored without the rest.           *)
PatchAlone(payload) ==
  /\ ci # Null /\ Compiles(fields)
  /\ DOMAIN payload \subseteq DOMAIN fields
  /\ \A f \in DOMAIN payload : Accepts(fields[f], payload[f])
  /\ Store(payload) /\ UNCHANGED owned

(* PATCH validates the stored fields with those it was sent.               *)
Patch(payload) ==
  /\ ci # Null /\ Compiles(fields) /\ Validates(fields, Over(ci, payload))
  /\ Store(Dump(fields, Over(ci, payload))) /\ UNCHANGED owned

(* apply_discovery of a CI the source owns; what is stored must validate,  *)
(* too.  If nothing changes only the provenance is refreshed.              *)
Discover(data) ==
  /\ ci # Null /\ owned /\ Compiles(fields)
  /\ LET merged == Over(ci, data) IN
       /\ Validates(fields, merged) /\ Validates(fields, ci)
       /\ Dump(fields, merged) # Dump(fields, ci)
       /\ Store(Dump(fields, merged))
  /\ UNCHANGED owned

Delete ==
  /\ ci # Null /\ ci' = Null
  /\ UNCHANGED <<fields, stamped, owned, compatible>>

SENext ==
  \/ \E new \in Schemas : UpdateType(new)
  \/ \E payload \in Payloads :
       \/ \E by \in BOOLEAN : Create(payload, by)
       \/ Replace(payload) \/ Patch(payload) \/ Discover(payload)
  \/ Delete

SESpec == SEInit /\ [][SENext]_seVars

(***************************************************************************)
(* Properties.                                                             *)
(***************************************************************************)
(* The lineage a CI carries is true: it has every field of the schema its  *)
(* schema_version names, with a value that schema accepts, or the default  *)
(* of an optional field.                                                   *)
WrittenAsStamped ==
  ci # Null =>
    \A f \in DOMAIN stamped :
      /\ f \in DOMAIN ci
      /\ \/ Accepts(stamped[f], ci[f])
         \/ ~stamped[f].required /\ ci[f] = stamped[f].default

(* Forward-only changes need no migration: as long as schemas only grow    *)
(* (optional fields, wider constraints, defaults they accept themselves),  *)
(* every CI ever written can be patched and discovered again.              *)
CompatibleStaysWritable ==
  compatible /\ ci # Null => Compiles(fields) /\ Validates(fields, ci)
=============================================================================
