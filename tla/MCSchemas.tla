----------------------------- MODULE MCSchemas ------------------------------
(* The schema of a type, for TLC: who sees which version of it and when    *)
(* (SchemaCache), or what a CI looks like after many of them               *)
(* (SchemaEvolution).  A behaviour is of one of them, the other stays      *)
(* where it starts.                                                        *)
EXTENDS MCSchemaCache, MCSchemaEvolution

VARIABLE view

mcVars == <<view, vars, seVars>>

NoEvolution == fields = [field \in {f} |-> Required]

MCInit ==
  \/ view = "caches" /\ NoEvolution /\ SEInit /\ Init
  \/ view = "content" /\ SEInit /\ Init

MCNext ==
  \/ view = "caches" /\ Next /\ UNCHANGED <<view, seVars>>
  \/ view = "content" /\ SENext /\ UNCHANGED <<view, vars>>

MCSpec == MCInit /\ [][MCNext]_mcVars
=============================================================================
