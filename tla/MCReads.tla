------------------------------ MODULE MCReads -------------------------------
(* Reads that take several queries, for TLC: a walk through the pages of a *)
(* listing (Paging), or a search of the graph (GraphSearch), while other   *)
(* clients write.  A behaviour is of one of them, the other stays where it *)
(* starts.                                                                 *)
EXTENDS Paging, GraphSearch

VARIABLE reading

mcVars == <<reading, listVars, gsVars>>

NoSearch ==
  graph = {} /\ root = (CHOOSE n \in Node : TRUE) /\ direction = "out" /\ depth = 1
NoWalk == value = [c \in Id |-> Gone] /\ dir = "asc"

MCInit ==
  \/ reading = "pages" /\ NoSearch /\ GSInit /\ ListInit
  \/ reading = "graph" /\ NoWalk /\ ListInit /\ GSInit

MCNext ==
  \/ reading = "pages" /\ ListNext /\ UNCHANGED <<reading, gsVars>>
  \/ reading = "graph" /\ GSNext /\ UNCHANGED <<reading, listVars>>

MCSpec == MCInit /\ [][MCNext]_mcVars
=============================================================================
