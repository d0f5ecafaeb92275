-------------------------------- MODULE Bfs ---------------------------------
(***************************************************************************)
(* One level of RelationshipRepository._bfs (src/cmdboss/graph.py) over a  *)
(* set of edges, each a pair <<from, to>>.                                 *)
(***************************************************************************)

(* The edges a level queries, and the nodes at their other end.            *)
Leaving(edges, frontier, direction) ==
  {e \in edges : (IF direction = "out" THEN e[1] ELSE e[2]) \in frontier}

Ends(edges, direction) == {IF direction = "out" THEN e[2] ELSE e[1] : e \in edges}

(* visited and frontier, before the first level and after one more.        *)
Root(node) == [visited |-> {node}, frontier |-> {node}]

(* Fault: the new nodes are taken by the start of the edge.                *)
LevelBackwards(edges, search, direction) ==
  LET next == Ends(Leaving(edges, search.frontier, "out"), direction) \ search.visited
  IN  [visited |-> search.visited \cup next, frontier |-> next]

Level(edges, search, direction) ==
  LET next == Ends(Leaving(edges, search.frontier, direction), direction) \ search.visited
  IN  [visited |-> search.visited \cup next, frontier |-> next]
=============================================================================
