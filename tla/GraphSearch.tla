---------------------------- MODULE GraphSearch -----------------------------
(***************************************************************************)
(* dependencies and impact (src/cmdboss/graph.py): a breadth-first search  *)
(* along dependency edges, out or in, down to graph_max_depth levels.      *)
(* Each level is a query of its own, outside any transaction: other        *)
(* requests create and delete edges in between.  The edges are those of    *)
(* one dependency graph, which may have cycles.                            *)
(***************************************************************************)
EXTENDS Naturals, FiniteSets, Bfs

CONSTANTS Node,
          Depths,     \* the values of graph_max_depth considered
          MaxChanges  \* bound on edges created or deleted during the search

ASSUME SearchAssumption ==
  Depths \subseteq Nat \ {0} /\ MaxChanges \in Nat /\ IsFiniteSet(Node)

VARIABLES graph,      \* the dependency edges
          always,     \* those that have been there since the search began
          ever,       \* those that have been there at some time since then
          root,       \* the CI asked about
          direction,  \* "out" for dependencies, "in" for impact
          bfs,        \* visited and frontier
          edges,      \* the edges found so far
          level,      \* the levels done
          depth,      \* graph_max_depth, as this deployment sets it
          changes     \* how many edges have been created or deleted

gsVars == <<graph, always, ever, root, direction, bfs, edges, level, depth, changes>>

GSInit ==
  /\ graph \in SUBSET (Node \X Node)
  /\ always = graph /\ ever = graph
  /\ root \in Node
  /\ direction \in {"out", "in"}
  /\ bfs = Root(root)
  /\ edges = {}
  /\ level = 0
  /\ depth \in Depths
  /\ changes = 0

Finished == bfs.frontier = {} \/ level = depth

Expand ==
  /\ ~Finished
  /\ bfs' = Level(graph, bfs, direction)
  /\ edges' = edges \cup Leaving(graph, bfs.frontier, direction)
  /\ level' = level + 1
  /\ UNCHANGED <<graph, always, ever, root, direction, depth, changes>>

(* create_edge or delete_edge of another request.                          *)
Change ==
  /\ ~Finished /\ changes < MaxChanges /\ changes' = changes + 1
  /\ \E e \in Node \X Node :
       graph' = IF e \in graph THEN graph \ {e} ELSE graph \cup {e}
  /\ always' = always \cap graph' /\ ever' = ever \cup graph'
  /\ UNCHANGED <<root, direction, bfs, edges, level, depth>>

Return == Finished /\ UNCHANGED gsVars

GSNext == Expand \/ Change \/ Return

GSSpec == GSInit /\ [][GSNext]_gsVars

(* What the endpoint answers.                                              *)
Nodes == bfs.visited \ {root}
Truncated == bfs.frontier # {}

(***************************************************************************)
(* Properties.                                                             *)
(***************************************************************************)
(* There is a walk of k edges of g from m to n.                            *)
Walk(g, m, n, k) ==
  \E p \in [0..k -> Node] :
    p[0] = m /\ p[k] = n /\ \A i \in 1..k : <<p[i - 1], p[i]>> \in g

(* The CIs that depend on the root, or it on them, through k edges at most.*)
Within(g, k) ==
  {n \in Node \ {root} :
     \E j \in 1..k : IF direction = "out" THEN Walk(g, root, n, j) ELSE Walk(g, n, root, j)}

(* The answer holds all that stayed within the levels done throughout the  *)
(* search, and nothing that was never there, cycles or not.  (Of a graph   *)
(* that does not change it is exactly what lies within those levels.)      *)
FindsWhatIsNear ==
  /\ Within(always, level) \subseteq Nodes
  /\ Nodes \subseteq Within(ever, level)
  /\ edges \subseteq ever

(* An answer that is not flagged as truncated is the whole blast radius,   *)
(* with every edge inside it, as far as it did not change meanwhile.       *)
UntruncatedIsComplete ==
  (Finished /\ ~Truncated) =>
    /\ Within(always, Cardinality(Node)) \subseteq Nodes
    /\ Leaving(always, Nodes \cup {root}, direction) \subseteq edges
=============================================================================
