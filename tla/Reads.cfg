\* Listing: four CIs, a sort field that always has a value, two writes during the walk.
\* Traversal: every graph over three CIs, from every root, one to three levels; two edges
\* change meanwhile.
CONSTANTS
  Rows = 4
  MaxVal = 3
  Nullable = FALSE
  Limit = 2
  MaxWrites = 2
  Node = {n1, n2, n3}
  Depths = {1, 2, 3}
  MaxChanges = 2
SPECIFICATION MCSpec
INVARIANTS EveryRowOnce FindsWhatIsNear UntruncatedIsComplete
