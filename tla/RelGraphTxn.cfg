\* Transactions on: three requests at once on three CIs.
CONSTANTS
  r1 = r1  r2 = r2  r3 = r3
  c1 = c1  c2 = c2  c3 = c3  depends = depends  owns = owns
  None = None
  Req = {r1, r2, r3}
  Ci = {c1, c2, c3}
  Rel = {depends, owns}
  RelDef <- MCRelDef
  Kinds = {"link", "unlink", "remove"}
  MaxDepth = 2
  TxnEnabled = TRUE
SPECIFICATION Spec
SYMMETRY Symmetry
INVARIANTS TypeOK EdgeLineage UniqueEdges DanglesByOverlapOnly CardinalityKept NoCycleClosed
