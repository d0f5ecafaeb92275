\* Transactions on: every kind of request, two at once, two fields, and an
\* If-Match the client made up.
CONSTANTS
  r1 = r1  r2 = r2  r3 = r3
  c1 = c1  c2 = c2  c3 = c3
  x1 = x1  f = f  g = g  v = v  w = w
  None = None
  Req = {r1, r2}
  Ci = {c1, c2, c3}
  Existing = {c1}
  Ext = {x1}
  Field = {f, g}
  Val = {v, w}
  Bodies <- MCBodies
  Kinds = {"put", "patch", "delete", "create", "discover", "missing"}
  Guesses = {2}
  TxnEnabled = TRUE
SPECIFICATION Spec
SYMMETRY ReqSymmetry
INVARIANTS UnitOfWork AuditChain RevisionIdentifiesContent AnswersAreTrue
PROPERTIES NoLostUpdate ImplementsLedger
