\* A creation and two updates, which may overlap, beside two CI writes; one worker.
CONSTANTS
  a1 = a1  a2 = a2  a3 = a3  w1 = w1  w2 = w2  q1 = q1  q2 = q2
  None = None
  Worker = {w1}
  Admin = {a1, a2, a3}
  Req = {q1, q2}
  Ttl = 1
  Serial = FALSE
  Polling = FALSE
  Kinds = {"create", "update"}
SPECIFICATION Spec
SYMMETRY Symmetry
INVARIANTS LineageIsPreserved
