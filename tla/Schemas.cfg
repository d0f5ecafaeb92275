\* Caches: one change at a time, a creation, then an update or a deactivation, beside two
\* CI writes.  Content: two fields, two numbers and a text; any sequence of schema changes
\* and writes of one CI.
CONSTANTS
  a1 = a1  a2 = a2  a3 = a3  w1 = w1  w2 = w2  q1 = q1  q2 = q2
  f = f  g = g  text = text
  None = None  Null = Null
  Worker = {w1, w2}
  Admin = {a1, a2}
  Req = {q1, q2}
  Ttl = 2
  Serial = TRUE
  Polling = TRUE
  Kinds = {"create", "update", "deactivate"}
  Field = {f, g}
  Number = {0, 1}
  Other = {text}
  Specs <- MCSpecs
SPECIFICATION MCSpec
SYMMETRY Symmetry
INVARIANTS  WrittenAsStamped CompatibleStaysWritable
PROPERTIES BoundedStaleness
