\* Two runs, of one source or of two at once, under either policy: items appear,
\* change, disappear and fail; a user links them to a CI of his own.
CONSTANTS
  d1 = d1  d2 = d2  s1 = s1  s2 = s2  x = x  y = y  z = z  m = m
  c1 = c1  c2 = c2  c3 = c3  v = v  w = w
  None = None  Gone = Gone
  TypeOf <- TwoTypes
  Run = {d1, d2}
  Source = {s1, s2}
  Item = {x, y}
  Id = {m, c1, c2, c3}
  Manual = {m}
  Val = {v, w}
  Links <- OneLink
  Policies = {"delete", "mark"}
  OnePerSource = TRUE
SPECIFICATION Spec
SYMMETRY Symmetry
INVARIANTS TypeOK Converged RerunIsQuiet
PROPERTIES StaysInItsSource
