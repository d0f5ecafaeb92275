\* One dispatcher, two events that are due at once, and a queue of one.
\* Nothing fails.
CONSTANTS
  e1 = e1  e2 = e2  w1 = w1  w2 = w2
  Ev = {e1, e2}
  Worker = {w1}
  Raising = {}
  Batch = 2
  MaxAttempts = 2
  QueueSize = 1
  MaxFaults = 0
SPECIFICATION Spec
INVARIANTS SentIsNotLost
