\* Two dispatchers over the same rows: publishing e1 may fail, and there are two
\* replays, MongoDB errors or crashes in all.
CONSTANTS
  e1 = e1  e2 = e2  w1 = w1  w2 = w2
  Ev = {e1, e2}
  Worker = {w1, w2}
  Raising = {e1}
  Batch = 2
  MaxAttempts = 2
  QueueSize = 1
  MaxFaults = 2
SPECIFICATION FairSpec
INVARIANTS DeadAfterMaxAttempts
PROPERTIES RowLife Settles
