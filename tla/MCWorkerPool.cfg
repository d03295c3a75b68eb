SPECIFICATION JobsSpec
CONSTANTS
  Workers = {w1, w2}
  N = 3
  NoError = NoError
  Threads = {w1, w2}
  Lines = 2
  Capacity = 1
  Calls = 1
  Parent = Parent
INVARIANTS JobsInv Outcome StopsSoon Numbering WholeOutput NothingRunsOn
PROPERTIES EachJobOnce PoolReturns
\* The process goes on to other work once the pool has returned.
CHECK_DEADLOCK FALSE
