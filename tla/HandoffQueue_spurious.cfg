SPECIFICATION SpuriousSpec
CONSTANTS
  t1 = t1
  t2 = t2
  a = a
  Nothing = Nothing
  Garbage = Garbage
  Threads <- TwoThreads
  Items <- OneItem
  MaxEnqueues = 2
INVARIANT BlocksUntilEnqueued
CHECK_DEADLOCK FALSE
