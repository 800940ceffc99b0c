SPECIFICATION FairSpec
CONSTANTS
  t1 = t1
  t2 = t2
  t3 = t3
  a = a
  b = b
  Threads <- ThreeThreads
  Items <- TwoItems
  Nothing = Nothing
  Garbage = Garbage
  MaxEnqueues = 2
CHECK_DEADLOCK FALSE
INVARIANTS
  TypeOK
  CountersExact
  NoCounterWraps
  NoItemPassesAWaiter
  NodesAlive
PROPERTIES
  FifoService
  ServedRequestReturns
