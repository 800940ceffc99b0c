SPECIFICATION TestSpec
CONSTANTS
  Threads <- FiveThreads
  Elems <- SixElems
  NULL = NULL
  Garbage = Garbage
  MaxEnqueues = 6
  NumOperations = 3
  AnyEnqueues = 2
CHECK_DEADLOCK FALSE
INVARIANTS
  RecTestsTypeOK
  CountersExact
  TestsPass
  WaitsOnlyOnStaleSize
  NobodyWokenFirst
PROPERTIES
  FifoOrCancelled
  DestroyReleasesAll
  TestsEnd
