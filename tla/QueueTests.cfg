SPECIFICATION TestSpec
CONSTANTS
  Threads <- SevenThreads
  Items <- SixItems
  Nothing = Nothing
  Garbage = Garbage
  MaxEnqueues = 6
  Many = 3
INVARIANT TestsPass
PROPERTY TestTerminates
