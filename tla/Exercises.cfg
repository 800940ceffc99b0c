SPECIFICATION FairSpec
CONSTANTS
  NUM_THREADS = 3
  ROUNDS = 2
  TOTAL = 8
  TCOUNT = 3
  COUNT_LIMIT = 4
  NULL = NULL
  Garbage = Garbage
INVARIANTS
  TypeOK
  FinalCount
  PrimesPrinted
PROPERTY
  ProgramsEnd
