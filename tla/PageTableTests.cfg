SPECIFICATION TestSpec
CONSTANTS
  WordLimit = 64
  PageSize = 4
  PartBits = 1
  Levels = 3
  NPAGES = 9
  Base = 2
  MaxTables = 2
  Vpns <- AllVpns
  Ppns <- AllPpns
  AnyVpns <- SomeVpns
  AnyPpns <- SomePpns
  AnyFrames = 6
CHECK_DEADLOCK FALSE
INVARIANTS
  PageTestsTypeOK
  NoNullTable
  FramesOwnedOnce
  AssertionsHold
PROPERTY KeepsMappings
