SPECIFICATION VersionsSpec
CONSTANTS
  c1 = c1
  c2 = c2
  x = x
  y = y
  bell = bell
  Clients <- OneClient
  Bytes <- AllBytes
  Printable <- SomePrintable
  FileOf <- HugeFile
  WordBytes = 2
  WordBits = 3
  None = None
  MaxInterrupts = 0
CHECK_DEADLOCK FALSE
INVARIANT ContentReceived
