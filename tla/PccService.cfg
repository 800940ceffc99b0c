SPECIFICATION VersionsSpec
CONSTANTS
  c1 = c1
  c2 = c2
  x = x
  y = y
  bell = bell
  Clients <- TwoClients
  Bytes <- AllBytes
  Printable <- SomePrintable
  FileOf <- TwoFiles
  WordBytes = 2
  WordBits = 3
  None = None
  MaxInterrupts = 2
CHECK_DEADLOCK FALSE
INVARIANTS
  VersionsTypeOK
  GoodClientsDoNoHarm
PROPERTIES
  KeepsLedger
  InterruptEndsServer
  ClientsEnd
