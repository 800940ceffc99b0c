SPECIFICATION ProgramsSpec
CONSTANTS
  p = p
  q = q
  f = f
  g = g
  dev = dev
  x = x
  y = y
  Processes <- TwoProcesses
  Files <- TwoFiles
  Minors <- OneMinor
  MinorOf <- OneDevice
  Ids <- WithALargeId
  Bytes <- TwoBytes
  Writable <- Buffers
  BUF_LEN = 2
  IdLimit = 4
  Garbage = Garbage
  MaxChannels = 2
  FileOf <- OwnFile
  TargetChannels <- Targets
  ULongLimit = 16
INVARIANT ProgramsTypeOK
PROPERTIES
  KeepsMessages
  ReadsLastSent
