SPECIFICATION Spec
CONSTANTS
  p = p
  q = q
  f = f
  g = g
  dev = dev
  x = x
  y = y
  Processes <- TwoProcesses
  Files <- OneFile
  Minors <- OneMinor
  MinorOf <- OneOfOne
  Ids <- TwoIds
  Bytes <- OneByte
  Writable <- OneOrTwo
  BUF_LEN = 1
  IdLimit = 4
  Garbage = Garbage
  MaxChannels = 3
INVARIANT ListsSound
SYMMETRY Interchangeable
VIEW WithoutHistory
