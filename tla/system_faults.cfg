CONSTANTS
  Client = {k1, k2}
  Steady = {}
  Connection = {c1, c2, c3}
  Uuid = {0}
  Byte = {a, b}
  Count = {0, 1, 2, 3}
  Size = {0, 1, 2, 3}
  MaxNumHorcruxAccepted = 2
  MaxTotalSizeAccepted = 3
  DiskFaults = FALSE
  None = None
  UintMod = 4
  ShortReads = FALSE
  Faults = TRUE
  Draw <- MCDraw
  Upload <- MCLongUpload
  a = a
  b = b
SPECIFICATION SystemSpec
INVARIANTS
  FilesAreSent
  FilesHaveNoGap
CHECK_DEADLOCK FALSE
