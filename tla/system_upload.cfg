CONSTANTS
  Client = {k1, k2}
  Steady = {k1}
  Connection = {c1, c2, c3}
  Uuid = {0, 1}
  Byte = {a, b}
  Count = {0, 1, 2, 3}
  Size = {0, 1, 2, 3}
  MaxNumHorcruxAccepted = 2
  MaxTotalSizeAccepted = 1
  DiskFaults = FALSE
  None = None
  UintMod = 3
  ShortReads = FALSE
  Faults = FALSE
  Draw <- MCDraw
  Upload <- MCUpload
  a = a
  b = b
SPECIFICATION SystemFairSpec
PROPERTIES
  UploadStored
  AcceptedIsSaved
CHECK_DEADLOCK FALSE
