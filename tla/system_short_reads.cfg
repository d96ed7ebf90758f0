CONSTANTS
  Client = {k1}
  Steady = {k1}
  Connection = {c1, c2}
  Uuid = {0, 1}
  Byte = {a, b}
  Count = {0, 1, 2, 3}
  Size = {0, 1, 2, 3, 4}
  MaxNumHorcruxAccepted = 3
  MaxTotalSizeAccepted = 3
  DiskFaults = TRUE
  None = None
  UintMod = 5
  ShortReads = TRUE
  Faults = TRUE
  Draw <- MCDraw
  Upload <- MCManyUpload
  a = a
  b = b
SPECIFICATION SystemFairSpec
INVARIANT AcknowledgedIsHeld
PROPERTY ClientEnds
CHECK_DEADLOCK FALSE
