CONSTANTS
  Connection = {c1, c2}
  Uuid = {0, 1}
  Byte = {a, b}
  Count = {0, 1, 2, 3}
  Size = {1, 2}
  MaxNumHorcruxAccepted = 2
  MaxTotalSizeAccepted = 1
  DiskFaults = TRUE
  None = None
SPECIFICATION Spec
SYMMETRY Symmetry
INVARIANT OversizedIsRejected
