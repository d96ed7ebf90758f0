CONSTANTS
  Connection = {c1, c2, c3}
  Uuid = {0}
  Byte = {a}
  Count = {0, 1, 2, 3}
  Size = {1, 2}
  MaxNumHorcruxAccepted = 2
  MaxTotalSizeAccepted = 1
  DiskFaults = TRUE
  None = None
SPECIFICATION Spec
INVARIANTS
  TypeOK
  SlotReserved
  SaveIffComplete
  RepliesCountHorcruxes
  AcceptorArmed
PROPERTIES
  OutWrittenOnce
  ImplementsUploadStore
