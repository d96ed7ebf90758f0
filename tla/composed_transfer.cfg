CONSTANTS
  MaxCount = 4
  MaxSize = 2
  BufferSizes <- MCBufferSizes
  MaxTransferSize = 3
  MaxBuffers = 2
  Limits = {0, 1, 4}
SPECIFICATION Spec
INVARIANTS
  TransfersInOrder
  SuccessMeetsCondition
PROPERTY NoNeedlessTransfer
CHECK_DEADLOCK FALSE
