CONSTANTS
  Thread = {t1, t2, t3}
  Op = {o1, o2, o3, o4}
  Throws = TRUE
SPECIFICATION FairSpec
INVARIANTS
  OneInvoker
PROPERTIES
  IsSerialQueue
  AcceptedIsRun
CHECK_DEADLOCK FALSE
