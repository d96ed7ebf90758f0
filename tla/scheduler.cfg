CONSTANTS
  Thread = {t1, t2}
  Op = {o1, o2}
  Task = Task
  None = None
  OneThread = FALSE
  Calls = {"run", "run_one", "wait_one", "poll", "poll_one"}
  Stops = TRUE
  Throws = TRUE
SPECIFICATION FairSpec
INVARIANTS
  WorkIsCounted
  OneTask
PROPERTIES
  QueuedIsRun
  StopEndsRun
  RunEndsWithoutWork
CHECK_DEADLOCK FALSE
