CONSTANTS
  Thread = {t1}
  Op = {o1, o2}
  Type = {"read", "write"}
  MaxAvail = 2
SPECIFICATION FairSpec
INVARIANTS
  OperationsAreWork
  NoLostEdge
PROPERTY FirstIsServed
