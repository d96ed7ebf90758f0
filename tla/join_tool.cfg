CONSTANTS
  a = a
  b = b
  Session = {s1, s2}
  Uuid = {0}
  Index = {0, 1}
  Content <- MCContent
  None = None
  JoinUuid = 0
  NumHcxs = 2
SPECIFICATION JoinSpec
INVARIANTS
  JoinsWhatWasStored
  MissingStopsJoin
PROPERTIES
  FirstResultStays
  JoinEnds
