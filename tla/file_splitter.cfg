CONSTANTS
  MaxLen = 40
  UintMod = 12
  Byte <- MCByte
  Data <- MCData
  NumSplits <- MCNumSplits
SPECIFICATION FairSpec
INVARIANTS
  TypeOK
  RoundTrip
  EvenSplit
PROPERTY SplitReturns
