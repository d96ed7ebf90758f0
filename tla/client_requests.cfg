CONSTANTS
  MaxLen = 30
  UintMod = 12
  Byte <- MCByte
  Data <- MCData
  NumSplits <- MCNumSplits
  Number <- MCNumber
  Text = Text
SPECIFICATION ClientFairSpec
INVARIANTS RequestsCarryFile AnnouncedModulo
PROPERTY SendsOrRefuses
