SPECIFICATION FairSpec
CONSTANTS
  v1 = v1
  v2 = v2
  empty = empty
  NoEntry = NoEntry
  Absent = Absent
  Junk = Junk
  Longest = 3
  Version <- MCVersion
  Length <- MCLength
INVARIANTS
  IInv
  FailsOnlyOnFault
  CleanResume
PROPERTIES
  KeepsContract
  CallReturns
CHECK_DEADLOCK FALSE
