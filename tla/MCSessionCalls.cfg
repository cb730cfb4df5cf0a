SPECIFICATION FairSpec
CONSTANTS
  Callers = {c1, c2}
  Paths = {p1}
  Values = {v1, v2}
  LastPort = 1
INVARIANTS
  TypeOK
  SuccessMeansApplied
  
  
  
PROPERTIES
  CommandsKeepContract
  EveryCallReturns
