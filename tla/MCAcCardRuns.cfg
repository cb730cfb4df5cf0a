SPECIFICATION FairSpec
CONSTANTS
  Domain <- AcDomain
  Requests <- AcRequests
  Starts <- AcStarts
  Clashes <- AcClashes
  BootWaits = 4
  MaxWhims = 2
CHECK_DEADLOCK FALSE
INVARIANTS
  BootIsOutlasted
PROPERTIES
  
  CardEnds
