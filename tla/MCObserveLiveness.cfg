SPECIFICATION FairSpec
CONSTANTS
  Hrefs = {h1}
  Surfaces <- ShiftingSurfaces
  Addrs = {a1}
  PollInterval = 1
  Grace = 1
  Sweep = 2
  Retry = 2
  Refresh = 3
  MaxSilent = 1
  MaxFailures = 4
PROPERTIES
  VerdictReached
  RecoversInPlace
  PushKeepsBeingTried
