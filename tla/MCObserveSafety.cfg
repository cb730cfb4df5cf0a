SPECIFICATION Spec
CONSTANTS
  Hrefs = {h1, h2}
  Surfaces <- AllSurfaces
  Addrs = {a1, a2}
  PollInterval = 1
  Grace = 1
  Sweep = 2
  Retry = 2
  Refresh = 3
  MaxSilent = 1
  MaxFailures = 4
SYMMETRY HrefSymmetry
INVARIANTS
  PushIsEarned
  NoPushClaimWhileFailing
  UnavailableMeansPersistent
  

  
  
