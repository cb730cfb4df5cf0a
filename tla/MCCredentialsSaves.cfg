SPECIFICATION Spec
CONSTANTS
  Pairs = {p1, p2}
  Current = {p1, p2}
  Startup = startup
  Pages = {page}
  Devices = {d}
  Empty = Empty
  MaxFaults = 1
SYMMETRY Symmetry
INVARIANTS SavedPairSurvives
PROPERTIES FirstSaveIsConfirmed
