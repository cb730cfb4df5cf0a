SPECIFICATION Spec
CONSTANTS
  Units = {u1, u2}
  Devices = {u1, u2}
  Verifiable = {u1, u2}
  Addrs = {1, 2, 3}
  Nowhere = Nowhere
  Nobody = Nobody
  MaxMoves = 2
INVARIANTS NeverDrivesAnother
