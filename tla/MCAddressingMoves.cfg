SPECIFICATION FairSpec
CONSTANTS
  Units = {u1, u2}
  Devices = {u1}
  Verifiable = {u1}
  Addrs = {1, 2, 3}
  Nowhere = Nowhere
  Nobody = Nobody
  MaxMoves = 2
INVARIANTS TypeOK ConfirmedIsOwn RepointedToItself
PROPERTIES FindsItsAppliance
