CONSTANTS
  Peer = {p, q}
  NoPeer = NoPeer
  Batch = 2
  MaxId = 6
  MaxLosses = 2
  MaxRefusals = 2
  MaxBases = 2
SPECIFICATION Spec
INVARIANTS TypeOK HandedStable HandedWhole UsedOnce RefillFinds
CHECK_DEADLOCK FALSE
