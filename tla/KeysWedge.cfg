CONSTANTS
  Peer = {p, q}
  NoPeer = NoPeer
  Batch = 2
  MaxId = 6
  MaxLosses = 0
  MaxRefusals = 0
  MaxBases = 1
SPECIFICATION Spec
INVARIANT BundleStarts
CHECK_DEADLOCK FALSE
