CONSTANTS
  a = a
  b = b
  c = c
  d = d
  Node <- RingNodes
  MsgId = {m1, m2}
  Link <- Ring
  Paired <- RingPaired
  DefaultTtl = 2
  DedupSize = 1
  PresenceSize = 1
  RateSize = 1
  RateMax = 1
  MaxStimuli = 2
SPECIFICATION Spec
INVARIANTS
  HopBound
PROPERTY FloodEnds
CHECK_DEADLOCK FALSE
