CONSTANTS
  a = a
  b = b
  c = c
  d = d
  Node <- TriangleNodes
  MsgId = {m1}
  Link <- Triangle
  Paired <- TrianglePaired
  DefaultTtl = 3
  DedupSize = 1
  PresenceSize = 2
  RateSize = 2
  RateMax = 2
  MaxStimuli = 2
SPECIFICATION Spec
INVARIANTS
  TypeOK
  RelayOnce
  RateBound
  OneSlotEach
PROPERTY Delivers
CHECK_DEADLOCK FALSE
