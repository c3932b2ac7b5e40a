SPECIFICATION Spec
CONSTANTS
  Peer = {p1, p2}
  MaxId = 3
  MaxPuts = 3
  MaxGets = 2
  MaxStops = 2
INVARIANTS TypeOK HandedOnce FirstOpens
PROPERTIES OneTime
CHECK_DEADLOCK FALSE
