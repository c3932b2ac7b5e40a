SPECIFICATION Spec
CONSTANTS
  Task = {t1, t2}
  Slot = {s1}
  Identity = {i1, i2}
  NoIdentity = none
  EmptyIdentity = empty
  MaxBuilds = 2
  MaxSent = 1
  MaxReceived = 1
  MaxStops = 2
INVARIANTS TypeOK KeyOnce Pinned Usable
SYMMETRY Alike
CHECK_DEADLOCK FALSE
