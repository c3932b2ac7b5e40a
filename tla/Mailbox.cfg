CONSTANTS
  Sender = {s}
  Reader = {r1, r2}
  Listener = r1
  None = None
  PerSender = 3
  PageSize = 2
  RateMax = 2
  Acks = {TRUE, FALSE}
  MaxLoad = 4
  MaxFaults = 1
SPECIFICATION FairSpec
INVARIANTS TypeOK NothingLost  LimitEnds
PROPERTY PollFinds
CHECK_DEADLOCK FALSE
