CONSTANTS
  Heard = {m1, m2, m3}
  Own = {w1, w2}
  CacheSize = 3
  Receiver = irq
  Senders = {main, host}
  Empty = Empty
  Torn = Torn
SPECIFICATION Spec
INVARIANTS TypeOK RingIsWindow
PROPERTY AnswersRight
