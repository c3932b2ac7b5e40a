CONSTANTS
  Irq = irq
  Senders = {main}
SPECIFICATION Spec
INVARIANTS TypeOK RelayUnconfirmed ConfirmedMeansAired
PROPERTY CallsReturn
