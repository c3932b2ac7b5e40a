CONSTANTS
  Irq = irq
  Senders = {main}
SPECIFICATION Spec
PROPERTY EventsServed
