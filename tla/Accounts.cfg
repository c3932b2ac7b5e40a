CONSTANTS
  User = {admin, other}
  Operator = admin
  Channel = {c1}
  Task = {t1, t2}
  MaxTokens = 2
  MaxRequests = 3
  MaxPasswords = 3
  MaxStops = 1
SPECIFICATION Spec
SYMMETRY Alike
INVARIANTS TypeOK Revoked Allowed
CHECK_DEADLOCK FALSE
