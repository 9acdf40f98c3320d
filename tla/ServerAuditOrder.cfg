SPECIFICATION Spec
CONSTANTS
  Workers = {w1, w2}
  Conns = {c1, c2}
  Uris = {a}
  Methods = {"GET", "PUT"}
  Kinds = {"absent"}
  Faults = {}
  Slow = {}
  QueueSize = 1
  None = None
CHECK_DEADLOCK FALSE
INVARIANT
  AuditIsLinearization
