SPECIFICATION Spec
CONSTANTS
  Workers = {w1}
  Conns = {c1}
  Uris = {a}
  Methods = {"PUT"}
  Kinds = {"absent"}
  Faults = {"recv"}
  Slow = {}
  QueueSize = 1
  None = None
CHECK_DEADLOCK FALSE
INVARIANT
  FailedPutsStoreNothing
