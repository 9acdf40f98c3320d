SPECIFICATION Spec
CONSTANTS
  Workers = {w1, w2, w3}
  Conns = {c1, c2, c3}
  Uris = {a, b, c}
  Methods = {"GET", "PUT"}
  Kinds = {"absent"}
  Faults = {}
  Slow = {}
  QueueSize = 1
  None = None
SYMMETRY Symmetry
CHECK_DEADLOCK FALSE
INVARIANTS
  UriTable
  SlotForEveryUri
  FileExclusion
  SizeMatchesFile
