SPECIFICATION FairSpec
CONSTANTS
  Workers = {w1, w2}
  Conns = {c1, c2}
  Uris = {a}
  Methods = {"GET", "PUT", "MALFORMED", "OTHER"}
  Kinds = {"absent", "dir", "unreadable", "old"}
  Faults = {"pthread_create", "mkstemp", "recv", "rename", "open", "send"}
  Slow = {c1}
  QueueSize = 1
  None = None
CHECK_DEADLOCK FALSE
INVARIANTS
  TypeOK
  AuditMatchesReplies
PROPERTIES
  ImplementsFileStore
  EveryConnectionCloses
