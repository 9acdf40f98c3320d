SPECIFICATION SequentialSpec
CONSTANTS
  Orders = {0, 4}
  PathArcs = 6
  PathClientArcs = 3
  ComponentArcs = 5
  N = 2
  Magnitudes = {2}
  Ranks = {1, 2, 3}
  MaxLines = 4
  BUFFER_SIZE = 8
  Lengths = {0, 1, 2, 3, 10, 11, 18, 19}
  Faults = {"read", "write", "open"}
  None = None
  MAX_HEADER_LEN = 3
  ContentLengths = {0, 1, 3}
  Failing = {"accept", "recv", "open", "write", "send"}
  Nil = Nil
CHECK_DEADLOCK FALSE
INVARIANTS
  ShortestPaths
  QueueIsOrdered
  AdjacencyIsSound
  VisitsNest
  ComponentsAreRight
  SizeCountsEdges
  SparseMatchesDense
  LexSorts
  MemoryIsKept
  RepliesFitRequests
PROPERTY
  ConnectionsEnd
