INIT FindComponentsInit
NEXT FindComponentsNext
CONSTANTS
  Orders = {2}
  MaxArcs = 3
CHECK_DEADLOCK FALSE
INVARIANT GetSizeIsNumberOfEdges
