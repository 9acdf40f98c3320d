SPECIFICATION Spec
CONSTANTS
  Nodes = {n1, n2, n3, n4}
  Lists = {A}
  Values = {x}
  NULL = NULL
CHECK_DEADLOCK FALSE
INVARIANT
  UndefinedCursorHasNoIndex
