SPECIFICATION Spec
CONSTANTS
  Nodes = {n1, n2, n3, n4}
  Lists = {A, B, C}
  Values = {x, y}
  NULL = NULL
SYMMETRY Symmetry
CHECK_DEADLOCK FALSE
INVARIANTS
  TypeOK
  WellLinked
  CursorAtIndex
  EqualsComparesElements
PROPERTY
  ImplementsCursorList
