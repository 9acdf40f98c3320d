INIT Init
NEXT Next
CONSTANTS
  Ranks = {1, 2}
  MaxLines = 2
CHECK_DEADLOCK FALSE
INVARIANT OutputHasTheLines
