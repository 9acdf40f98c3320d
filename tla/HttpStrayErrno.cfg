SPECIFICATION HttpSpec
CONSTANTS
  MAX_HEADER_LEN = 3
  ContentLengths = {0, 1}
  Failing = {}
  Nil = Nil
INVARIANT
  WellFormedIsNotBad
