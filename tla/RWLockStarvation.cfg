SPECIFICATION StronglyFairSpec
CONSTANTS
  Threads = {t1, t2, t3}
  Priorities = {"READERS", "WRITERS"}
  Arguments = {0}
  HalfWord = 8
PROPERTY
  NoStarvation
