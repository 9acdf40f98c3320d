SPECIFICATION StructuresSpec
CONSTANTS
  Threads = {t1, t2, t3, t4}
  Priorities = {"READERS", "WRITERS", "N_WAY"}
  Arguments = {0, 1, 2, 15}
  HalfWord = 8
  Cap = 4
  Producers = {p1, p2}
  Consumers = {c1, c2}
  Values = {v1, v2}
  Sizes = {1, 2, 3}
  None = None
INVARIANTS
  TypeOK
  Counting
  Exclusion
  NoLostWakeup
  NoStandstill
  Quota
  Overtaking
  QueueTypeOK
  Accounting
  NoSlotRace
PROPERTIES
  ReadersAreServed
  WritersAreServed
  ImplementsReadersWriters
  ImplementsFifo
  TakesKeepComing
  InsertsKeepComing
