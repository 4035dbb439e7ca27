SPECIFICATION FairSpec
CONSTANTS
  k1 = k1
  k2 = k2
  t1 = t1
  t2 = t2
  Threads = {t1, t2}
  Keys = {k1, k2}
  Shared = {k1}
  None = None
  MaxEntries = 1
  MaxWrites = 1
INVARIANTS
  CapHeld
  StaleOnlyFromRacers
  OneComputation
PROPERTIES
  AnswersCatchUp
  LockIsFreed
