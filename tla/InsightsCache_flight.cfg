CONSTANTS
  k1 = k1
  k2 = k2
  Keys = {k1, k2}
  DefaultKeys <- BothDefault
  Callers = {c1}
  Tasks = {t1, t2}
  None = None
  MaxEntries = 2
  Concurrency = 1
  MaxVersion = 1
  Background = TRUE
SPECIFICATION FairSpec
INVARIANTS SingleFlight
PROPERTIES
  RoomIsUsed
  NeverOlder
  EveryCallerAnswered
  EveryCardGetsItsTurn
