CONSTANTS
  d1 = d1
  s1 = s1
  s2 = s2
  Devices = {d1}
  Submissions = {s1, s2}
  NoRow = NoRow
  Workers = {w1, w2}
  Payload <- TwoRuns
  MaxTries <- Twice
  MaxFaults = 1
  MaxPurges = 1
SPECIFICATION Spec
SYMMETRY WorkerTwins
INVARIANTS UsageAtMostOnce AcceptedIsStored
PROPERTIES ImplementsLedger WatermarkMonotone RemovedByAcceptance RunSuperseded
