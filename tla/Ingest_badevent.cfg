CONSTANTS
  d1 = d1
  s1 = s1
  s2 = s2
  Devices = {d1}
  Submissions = {s1, s2}
  NoRow = NoRow
  Workers = {w1}
  Payload <- BadEvent
  MaxTries <- Once
  MaxFaults = 0
  MaxPurges = 0
SPECIFICATION Spec
PROPERTY RunSuperseded
