CONSTANTS
  d1 = d1
  s1 = s1
  s2 = s2
  Devices = {d1}
  Submissions = {s1, s2}
  NoRow = NoRow
  Workers = {w1, w2}
  Payload <- FirstContact
  MaxTries <- ThreeAndTwo
  MaxFaults = 1
  MaxPurges = 0
SPECIFICATION RetrySpec
PROPERTIES RequestEnds UnkeyedRetryLands
