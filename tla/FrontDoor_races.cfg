CONSTANTS
  d1 = d1
  d2 = d2
  r1 = r1
  r2 = r2
  router = router
  current = current
  other = other
  Absent = Absent
  NoSerial = NoSerial
  Passphrases = {current, other}
  Ceiling = 1
  Devices = {d1, d2}
  Replicas = {r1, r2}
  Addresses = {router}
  Address <- OneRouter
  Named = {d1}
  Presents <- Both
  Config <- OnlyCurrent
  Bodies <- DroppedAndGood
  DeviceLimit = 1
  AddressLimit = 2
  Minute = 3
  DedupWindow = 2
  Retention = 3
  MaxRows = 1
  Start = 2
  MaxTime = 5
  MaxWaiting = 1
  MaxSeen = 3
SPECIFICATION Spec
INVARIANTS OnlyRacersTwice
PROPERTIES NewestSurvive RejectionLeavesARow NeverRejectedAgain FairLimit
SYMMETRY Twins
