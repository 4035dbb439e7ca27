SPECIFICATION Spec
CONSTANTS
  a1 = a1
  a2 = a2
  i1 = i1
  i2 = i2
  CheckIns = {i1, i2}
  Admins = {a1, a2}
  Order <- AnOrder
  Missing = {}
  NoTable = NoTable
  MaxCheckIns = 2
  MaxRequests = 2
  MaxFaults = 1
SYMMETRY Alike
INVARIANTS
  OrphansOnlyByRace
PROPERTIES
  DeletionIsComplete
  RowsGoWithTheDevice
