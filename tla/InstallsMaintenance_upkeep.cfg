SPECIFICATION Spec
CONSTANTS
  app = app
  Names = {app}
  Rows = {1, 2}
  Reports <- Some
  Legacy <- Old
  Admins = {a1, a2}
  Absent = Absent
  Batch = 1
  MaxReports = 2
  MaxRequests = 2
SYMMETRY Alike
INVARIANTS CountersFollow
PROPERTIES LiveFailuresStay ClearSettles ReclassifySettles
CHECK_DEADLOCK FALSE
