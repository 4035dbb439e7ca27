SPECIFICATION Spec
CONSTANTS
  d1 = d1
  d2 = d2
  d3 = d3
  d4 = d4
  o1 = o1
  o2 = o2
  Keys = {1, 2, 3}
  Date <- Days
  Owner <- Owners
  Deltas = {d1, d2, d3, d4}
  Target <- Targets
  Admins = {a1, a2}
  Scopes <- AllAndOne
  Cutoffs = {2}
  None = None
  Batch = 1
  MaxRequests = 2
  MaxRemovals = 1
  MaxExports = 1
SYMMETRY Alike
INVARIANTS KeptSomewhere CountedOnce ExportComplete
