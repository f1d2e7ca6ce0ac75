SPECIFICATION Spec
CONSTANTS
  alice = alice
  c1 = c1
  d1 = d1
  d2 = d2
  lo = lo
  Users = {alice}
  Scans = {d1, d2}
  Owner <- OwnedByAlice
  Static = {}
  Cancels = {c1}
  Polls = {}
  Prices = {lo}
  MaxTurns = 1
  MaxSteps = 1
  MaxCrashes = 1
  SaveMayFail = FALSE
SYMMETRY ScanSymmetry
INVARIANTS
  TwoRunningOnlyByOverlap
PROPERTIES
  RecordSpec
CHECK_DEADLOCK FALSE
