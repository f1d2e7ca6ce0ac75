SPECIFICATION FairSpec
CONSTANTS
  alice = alice
  c1 = c1
  hi = hi
  lo = lo
  p1 = p1
  sast = sast
  Users = {alice}
  Scans = {sast}
  Owner <- OwnedByAlice
  Static = {sast}
  Cancels = {c1}
  Polls = {p1}
  Prices = {lo, hi}
  MaxTurns = 2
  MaxSteps = 2
  MaxCrashes = 1
  SaveMayFail = TRUE
INVARIANTS
  FullInv
  CancelledOnlyOnRequest
  PhantomOnlyAfterFault
  PollAnswersTheRun
PROPERTIES
  RunningEventuallySettles
  RunnerEventuallyReleases
CHECK_DEADLOCK FALSE
