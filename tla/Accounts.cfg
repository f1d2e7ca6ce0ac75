SPECIFICATION Spec
CONSTANTS
  root = root
  ann = ann
  r1 = r1
  r2 = r2
  t1 = t1
  t2 = t2
  t3 = t3
  NoToken = NoToken
  Users = {root, ann}
  Followed = {ann}
  Requests = {r1, r2}
  Tokens = {t1, t2, t3}
  InitialRole <- Seeded
  MaxChanges = 1
  DBMayFail = TRUE
SYMMETRY AccountSymmetry
VIEW AccountView
INVARIANTS
  OneLiveTokenPerSession
  RevocationEndsSessions
  PasswordChangeEndsSessions
PROPERTIES
  LastAdminGoesOnlyByOverlap
CHECK_DEADLOCK FALSE
