SPECIFICATION Spec
CONSTANTS
  q1 = q1
  q2 = q2
  l1 = l1
  Callers = {q1, q2, l1}
  Requests = {q1, q2}
  Loops = {l1}
  Tallied = {l1}
  MaxAttempts = 2
  Statuses = {401, 429}
  Seconds = {40, 60, 101}
  Dates = {1000}
  Wrap = 100000
  Jitters = {0}
  Usages <- MCUsages
  Texts = {"answer", "tool", "forbidden"}
  NoText = NoText
  None = None
  MaxCharged = 4
  MaxSessions = 2
  MaxCalls = 2
  MaxRestarts = 1
CONSTRAINT LoopsApart
INVARIANTS
  UseInv
  TallyIsHonest
PROPERTIES
  SessionsOnlyGrow
  EveryRequestIsAnswered
CHECK_DEADLOCK FALSE
