SPECIFICATION Spec
CONSTANTS
  main = main
  osv = osv
  nmap = nmap
  Files = {main}
  FileLines <- ThreeLines
  Visible <- TwoLines
  OtherTools = {osv}
  Refused = {nmap}
  Forced = 2
  Greps = 2
  MaxSteps = 1
  MaxFailures = 1
  MaxNudges = 1
  Remote = TRUE
INVARIANTS
  MatchesSeedTheGate
CHECK_DEADLOCK FALSE
