SPECIFICATION FairSpec
CONSTANTS
  main = main
  osv = osv
  nmap = nmap
  Files = {main}
  FileLines <- ThreeLines
  Visible <- TwoLines
  OtherTools = {osv}
  Refused = {nmap}
  Forced = 1
  Greps = 2
  MaxSteps = 2
  MaxFailures = 1
  MaxNudges = 2
  Remote = FALSE
INVARIANTS
  LoopInv
  CoverageIsTheWindow
PROPERTIES
  ContractSpec
  LoopEnds
CHECK_DEADLOCK FALSE
