SPECIFICATION Spec
CONSTANTS
  AgentWords <- MCWords
  ObjectIds <- MCIds
  ReadableFiles <- MCReadable
  LineCount <- MCLineCount
  Scans <- MCScans
INVARIANTS
  TypeOK
  ProofReachesTheReport
  ValidatedWasExercised
  MergeKeepsTheBest
  StaticFindingsSurvive
  AdviceIsPerSource
