SPECIFICATION Spec
CONSTANTS
  AgentWords <- MCWords
  ObjectIds <- MCIds
  ReadableFiles <- MCReadable
  LineCount <- MCLineCount
  Scans <- MCScans
INVARIANT
  OneOfThePairIsListed
