SPECIFICATION Spec
CONSTANTS
  Dim = 4
  WordBits = 3
  BundleChunk = 2
  Name <- MCName
  Payload = {p, q}
  Absent = Absent
  Books <- MCBooks
  TopK = 2
  MaxTraces = 3
  MaxSaved = 1
INVARIANTS
  StructuresAgree
  AlgebraHolds
PROPERTIES
  RecallIsNearest
  ImplementsTraceMap
