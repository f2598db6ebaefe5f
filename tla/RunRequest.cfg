SPECIFICATION RequestSpec
CONSTANTS
  Sym <- MCSym
  SymRank <- MCSymRank
  SymLen <- MCSymLen
  IntBound = 8
  Programs <- MCServed
  Registry <- MCRegistry
  Knowledge <- MCKnowledge
  Limits <- MCRequestLimits
  Reg <- MCReg
  Key <- MCKey
  FnName <- MCFnName
  HostArgs <- MCHostArgs
  Answers <- MCAnswers
  ArgReg <- MCArgReg
  MaxCallDepth = 2
  WallStride = 4
  MaxHostCalls = 8
  CountCap = 20
  Requests <- MCRequests
  MaxAnswers = 4
INVARIANTS
  RequestTypeOK
  EntryIsExternal
  TargetRefusalsSurface
  ReplayReachesSameAsk
PROPERTIES
  EveryRequestAnswered
  Termination
