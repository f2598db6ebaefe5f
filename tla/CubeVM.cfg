SPECIFICATION Spec
CONSTANTS
  Sym <- MCSym
  SymRank <- MCSymRank
  SymLen <- MCSymLen
  IntBound = 8
  Programs <- MCPrograms
  Registry <- MCRegistry
  Knowledge <- MCKnowledge
  Limits <- MCLimits
  Reg <- MCReg
  Key <- MCKey
  FnName <- MCFnName
  HostArgs <- MCHostArgs
  Answers <- MCAnswers
  ArgReg <- MCArgReg
  MaxCallDepth = 2
  WallStride = 4
  MaxHostCalls = 3
  CountCap = 200
INVARIANTS
  TypeOK
  QueryBudgetHeld
  OnceRunsOnce
  StorageMirrorsMemory
  FactsAreLogged
PROPERTIES
  NoEffectPastBudget
