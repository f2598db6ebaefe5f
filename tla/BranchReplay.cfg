SPECIFICATION BranchSpec
CONSTANTS
  Sym <- MCSym
  SymRank <- MCSymRank
  SymLen <- MCSymLen
  IntBound = 8
  Programs <- MCBranching
  Registry <- MCRegistry
  Knowledge <- MCKnowledge
  Limits <- MCBranchLimits
  Reg <- MCBranchReg
  Key <- MCKey
  FnName <- MCBranchFn
  HostArgs <- MCBranchArgs
  Answers <- MCAnswers
  ArgReg <- MCArgReg
  MaxCallDepth = 2
  WallStride = 4
  MaxHostCalls = 6
  CountCap = 200
INVARIANTS
  SameBranchSameEnd
