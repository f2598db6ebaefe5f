SPECIFICATION ToolchainSpec
CONSTANTS
  Sym <- MCSym
  SymRank <- MCSymRank
  SymLen <- MCSymLen
  IntBound = 8
  Programs = {}
  Registry <- MCRegistry
  Knowledge <- MCKnowledge
  Limits <- MCLimits
  Reg <- MCReg
  Key <- MCKey
  FnName = {}
  HostArgs = {}
  Answers = {}
  ArgReg <- MCArgReg
  MaxCallDepth = 4
  WallStride = 4
  MaxHostCalls = 4
  CountCap = 100
  Interfaces <- MCInterfaces
  ByteBase = 8
  Fuel = 8
  File = {"main", "lib", "util"}
  Cwd = "cwd"
  NoFile = "nofile"
  NoName = "noname"
  Projects <- MCProjects
  Commands <- MCCommands
  LowerCase <- MCLowerCase
INVARIANTS
  MeaningAsCommented
