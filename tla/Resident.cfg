SPECIFICATION Spec
CONSTANTS
  Surface <- MCSurface
  FactKey <- MCFactKey
  Normalize <- MCNormalize
  Fact = {"f1", "f2"}
  Path = {"facts"}
  NoPath = "nopath"
  Doc <- MCDoc
  Requests <- MCRequests
  Undecodable = Undecodable
  MaxFrames = 2
  MaxEdits = 2
  MaxTicks = 2
INVARIANTS
  ResidentTypeOK
  CacheIsPristine
  CleanExitMeansDone
PROPERTIES
  StaleOnlyWithinTick
  ExclusionReachesAliases
  EveryFrameAnswered
  ExitsWithClient
