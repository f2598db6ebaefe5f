SPECIFICATION Spec
CONSTANTS
  Reg = {frame, arg0}
  ArgReg = arg0
  Role = {subject, object}
  Filler = {cat, mouse}
  None = none
  MaxCallDepth = 1
  MaxCalls = 1
  MaxBinds = 2
  MaxStack = 1
SYMMETRY Symbols
INVARIANTS
  FramesTypeOK
  OwnFillersOnly
  InPlaceAnswersExact
