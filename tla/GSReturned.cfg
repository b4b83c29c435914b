SPECIFICATION Spec
CONSTANTS
  Handlers = {"app"}
  Docs = {"dvi"}
  Blocks = 2
  PipeCap = 1
  DviBlocks = 1
  MaxCalls = 1
  MaxTerm = 0
  MaxOther = 0
INVARIANT OnlyParentReturns
CHECK_DEADLOCK FALSE
