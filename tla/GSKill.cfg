SPECIFICATION Spec
CONSTANTS
  Handlers = {"app"}
  Docs = {"ps"}
  Blocks = 2
  PipeCap = 1
  DviBlocks = 1
  MaxCalls = 1
  MaxTerm = 1
  MaxOther = 0
INVARIANT KillStopsGs
CHECK_DEADLOCK FALSE
