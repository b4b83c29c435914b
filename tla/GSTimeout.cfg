SPECIFICATION Spec
CONSTANTS
  Handlers = {"app"}
  Docs = {"ps"}
  Blocks = 2
  PipeCap = 1
  DviBlocks = 1
  MaxCalls = 1
  MaxTerm = 0
  MaxOther = 1
PROPERTY TimeoutEndsLoop
CHECK_DEADLOCK FALSE
