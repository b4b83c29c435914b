SPECIFICATION LiveSpec
CONSTANTS
  Handlers = {"app", "dfl"}
  Docs = {"dvi", "ps", "epsi", "mess", "unreadable"}
  Blocks = 2
  PipeCap = 1
  DviBlocks = 1
  MaxCalls = 2
  MaxTerm = 2
  MaxOther = 1
INVARIANTS TypeOK ReceivedAll NoMutualWait FlagIsNew
PROPERTIES TimeoutWhileProducing NothingLeftOpen InterruptPropagated ImplementsCall CreateReturns
CHECK_DEADLOCK FALSE
