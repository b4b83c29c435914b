SPECIFICATION LiveSpec
CONSTANTS
  N = 6
  Sizes = {1, 2, 3, 5}
  Symbols <- MCSymbols
  Documents <- MCDocuments
  Counts <- MCCounts
  MaxLines = 5
  HeaderLength = 2
  PsBegin = 4
  PsEnd = 8
  Word = 256
INVARIANTS TypeOK BufferIsFile NothingHeldBack StartFound CommentsReported
PROPERTIES ScanReturns ImplementsReader
CHECK_DEADLOCK FALSE
