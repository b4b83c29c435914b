SPECIFICATION Spec
CONSTANTS
  N = 6
  Sizes = {1, 2, 3, 5}
  Symbols <- MCSymbols
  Documents <- PreviewDocuments
  Counts <- MCCounts
  MaxLines = 5
  HeaderLength = 2
  PsBegin = 4
  PsEnd = 8
  Word = 256
INVARIANT PreviewIgnored
CHECK_DEADLOCK FALSE
