SPECIFICATION Spec
CONSTANTS
  Kinds <- MCKinds
  Lengths = {1}
  Blocks = {"Font", "Resource"}
  Responses = {"OK", "CANCEL", "IGNORE_ALL"}
  MaxPos = 6
INVARIANTS BlocksClosed
PROPERTIES PreviewSettled
CHECK_DEADLOCK FALSE
