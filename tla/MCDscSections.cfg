SPECIFICATION Spec
CONSTANTS
  Kinds <- MCKinds
  Lengths = {1}
  Blocks = {"Font", "Resource"}
  Responses = {"CANCEL"}
  MaxPos = 8
INVARIANTS TypeOK PageExists Ordered Joined
CHECK_DEADLOCK FALSE
