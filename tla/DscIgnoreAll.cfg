SPECIFICATION Spec
CONSTANTS
  Kinds <- MCKinds
  Lengths = {1}
  Blocks = {"Font", "Resource"}
  Responses = {"IGNORE_ALL"}
  MaxPos = 5
PROPERTY IgnoreAllObeyed
CHECK_DEADLOCK FALSE
