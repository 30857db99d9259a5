SPECIFICATION Spec
CONSTANTS
  Inputs = {"A", "B", "C"}
  Outputs = {"X", "Y"}
  Controls = {"START"}
  Strings = {"B", "Y"}
  Unknown = "none"
  Count = 3
  FirstOut = "X"
CONSTANTS
  Kinds <- MCKinds
  Models <- PlanModels
  Paired <- MCPaired
INVARIANTS
  SkippedPayloadsTakeNoRoom
CHECK_DEADLOCK FALSE
