SPECIFICATION Spec
CONSTANTS
  Inputs = {"A", "B", "C"}
  Outputs = {"X", "Y"}
  Controls = {"START"}
  Strings = {"B", "Y"}
  Unknown = "none"
  Count = 3
  FirstOut = "X"
CONSTANTS
  Kinds <- MCKinds
  Models <- MCModels
  Paired <- MCPaired
INVARIANTS
  OwnResults
  ErrorsStayLocal
CHECK_DEADLOCK FALSE
