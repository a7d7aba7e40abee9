SPECIFICATION Spec
CONSTANTS
  Runner = {r1}
  NoRow = NoRow
  MaxRetries = 1
  MaxLLMCalls = 4
  WorkflowLimit = 2
  VersionLimit = 2
  InterruptLimit = 1
PROPERTY ClosedStaysClosed
CHECK_DEADLOCK FALSE
