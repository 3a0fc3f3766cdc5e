SPECIFICATION AgentSpec
CONSTANTS
  Requests = {n1}
  Levels = {"L2_CONVERSATIONAL"}
  MaxSteps = 1
  MaxCalls = 1
  MaxRunFaults = 0
CHECK_DEADLOCK FALSE
INVARIANTS RefusedIsNotSent
