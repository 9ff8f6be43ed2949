SPECIFICATION Spec
CONSTANTS
  CallVars = {"x", "y"}
  MaxStepCalls = 3
  MaxChanges = 1
  MaxLogFaults = 1
INVARIANT FinishedReturns
CHECK_DEADLOCK FALSE
