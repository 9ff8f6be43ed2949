SPECIFICATION FairSpec
CONSTANTS
  Clients = {"capture", "recording", "state"}
  MaxThreads = 3
  Windows = {"one", "two"}
  NoWindow = "none"
  MaxGenerations = 2
  MaxIdle = 1
  MaxDialogs = 1
  MaxSessions = 2
  MaxCommands = 3
  Projects = {"j1"}
  Plans = {"l1"}
  Starter = "s"
  MaxRuns = 2
  MaxPlans = 2
  MaxRaises = 1
  PlanVars = {"x", "y"}
  Given = {"x"}
  StepIds = {"r1", "r2"}
  MaxCalls = 3
  MaxSaves = 2
INVARIANTS
  OneDispatcher
  UsersCounted
  OneRecording
  StopLeavesNothing
  StatusIsTrue
  ReusableIsFaithful
PROPERTIES
  StopsOnlyIdleLoop
  StopsComplete
CHECK_DEADLOCK FALSE
