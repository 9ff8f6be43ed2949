SPECIFICATION Spec
CONSTANTS
  Endpoints = {"one", "two"}
  MaxCaptures = 2
  MaxClicks = 2
  MaxSelections = 3
  Apps = {"one", "two"}
  Xids = {"x1", "x2"}
  MaxActions = 2
  MaxNodes = 3
  Comps = {1, 2}
  PoolSize = 1
  MaxRequests = 2
  MaxChanges = 2
  Timeouts = {3, 9}
  Stabilities = {0, 2}
  Resolutions = {0, 3}
  Interval = 1
  MaxFlips = 2
  MaxLate = 1
  MaxStages = 2
  MaxSceneChanges = 1
  MaxAttempts = 2
  MaxItems = 2
  MaxMenuChanges = 1
  Components = {"b1", "b2"}
  MaxScreenEvents = 2
  MaxObjects = 4
  MaxWindows = 2
  MaxLayers = 2
  MaxPicks = 2
  MaxRelabels = 1
INVARIANTS
  ReplaysRecorded
  SelectedOnce
  CapturesOwnClick
  ActsProvenAndOnce
  FoundIsMeant
  WaitsAreHonest
  CallsAreTrue
CHECK_DEADLOCK FALSE
