SPECIFICATION Spec
CONSTANTS
  Targets = {"field", "check"}
  NoTarget = "none"
  Editable = {"field"}
  Buttons = {b1, b2}
  MaxCommands = 3
  MaxStops = 0
  Workbenches = {w1, w2}
  PlanWindows = {"p1"}
  Objects = {"a", "b"}
  NewObjects = {"b"}
  Gaps = {{"save"}, {"publish", "rename"}}
  MaxEdits = 2
  MaxFormEdits = 1
  MaxFormSaves = 1
  MaxRecaptures = 1
  CallVars = {"x"}
  MaxStepCalls = 3
  MaxChanges = 1
  MaxLogFaults = 1
  Builtin = "b"
  UserNames = {s, t}
  MaxDisplays = 2
  MaxFaults = 2
SYMMETRY Alike
INVARIANTS
  PublishedAsAccepted
  ArtifactsAreSound
  RunsAreHonest
PROPERTIES
  SavedStays
CHECK_DEADLOCK FALSE
