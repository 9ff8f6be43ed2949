SPECIFICATION Spec
CONSTANTS
  Objects = {"button", "menu", "item"}
  Kind <- MCKind
  NoObject = "none"
  Values = {"a"}
  NoValue = "none"
  Adapters <- Single
  AtspiFrameworks = {"atspi"}
  Calm = TRUE
  Gaps = {1, 3}
  MaxGestures = 2
  DualWindow = 1
  CorrWindow = 2
  DupWindow = 3
INVARIANTS
  OnlyOpenersAreAbsorbed
