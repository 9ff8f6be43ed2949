SPECIFICATION Spec
CONSTANTS
  Objects = {"check"}
  Kind <- MCKind
  NoObject = "none"
  Values = {"a"}
  NoValue = "none"
  Adapters <- Both
  AtspiFrameworks = {"atspi", "javafx"}
  Calm = TRUE
  Gaps = {1, 3}
  MaxGestures = 2
  DualWindow = 1
  CorrWindow = 2
  DupWindow = 3
INVARIANTS
  BothAdaptersOneAction
