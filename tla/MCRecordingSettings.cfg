SPECIFICATION SettingsSpec
CONSTANTS
  Objects = {"button", "check", "field", "tabs", "selector", "menu", "item"}
  Kind <- MCKind
  NoObject = "none"
  Values = {"a", "b"}
  NoValue = "none"
  Adapters <- Both
  AtspiFrameworks = {"atspi", "javafx"}
  Calm = FALSE
  Gaps = {1, 2, 3, 4}
  MaxGestures = 4
  DualWindow = 1
  CorrWindow = 2
  DupWindow = 3
INVARIANTS
  NativeFaithful
  OneObjectPerStep
  HeardIsKept
  RecordedOnce
PROPERTIES
  RecordedIsFinal
