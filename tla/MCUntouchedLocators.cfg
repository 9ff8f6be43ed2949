SPECIFICATION Spec
CONSTANTS
  Objects = {"a", "b"}
  MaxFormEdits = 1
  MaxFormSaves = 1
  MaxRecaptures = 1
INVARIANT OnlyChangedAreUpdated
CHECK_DEADLOCK FALSE
