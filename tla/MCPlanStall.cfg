SPECIFICATION Spec
CONSTANTS
  N = 2
  Vars <- MCVars
  Paths <- MCPaths
  RootOf <- MCRootOf
  Plans <- MCPlans
  MaxDeps = 1
  MaxNeeds = 1
  MaxBinds = 1
INVARIANTS
  ValidatedPlansDoNotStall
