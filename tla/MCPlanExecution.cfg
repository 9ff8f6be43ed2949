SPECIFICATION FairSpec
CONSTANTS
  N = 3
  Vars <- MCVars
  Paths <- MCPaths
  RootOf <- MCRootOf
  Plans <- MCPlans
  MaxDeps = 1
  MaxNeeds = 1
  MaxBinds = 2
INVARIANTS
  ReadinessDerived
  DataFlowSound
  VerdictTruthful
  ArtifactsTruthful
  ForwardPlansDoNotStall
PROPERTIES
  KeepsPromise
  BackendReclaimed
