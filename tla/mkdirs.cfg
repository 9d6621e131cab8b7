SPECIFICATION Spec
CONSTANTS
  Procs = {"p1", "p2", "p3"}
  Paths <- MCPaths
  Trees <- MCTrees
  Platforms <- MCPlatforms
INVARIANTS
  SuccessMeansPath
  FailureHasCause
