SPECIFICATION Spec
CONSTANTS
  Tests = 3
  Inits = 2
  MaxObjects = 2
  Configs <- MCConfigs
INVARIANTS
  HooksSeeConfiguration
