SPECIFICATION Spec
CONSTANTS
  Procs <- MCProcs
  Jobs = 1
  Limits <- MCLimits
INVARIANTS
  TimedOutOnlyLate
  BodyIsWatched
PROPERTIES
  ProcessesEnd
