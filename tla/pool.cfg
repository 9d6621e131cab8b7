\* The pool and the runner, with failures of system calls and stop signals.
SPECIFICATION Spec
CONSTANTS
  t1 = t1
  t2 = t2
  t3 = t3
  p1 = p1
  p2 = p2
  p3 = p3
  h1 = h1
  Test = {t1, t2, t3}
  NoTest = NoTest
  List <- Order3
  Limit <- MixedLimits
  Pid = {p1, p2}
  Helper = {h1}
  Parent = Parent
  Configs <- PoolConfigs
  BodyCodes <- ExitCodes
  MainReturns = TRUE
  HandlerMayHang = TRUE
  MaxFaults = 1
  MaxStops = 1
SYMMETRY Symmetry
INVARIANTS
  TypeOK
  TableMatchesChildren
  VerdictFaithful
  EveryTestAccounted
  TestsAtATime
  CompleteReport
  TimerConfined
  RunnerSurvives
PROPERTIES
  ImplementsTestRun
