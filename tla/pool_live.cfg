\* Everything comes to an end. Symmetry is not used with liveness.
SPECIFICATION LiveSpec
CONSTANTS
  t1 = t1
  t2 = t2
  t3 = t3
  p1 = p1
  p2 = p2
  p3 = p3
  h1 = h1
  Test = {t1, t2, t3}
  NoTest = NoTest
  List <- Order3
  Limit <- LiveLimits
  Pid = {p1, p2}
  Helper = {h1}
  Parent = Parent
  Configs <- LiveConfigs
  BodyCodes <- FailedAssertion
  MainReturns = FALSE
  HandlerMayHang = FALSE
  MaxFaults = 1
  MaxStops = 0
INVARIANT SuccessMeansExecuted
PROPERTIES
  RunnerEndsEventually
  EndedTestsAreRecorded
