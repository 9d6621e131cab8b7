\* A test fails, no system call does.
SPECIFICATION Spec
CONSTANTS
  t1 = t1
  t2 = t2
  t3 = t3
  p1 = p1
  p2 = p2
  p3 = p3
  h1 = h1
  Test = {t1, t2}
  NoTest = NoTest
  List <- Order2
  Limit <- AllFinite
  Pid = {p1, p2}
  Helper = {h1}
  Parent = Parent
  Configs <- ForkConfigs
  BodyCodes <- FailedAssertion
  MainReturns = TRUE
  HandlerMayHang = FALSE
  MaxFaults = 0
  MaxStops = 0
INVARIANT StatusTellsFailure
