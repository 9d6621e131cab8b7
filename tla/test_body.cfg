SPECIFICATION MCSpec
CONSTANTS
  One = 4
  NaN = NaN
  PosInf = PosInf
  NegInf = NegInf
  Object = {o1, o2}
  Nobody = Nobody
  Base = {16, 40}
  Lengths = {0, 2}
  Aligns = {1, 16}
  Values <- MCValues
  Random = {5}
  Bytes = {0, 1}
  Tolerances = {1}
  SizeT = 5
  MaxOps = 5
  Null = Null
  Garbage = Garbage
  Chunk = 2
  SupportMin = 2
  Function = {f, g}
  Costs = {1, 3}
  MaxCalls = 5
  MaxMarks = 3
  MaxFailures = 1
SYMMETRY MCSymmetry
INVARIANTS
  MemoryOwned
  GuardsInside
  ValidMeansUntouched
  EqualMeansClose
  EqualsSymmetric
  DiffInside
  BytesCompared
  EntriesOwned
  RatedInGroup
  TableShowsLog
  SupportKept
PROPERTY RatedOnce
\* A behaviour of buffers ends where the bound on calls is reached.
CHECK_DEADLOCK FALSE
