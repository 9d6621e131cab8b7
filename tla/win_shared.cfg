SPECIFICATION Spec
CONSTANTS
  Procs = {"p1", "p2"}
  Jobs = 2
  Limits <- MCEqual
PROPERTIES
  ProcessesEnd
