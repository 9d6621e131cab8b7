SPECIFICATION Spec
CONSTANTS
  Strings <- MCStrings
  MaxBytes = 20
INVARIANTS
  NeverOverruns
  ConvertsUnicode
PROPERTIES
  Ends
