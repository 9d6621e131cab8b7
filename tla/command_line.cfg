SPECIFICATION Spec
CONSTANTS
  Registries <- MCRegistries
  Executable <- MCExecutable
  Lines <- MCLines
  Numeral <- MCNumeral
  Cores = 4
  Default <- MCDefault
  CodePoint <- MCCodePoint
  Rank <- MCRank
  Lower <- MCLower
INVARIANTS
  NestedRunsSubmittedTest
  NestedSeesConfiguration
  SelectionByName
