\* Every input of the three families, one load each.
SPECIFICATION LoadSpec
CONSTANTS
  Text <- MCText
  Parts <- MCParts
  Nesting <- MCNesting
  Items <- MCItems
  Accepts <- MCAccepts
  Absolute <- MCAbsolute
  Inputs <- MCInputs
CHECK_DEADLOCK FALSE
INVARIANTS
  WinnerAsDocumented
  EveryBadValueReported
  ReferencesSeeTheSetting
