CONSTANTS
  Inputs <- All
  MaxSets = 2
SPECIFICATION ToolSpec
INVARIANTS
  SavedAccepted
  FormulaExact
PROPERTY ReadsBack
CHECK_DEADLOCK FALSE
