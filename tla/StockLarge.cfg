CONSTANTS
  Half = 4
  Amounts <- AllAmounts
  OverflowChecks = TRUE
  None = None
SPECIFICATION Spec
PROPERTY RefusesToOverdraw
