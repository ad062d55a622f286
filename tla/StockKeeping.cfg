CONSTANTS
  Half = 4
  Amounts <- SmallAmounts
  OverflowChecks = TRUE
  None = None
SPECIFICATION Spec
INVARIANT TypeOK
INVARIANT StockIsExact
PROPERTY OrderReadsBack
