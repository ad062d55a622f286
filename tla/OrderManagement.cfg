CONSTANTS
  Call = {t1, t2, t3}
  Item = {i1}
  Half = 4
  Requests = {0, 1, 2}
  Stocked <- SomeStock
  Row <- Rows
  Value <- Values
  Helper = {}
  NoRow = NoRow
  NoOrder = NoOrder
  Unwritten = Unwritten
  Nobody = Nobody
  MaxConnections = 2
  LossyCommit = TRUE
SPECIFICATION OrderSafety
SYMMETRY Symmetry
CHECK_DEADLOCK FALSE
INVARIANT OrderTypeOK
INVARIANT FreshStock
INVARIANT OkMeansPlaced
PROPERTY StockConserved
PROPERTY NeverOversold
INVARIANT AnsweredIsEnded
PROPERTY ImplementsAtomicOrders
INVARIANT WaitsEmptyHanded
