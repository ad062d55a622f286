CONSTANTS
  Call = {t1, t2, t3}
  Item = {i1}
  Half = 4
  Requests = {2}
  Stocked = {2}
  Row <- Rows
  Value <- Values
  Helper = {}
  NoRow = NoRow
  NoOrder = NoOrder
  Unwritten = Unwritten
  Nobody = Nobody
  MaxConnections = 2
  LossyCommit = FALSE
SPECIFICATION OrderSpec
CHECK_DEADLOCK FALSE
INVARIANT ErrMeansNotPlaced
PROPERTY EveryCallAnswered
PROPERTY EveryLockReleased
