CONSTANTS
  Call = {t1, t2}
  Item = {i1}
  Half = 4
  Requests = {0, 1, 2}
  Stocked <- SomeStock
  Row <- Rows
  Value <- Values
  Helper = {}
  NoRow = NoRow
  NoOrder = NoOrder
  Unwritten = Unwritten
  Nobody = Nobody
  MaxConnections = 2
  LossyCommit = FALSE
SPECIFICATION AppSpec
CHECK_DEADLOCK FALSE
INVARIANT AppTypeOK
INVARIANT ExitTells
PROPERTY OrderEnds
