CONSTANTS
  Call = {t1}
  Row = {r1}
  Value = {v1}
  NoRow = NoRow
  Unwritten = Unwritten
  Nobody = Nobody
  Helper = {h1}
  MaxConnections = 1
  LossyCommit = FALSE
SPECIFICATION Safety
CHECK_DEADLOCK FALSE
INVARIANT ContextGone
