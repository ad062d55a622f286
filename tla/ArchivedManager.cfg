CONSTANTS
  Call = {t1, t2}
  Row = {r1}
  Value = {v1}
  NoRow = NoRow
  Unwritten = Unwritten
  Nobody = Nobody
  Helper = {h1}
  MaxConnections = 2
  LossyCommit = TRUE
SPECIFICATION LockedSpec
CHECK_DEADLOCK FALSE
INVARIANT LockedTypeOK
INVARIANT OkMeansCommitted
PROPERTY ImplementsTransactionBlock
PROPERTY AnsweredIfUnlocked
PROPERTY AbandonedIsReleased
