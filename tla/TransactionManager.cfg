CONSTANTS
  Call = {t1, t2}
  Row = {r1}
  Value = {v1}
  NoRow = NoRow
  Unwritten = Unwritten
  Nobody = Nobody
  Helper = {h1}
  MaxConnections = 2
  LossyCommit = FALSE
SPECIFICATION Spec
CHECK_DEADLOCK FALSE
INVARIANT TypeOK
INVARIANT SoleOwner
INVARIANT OkMeansCommitted
INVARIANT ErrMeansRolledBack
PROPERTY ImplementsTransactionBlock
PROPERTY ReturnedIsAnswered
PROPERTY AbandonedIsReleased
