CONSTANTS
  Call = {"sqlx", "seaorm"}
  Item = {i1, i2}
  OrderId = {o1}
  Half = 2
  Quantity <- Quantities3
  Value <- Quantities3
  Row <- Rows
  NoRow = NoRow
  Unwritten = Unwritten
  Nobody = Nobody
SPECIFICATION Spec
CHECK_DEADLOCK FALSE
INVARIANT AdaptersTypeOK
INVARIANT SameAnswers
INVARIANT SameTables
INVARIANT SameViews
