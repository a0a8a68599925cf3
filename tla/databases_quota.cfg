CONSTANTS
  d1 = d1
  x1 = x1
  x2 = x2
  Databases = {d1}
  Transactions = {x1, x2}
  Statements <- Kinds
  Requests <- Asked
  None = None
  Exec = 2
  MaxRaises = 1
  MayDelete = FALSE
SPECIFICATION Spec
INVARIANT HandledErrorsAreOver
CHECK_DEADLOCK FALSE
