SPECIFICATION PaymentsSpec
CONSTANTS
  Products = {p}
  Orders = {o1}
  NoOrder = NoOrder
  Requests = {c1, c2}
  Sweepers = {}
  Baskets <- OneUnit
  InitialStock <- One
  Movements <- NoMovements
  MaxUnits = 2
  MaxRows = 2
  BatchLimit = 1
  Payments = {pay1, pay2}
  NoPayment = NoPayment
  Calls = {c1, c2}
  Methods = {"credito"}
  FetchMayFail = FALSE
  MaxLost = 0
SYMMETRY Symmetry
INVARIANTS
  PaidNotPending
  RefundIsFlagged
CHECK_DEADLOCK FALSE
