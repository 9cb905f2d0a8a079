SPECIFICATION PaymentsSpec
CONSTANTS
  Products = {p}
  Orders = {o1}
  NoOrder = NoOrder
  Requests = {c1, c2, r1}
  Sweepers = {}
  Baskets <- OneUnit
  InitialStock <- One
  Movements <- NoMovements
  MaxUnits = 2
  MaxRows = 2
  BatchLimit = 1
  Payments = {pay1}
  NoPayment = NoPayment
  Calls = {c1, c2}
  Methods = {"credito"}
  FetchMayFail = TRUE
  MaxLost = 1
SYMMETRY Symmetry
INVARIANTS
  PaymentsTypeOK
  ConfirmedIsPaid
PROPERTIES
  NotAnnouncedAgain
  LifecycleContract
CHECK_DEADLOCK FALSE
