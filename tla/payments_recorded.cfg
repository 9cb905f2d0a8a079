SPECIFICATION FairPaymentsSpec
CONSTANTS
  Products = {p}
  Orders = {o1}
  NoOrder = NoOrder
  Requests = {c1}
  Sweepers = {s1}
  Baskets <- OneUnit
  InitialStock <- One
  Movements <- OnePurchase
  MaxUnits = 2
  MaxRows = 2
  BatchLimit = 1
  Payments = {pay1}
  NoPayment = NoPayment
  Calls = {c1}
  Methods = {"pix"}
  FetchMayFail = FALSE
  MaxLost = 0
PROPERTIES
  ApprovedIsRecorded
CHECK_DEADLOCK FALSE
