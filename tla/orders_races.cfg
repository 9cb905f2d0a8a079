SPECIFICATION Spec
CONSTANTS
  Products = {p}
  Orders = {o1, o2}
  NoOrder = NoOrder
  Requests = {r1, r2}
  Sweepers = {s1}
  Baskets <- OneOrTwo
  InitialStock <- Two
  Movements <- BuyAndLose
  MaxUnits = 3
  MaxRows = 3
  BatchLimit = 2
SYMMETRY Symmetry
INVARIANTS
  TypeOK
  LedgerBalances
  ReservationsEndOnce
  DeliveredIsSold
  ReservedIsHeld
PROPERTIES
  LedgerContract
CHECK_DEADLOCK FALSE
