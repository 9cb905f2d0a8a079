SPECIFICATION FairCartSpec
CONSTANTS
  Products = {p}
  Orders = {}
  NoOrder = NoOrder
  Carts = {1, 2}
  NoCart = 0
  Backlog = {2}
  NoProduct = NoProduct
  Calls = {c1, c2}
  CartSweepers = {s1}
  Quantities = {1}
  InitialUnits <- TwoUnits
  MaxCartItems = 1
  BatchLimit = 1
  MaxUnits = 2
  MaxRows = 0
INVARIANTS
  CartTypeOK
  HeldAsListed
  ReservedIsListed
PROPERTIES
  OverdueCartIsSettled
