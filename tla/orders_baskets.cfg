SPECIFICATION FairSpec
CONSTANTS
  Products = {p1, p2}
  Orders = {o1, o2}
  NoOrder = NoOrder
  Requests = {r1}
  Sweepers = {s1}
  Baskets <- OneEach
  InitialStock <- OneOrTwoUnits
  Movements <- LoseTwo
  MaxUnits = 2
  MaxRows = 2
  BatchLimit = 1
INVARIANTS
  SoldAsOrdered
PROPERTIES
  OverdueIsSettled
CHECK_DEADLOCK FALSE
