SPECIFICATION PlacementSpec
CONSTANTS
  Products = {p1, p2}
  Orders = {1, 2}
  NoOrder = NoOrder
  Tills = {t1}
  Requests = {r1, r2}
  NoRequest = NoRequest
  Keys = {1}
  NoKey = 0
  Baskets <- OneEach
  Elsewhere = {TRUE}
  InitialUnits <- LastUnit
  UsageLimit = 1
  MayFail = TRUE
  MaxUnits = 2
  MaxRows = 3
INVARIANTS
  PlacementTypeOK
  OneOrderPerKey
  SoldAsShown
  UnitsAreAccounted
  CouponIsCounted
  NobodyStuck
PROPERTIES
  PlacedAtOnce
