SPECIFICATION CheckoutSpec
CONSTANTS
  Products = {p}
  Orders = {1, 2}
  NoOrder = NoOrder
  Carts = {1,2}
  NoCart = 0
  Backlog = {}
  NoProduct = NoProduct
  Calls = {m1, m2}
  NoMessage = NoMessage
  CartSweepers = {}
  Quantities = {1}
  InitialUnits <- FourUnits
  MaxCartItems = 1
  BatchLimit = 1
  MaxUnits = 1
  MaxRows = 0
  PoolSize = 3
  MayFail = FALSE
  OffersPickup = FALSE
  Pauses = FALSE
  Topics = {"produto", "finalizar", "limpar"}
  Expiring = {}
SYMMETRY Symmetry
INVARIANTS
  OrderedAsListed
PROPERTIES
  CheckedOutOnce
