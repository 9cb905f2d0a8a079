SPECIFICATION FairCheckoutSpec
CONSTANTS
  Products = {p}
  Orders = {1}
  NoOrder = NoOrder
  Carts = {1}
  NoCart = 0
  Backlog = {}
  NoProduct = NoProduct
  Calls = {m1}
  NoMessage = NoMessage
  CartSweepers = {s1}
  Quantities = {1}
  InitialUnits <- TwoUnits
  MaxCartItems = 1
  BatchLimit = 1
  MaxUnits = 1
  MaxRows = 0
  PoolSize = 3
  MayFail = TRUE
  OffersPickup = TRUE
  Pauses = TRUE
  Topics = {"produto", "carrinho", "finalizar", "limpar", "remover", "cancelar pedido", "outra"}
  Expiring = {1}
INVARIANTS
  CheckoutTypeOK
  ReservedIsAccounted
PROPERTIES
  EveryMessageEnds
  SilenceEndsCheckout
