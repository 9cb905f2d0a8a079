SPECIFICATION CatalogSpec
CONSTANTS
  Products = {p1, p2, p3}
  Orders = {}
  NoOrder = NoOrder
  Jobs = {j1, j2}
  Readers = {l1}
  NoProduct = NoProduct
  Skus = {1, 2}
  NoSku = 0
  Bases = {1}
  SkuAt <- TwoAttempts
  Prices = {1}
  Edits <- Removal
  Alerts = {0, 1}
  Openings = {0}
  Changed = {p1}
  NoList = NoList
  OldProducts <- First
  OldUnits = 1
  MayFail = TRUE
  MaxUnits = 1
  MaxRows = 2
INVARIANTS
  CatalogTypeOK
  SkuIsUnique
  ConflictIsReal
  
PROPERTIES
  OnlyAlertsUndoMovements
