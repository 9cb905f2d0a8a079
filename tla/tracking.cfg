SPECIFICATION FairTrackingSpec
CONSTANTS
  Asks = {a1, a2, a3}
  NoOrder = NoOrder
  NotRead = NotRead
  MayFail = TRUE
PROPERTIES
  EndIsShown
