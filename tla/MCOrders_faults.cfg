SPECIFICATION OrdersSpec
CONSTANTS
  ann = ann
  bob = bob
  h1 = h1
  h2 = h2
  Links <- MCLinks
  KeyOf <- MCKeyOf
  CallbackOf <- MCCallbackOf
  NoCallback <- MCNoCallback
  PendingTTL = 1
  AgeCap = 2
  CookieTTL = 2
  MaxId = 2
  Browsers = {ann, bob}
  LinksOf <- MCBothLinksOf
  Handlers = {h1}
  DbFaults = TRUE
  Crashes = TRUE
INVARIANTS
  OrdersTypeOK
  PaidWasCharged
  CookieOpensOwnOrder
  JobsArePaid
PROPERTIES
  HistoryKept
  KeepsLedger
