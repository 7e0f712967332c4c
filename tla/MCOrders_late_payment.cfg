SPECIFICATION OrdersSpec
CONSTANTS
  ann = ann
  bob = bob
  h1 = h1
  h2 = h2
  Links <- MCLinks
  KeyOf <- MCKeyOf
  CallbackOf <- MCCallbackOf
  NoCallback <- MCNoCallback
  PendingTTL = 1
  AgeCap = 2
  CookieTTL = 2
  MaxId = 2
  Browsers = {ann}
  LinksOf <- MCOneLinkOf
  Handlers = {h1}
  DbFaults = FALSE
  Crashes = FALSE
INVARIANT
  AnsweredIsPaid
