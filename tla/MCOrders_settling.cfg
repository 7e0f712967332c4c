SPECIFICATION OrdersSpec
CONSTANTS
  ann = ann
  bob = bob
  h1 = h1
  h2 = h2
  Links <- MCLinks
  KeyOf <- MCKeyOf
  CallbackOf <- MCCallbackOf
  NoCallback <- MCNoCallback
  PendingTTL = 2
  AgeCap = 3
  CookieTTL = 2
  MaxId = 3
  Browsers = {ann}
  LinksOf <- MCOneLinkOf
  Handlers = {h1}
  DbFaults = FALSE
  Crashes = TRUE
INVARIANTS
  AnsweredIsSettled
  ToldIsSettled
  NoEarlyDuplicate
