SPECIFICATION FairServiceSpec
CONSTANTS
  ann = ann
  h1 = h1
  rec = rec
  admin = admin
  Links <- MCLinks
  KeyOf <- MCKeyOf
  CallbackOf <- MCCallbackOf
  NoCallback <- MCNoCallback
  MaxId = 1
  PendingTTL = 1
  AgeCap = 2
  DbFaults = FALSE
  Browsers = {ann}
  LinksOf <- MCLinksOf
  Handlers = {h1}
  CookieTTL = 2
  Attempts = 2
  RetryAfter = 1
  MaxAge = 3
  BatchLimit = 1
  Rec = rec
  Admins = {}
  Crashes = TRUE
  MaxCrashes = 2
INVARIANT
  AnnouncedIsPaidFor
PROPERTIES
  ServiceKeepsLedger
  ServiceKeepsPromise
  ServiceSettlesOrders
  ServiceAnswersCharges
  ChargedIsServed
