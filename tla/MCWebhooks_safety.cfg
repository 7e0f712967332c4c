SPECIFICATION WebhooksSpec
CONSTANTS
  rec = rec
  admin = admin
  Rec = rec
  Links <- MCLinks
  KeyOf <- MCKeyOf
  CallbackOf <- MCCallbackOf
  NoCallback <- MCNoCallback
  MaxId = 2
  Attempts = 1
  PendingTTL = 0
  RetryAfter = 0
  MaxAge = 2
  AgeCap = 1
  BatchLimit = 1
  Admins = {admin}
  Crashes = TRUE
  DbFaults = TRUE
INVARIANTS
  WebhooksTypeOK
  SendersCarryDueOrders
PROPERTY
  KeepsPromise
