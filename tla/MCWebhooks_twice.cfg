SPECIFICATION WebhooksSpec
CONSTANTS
  rec = rec
  admin = admin
  Rec = rec
  Links <- MCLinks
  KeyOf <- MCKeyOf
  CallbackOf <- MCCallbackOf
  NoCallback <- MCNoCallback
  MaxId = 1
  Attempts = 2
  PendingTTL = 1
  RetryAfter = 1
  MaxAge = 3
  AgeCap = 2
  BatchLimit = 1
  Admins = {}
  Crashes = FALSE
  DbFaults = FALSE
INVARIANT
  NotSentTwiceAtOnce
