SPECIFICATION OrdersSpec
CONSTANTS
  ann = ann
  bob = bob
  h1 = h1
  h2 = h2
  Links <- MCLinks
  KeyOf <- MCKeyOf
  CallbackOf <- MCCallbackOf
  NoCallback <- MCNoCallback
  PendingTTL = 1
  AgeCap = 2
  CookieTTL = 2
  MaxId = 2
  Browsers = {ann}
  LinksOf <- MCTwoLinksOf
  Handlers = {h1, h2}
  DbFaults = FALSE
  Crashes = FALSE
SYMMETRY HandlerSymmetry
INVARIANTS
  NumberedByOne
