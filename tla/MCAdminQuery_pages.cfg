SPECIFICATION AdminSpec
CONSTANTS
  Links <- MCLinks
  KeyOf <- MCKeyOf
  CallbackOf <- MCCallbackOf
  NoCallback <- MCNoCallback
  LinkOf <- MCLinkOf
  DetailsOf <- MCDetailsOf
  Like <- MCLike
  Filters <- MCFilters
  MaxId = 3
  PageSize = 2
  PendingTTL = 0
  AgeCap = 1
  DbFaults = TRUE
INVARIANTS
  AdminTypeOK
  PagesShareOutMatches
  TilesMatchLists
  SkipsAccounted
