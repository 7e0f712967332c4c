SPECIFICATION FairLoginSpec
CONSTANTS
  ann = ann
  left = left
  right = right
  office = office
  port = port
  none = none
  Browsers = {ann}
  Tabs <- MCTabs
  BrowserOf <- MCBrowserOf
  Addresses = {office, port}
  NoAddress = none
  RequestsOf <- MCRequestsOf
  Threshold = 2
  Window = 2
  DefaultTTL = 0
  RememberTTL = 1
INVARIANTS
  LoginTypeOK
  FailuresPerWindow
  LockedWhileOverThreshold
  LoginReturns
PROPERTIES
  
  LockEnds
  RedirectsEnd
