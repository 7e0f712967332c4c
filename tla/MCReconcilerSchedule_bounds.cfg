SPECIFICATION ScheduleSpec
CONSTANTS
  o1 = o1
  o2 = o2
  o3 = o3
  Orders <- MCOrders
  WarmUp = 1
  Interval = 1
  RetryAfter = 1
  MaxAge = 8
  PendingMaxAge = 1
  BatchLimit = 2
  SendMax = 1
  Pause = 0
  Horizon = 8
SYMMETRY MCSymmetry
INVARIANTS
  ScheduleTypeOK
  PendingAgeBounded
  AttemptedInTime
