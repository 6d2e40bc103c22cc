SPECIFICATION FairSpec
CONSTANTS
  e1 = e1
  e2 = e2
  n1 = n1
  k1 = k1
  c1 = c1
  s1 = s1
  s2 = s2
  d1 = d1
  d2 = d2
  Unreadable = Unreadable
  Event = {e1, e2}
  Notification = {n1}
  Loads <- MCLoads
  Class = {k1}
  classOf <- MCClassOf
  high <- MCHigh
  hints <- MCHints
  Chat = {c1}
  Setting = {s1, s2}
  Requests <- MCRequests
  Consumer = {d1, d2}
  Day = 3
  Start = 0
  Horizon = 0
  MaxAttempts = 2
  MaxFaults = 1
INVARIANTS
  RecordsAgree
PROPERTIES
  DecidedByThePolicy
  NotificationsConclude
CHECK_DEADLOCK FALSE
