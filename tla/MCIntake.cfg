SPECIFICATION FairSpec
CONSTANTS
  u1 = u1
  u2 = u2
  w1 = w1
  w2 = w2
  Update = {u1, u2}
  Mixes <- MCMixes
  Worker = {w1, w2}
  QueueCapacity = 1
  MaxAttempts = 2
  MaxFaults = 2
INVARIANTS
  TypeOK
  AnnouncedOnce
  ProcessedIsDone
  RecoveryBound
PROPERTIES
  SettledStaysSettled
  UpdatesEnd
CHECK_DEADLOCK FALSE
