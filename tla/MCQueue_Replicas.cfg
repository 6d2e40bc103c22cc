SPECIFICATION Spec
CONSTANTS
  Sender = {s1, s2}
  Chat = {c1, c2}
  Operation = {}
  ChatOf <- MCChatOf
  NoOperation = NoOperation
  MaxJobs = 2
  MaxRevision = 1
  MaxAttempts = 2
  MaxFaults = 1
  LateDelivery = TRUE
INVARIANTS SendAtMostOnce SettledTruthfully
PROPERTY FinalIsFinal
CHECK_DEADLOCK FALSE
