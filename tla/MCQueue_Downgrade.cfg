SPECIFICATION Spec
CONSTANTS
  Sender = {s1, s2}
  Chat = {c1}
  Operation = {o1}
  ChatOf <- MCChatOf
  NoOperation = NoOperation
  MaxJobs = 2
  MaxRevision = 2
  MaxAttempts = 2
  MaxFaults = 1
  LateDelivery = FALSE
INVARIANT SendAtMostOnce
CHECK_DEADLOCK FALSE
