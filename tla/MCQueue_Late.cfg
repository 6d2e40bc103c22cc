SPECIFICATION FairSpec
CONSTANTS
  Sender = {s1}
  Chat = {c1}
  Operation = {o1}
  ChatOf <- MCChatOf
  NoOperation = NoOperation
  MaxJobs = 2
  MaxRevision = 2
  MaxAttempts = 2
  MaxFaults = 1
  LateDelivery = TRUE
INVARIANTS IInv OneInFlightPerChat
PROPERTIES ImplementsDelivery EveryJobEnds
CHECK_DEADLOCK FALSE
