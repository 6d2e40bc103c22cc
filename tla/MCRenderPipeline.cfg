SPECIFICATION MCSpec
CONSTANTS
  chat = chat
  Sender = {s1}
  Chat = {chat}
  Operation <- OneOperation
  ChatOf <- ItsChat
  NoOperation = NoOperation
  MaxJobs = 3
  MaxRevision = 2
  MaxAttempts = 2
  MaxFaults = 1
  LateDelivery = TRUE
  MaxFrames <- TwoFrames
  MaxTime = 1
  MaxStreams = 1
  FeedCapacity = 1
  MaxCloses = 2
  MaxLosses = 1
  MaxErrors = 1
  MaxRecoveries = 1
PROPERTIES
  ImplementsProjection
  RendersStay
  ResultsConclude
CHECK_DEADLOCK FALSE
