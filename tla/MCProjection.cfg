SPECIFICATION FairSpec
CONSTANTS
  Operation <- MCOperation
  MaxFrames <- MCFrames
  MaxTime = 2
  MaxStreams = 1
  FeedCapacity = 1
  MaxCloses = 2
  MaxFaults = 2
  MaxErrors = 1
INVARIANTS
  RendersFollowTheLog
  PassedFramesAccountedFor
PROPERTIES
  OperationsEnd
CHECK_DEADLOCK FALSE
