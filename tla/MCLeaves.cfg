SPECIFICATION MCSpec
CONSTANTS
  Sender = {o, u}
  Owner = o
  Chat = {p, g}
  Private = {p}
  Worker = {w1, w2, w3}
  MaxChanges = 2
  MaxFaults = 1
  Target = {c1, c2}
  Second = 10
  Interval = 12
  MaxAttempts = 3
  BackoffBase = 2
  BackoffCap = 3
  Jitter = 0
  Pause = {1, 3}
  MaxJobs = 3
  MaxTime = 4
  MaxBack = 2
  CallFaults = 1
  small = small
  large = large
  Document = {small, large}
  Size <- TwoSizes
  Budget = 3
  StoreFaults = 2
  DataByte = {"run", "end", "bad", "lead", "tail"}
  MaxBytes = 6
SYMMETRY Symmetry
INVARIANTS
  AccessIsAsDecided
  StoreIsKept
  StreamIsRead
PROPERTIES
  ChatStaysBound
  GateIsKept
CHECK_DEADLOCK FALSE
