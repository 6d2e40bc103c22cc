SPECIFICATION FairSpec
CONSTANTS
  d1 = d1
  w1 = w1
  w2 = w2
  None = None
  Dialogue = {d1}
  Mode = {"track", "star"}
  Press = {1, 2, 3}
  Scripts <- MCScripts
  Worker = {w1, w2}
  MaxAttempts = 2
  MaxFaults = 1
INVARIANTS
  DecisionIsCarriedOut
PROPERTIES
  DialoguesEnd
CHECK_DEADLOCK FALSE
