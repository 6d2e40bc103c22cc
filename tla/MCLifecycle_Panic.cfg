SPECIFICATION Spec
CONSTANT FeedCapacity = 1
INVARIANT ShutdownClosesPool
CHECK_DEADLOCK FALSE
