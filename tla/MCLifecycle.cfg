SPECIFICATION FairSpec
CONSTANT FeedCapacity = 1
INVARIANTS PoolOutlivesOwned GracefulIsWhole ReadyIsServing
PROPERTIES NothingAdmittedPastFence ShutdownEnds
CHECK_DEADLOCK FALSE
