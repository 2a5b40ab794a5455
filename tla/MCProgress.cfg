SPECIFICATION FairSpec
CHECK_DEADLOCK FALSE
INVARIANT AgentObeys
PROPERTIES FeedReturns SectionsIndexed CheckpointServed InsertedOnce
