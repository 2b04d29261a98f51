SPECIFICATION FairSpec
CONSTANT MaxSessions = 2
INVARIANT MemorySafe
INVARIANT SocketsMatch
PROPERTY LastWord
PROPERTY RemovedIsFreed
PROPERTY WaitingEnds
CHECK_DEADLOCK FALSE
