SPECIFICATION FairEngineSpec
CONSTANT MaxUnread = 2
INVARIANT RegisteredOnce
PROPERTY DisconnectLeaves
PROPERTY EndLeaves
PROPERTY ConnectDecided
CHECK_DEADLOCK FALSE
