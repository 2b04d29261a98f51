SPECIFICATION FairSpec
CONSTANT MaxSessions = 2
CHECK_DEADLOCK FALSE
INVARIANT FreedOnce
