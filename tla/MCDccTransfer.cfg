SPECIFICATION FairSpec
CONSTANTS
  Size = 5
  Buffer = 2
INVARIANT NoAbort
PROPERTY ImplementsCopy
PROPERTY TransferEnds
CHECK_DEADLOCK FALSE
