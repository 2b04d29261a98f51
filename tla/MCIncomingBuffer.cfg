SPECIFICATION FairReadSpec
CONSTANTS
  a = a
  CR = CR
  LF = LF
  Byte <- MCByte
  Line <- MCLine
  Capacity = 5
  MaxLines = 3
INVARIANT InOrder
INVARIANT ClosedByServer
PROPERTY EveryLineProcessed
CHECK_DEADLOCK FALSE
