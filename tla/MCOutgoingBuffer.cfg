SPECIFICATION FairSpec
CONSTANTS
  a = a
  b = b
  s1 = s1
  s2 = s2
  CR = CR
  LF = LF
  Free = Free
  Worker = Worker
  Sender <- MCSender
  Byte <- MCByte
  Line <- MCLine
  Capacity = 8
  MaxLines = 3
INVARIANT NoOverflow
PROPERTY ImplementsChannel
PROPERTY LinesAreSent
CHECK_DEADLOCK FALSE
