SPECIFICATION Spec
CONSTANTS
  t1 = t1
  b1 = b1
  Token = {t1}
  Block = {b1}
  MaxRetries = 0
  NoToken = NoToken
  NULL = NULL
CHECK_DEADLOCK FALSE
INVARIANT PingerSessionAlive
