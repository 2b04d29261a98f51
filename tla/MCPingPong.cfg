SPECIFICATION FairPingSpec
CONSTANTS
  main = main
  pinger = pinger
  t1 = t1
  t2 = t2
  t3 = t3
  t4 = t4
  Sender <- MCSender
  Pinger = pinger
  Time <- MCTime
INVARIANT OneReason
INVARIANT StampIsOwn
PROPERTY KeepAlive
CHECK_DEADLOCK FALSE
