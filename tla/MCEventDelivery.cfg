SPECIFICATION Spec
CONSTANTS
  Kind = {join, part}
  MaxCalls = 3
  MaxEvents = 2
INVARIANTS ReplyIsLive NotOverdrawn NoGap
CHECK_DEADLOCK FALSE
