SPECIFICATION FairSpec
CONSTANTS
  t1 = t1
  b1 = b1
  Token = {t1}
  Block = {b1}
  MaxRetries = 2
  NoToken = NoToken
  NULL = NULL
INVARIANT ClaimantNeverFirstStale
INVARIANT PingerOnce
INVARIANT SessionsDestroyedOnce
PROPERTY UnclaimedIsReaped
PROPERTY WorkerConnectsOrFrees
PROPERTY FinishedIsFreed
CHECK_DEADLOCK FALSE
