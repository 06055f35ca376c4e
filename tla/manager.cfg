SPECIFICATION FairSpec
CONSTANTS
  Workers = {w1, w2}
  Prober = prober
  Closer = closer
  RedisEnabled = TRUE
  FailureThreshold = 2
  Cooldown = 1
  Timeout = 1
  FailureCap = 3
INVARIANTS TypeOK BreakerConsistent OneProbe
PROPERTIES Decided Recovery CloseReturns
