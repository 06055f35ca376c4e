SPECIFICATION FSpec
CONSTANTS
  Workers = {w1, w2}
  Prober = prober
  Closer = closer
  RedisEnabled = TRUE
  FailureThreshold = 1
  Cooldown = 1
  Timeout = 1
  FailureCap = 1
  Limit = 1
  MaxAttempts = 2
  MaxRequests = 3
  MaxResets = 2
INVARIANTS Metered
CHECK_DEADLOCK FALSE
SYMMETRY Symmetry
VIEW Accounts
