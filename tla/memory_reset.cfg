\* A request against endless Resets and evictions, at one instant.
SPECIFICATION FairSpec
CONSTANTS
  MaxLimit = 1
  MinWindow = 1
  DefaultWindow = 2
  MaxWindow = 2
  Policies <- OnePolicy
  ShortestWindow = 2
  MaxDelay = 1
  StartClock = 10
  MaxClock = 10
  Keys = {k1}
  Workers = {w1}
  Resetters = {r1}
  Janitor = janitor
  Entries = {e1, e2, e3, e4}
  NoEntry = nil
  MinTTL = 1
  MaxAttempts = 2
  MaxScan = 1
INVARIANTS ZombieIsBeingRemoved RetriesAreCaused
PROPERTIES CallsAdvance CallsReturn CloseStopsJanitor
