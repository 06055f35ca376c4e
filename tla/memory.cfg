\* Requests, peeks, evictions and the passing of time, without Reset.
SPECIFICATION Spec
CONSTANTS
  MaxLimit = 2
  MinWindow = 1
  DefaultWindow = 2
  MaxWindow = 2
  Policies <- OnePolicy
  ShortestWindow = 2
  MaxDelay = 1
  StartClock = 10
  MaxClock = 1000
  Keys = {k1}
  Workers = {w1, w2}
  Resetters = {}
  Janitor = janitor
  Entries = {e1, e2, e3, e4}
  NoEntry = nil
  MinTTL = 1
  MaxAttempts = 1
  MaxScan = 1
INVARIANTS TypeOK LiveIsMapped WindowBound LogMatchesGranted RetryAfterBounded ResetFreesSlot
PROPERTY Refinement
SYMMETRY Identities
VIEW Relevant
