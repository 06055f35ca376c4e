\* Two requests, a reset, skewed clocks, resends and calls given up.
SPECIFICATION Spec
CONSTANTS
  w1 = w1
  w2 = w2
  MaxLimit = 2
  MinWindow = 2
  DefaultWindow = 7
  MaxWindow = 7
  Policies <- OnePolicy
  ShortestWindow = 3
  MaxDelay = 1
  StartClock = 10
  MaxClock = 1000
  Keys = {k1}
  Workers = {w1, w2}
  Resetters = {r1}
  Home <- OneInstance
  Milli = 2
  MaxAhead = 1
  MaxSends = 2
INVARIANTS TypeOK WindowBound AdmissionsAreCounted OneSlotPerCall RetryAfterBounded ResetFreesSlot
SYMMETRY Identities
VIEW Relevant
