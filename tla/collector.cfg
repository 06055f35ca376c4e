SPECIFICATION Spec
CONSTANTS
  Recorders = {r1, r2}
  Keys = {k1, k2}
  NoKey = noKey
  Events <- MCEvents
  RingLen = 2
  ClientTTL = 1
  MaxClients = 1
  CapSlack = 0
  MaxTime = 3
  MaxEvents = 3
  MaxDelay = 1
INVARIANTS TypeOK Reconciled SumsReconciled SeriesExact TableBounded
PROPERTIES SweptIsIdle
CHECK_DEADLOCK FALSE
SYMMETRY Symmetry
