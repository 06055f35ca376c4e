SPECIFICATION FairSpec
CONSTANTS
  Instances = {i1, i2}
  Admins = {a1, a2}
  Limits = {2}
  Windows = {3, 5}
  Texts = {b, blank}
  Blank = blank
  DefaultPolicy <- MCDefaultPolicy
  DefaultText = a
  LimitMax = 2
  Milli = 2
  Second = 4
  Hour = 6
  Day = 8
  None = none
  FaultKinds = {"call", "connection", "crash"}
  MaxRequests = 2
  MaxFaults = 1
INVARIANTS TypeOK Agreement SurvivesRestart
PROPERTIES Convergence
CHECK_DEADLOCK FALSE
