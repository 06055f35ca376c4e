SPECIFICATION FairSpec
CONSTANTS
  Conns = {c1, c2}
  Buffer = 2
  MaxFrames = 3
INVARIANTS NoPanic FramesAccounted
PROPERTIES ShutdownEnds
CHECK_DEADLOCK FALSE
