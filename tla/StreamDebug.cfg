\* Nothing is left to do once the streams and both dumps have ended.
CHECK_DEADLOCK FALSE
CONSTANTS
  Streams = {s1, s2}
  MaxOps = 2
  MaxTicks = 1
SPECIFICATION FairSpec
INVARIANTS
  LineConsistent
  FinalDumpCovers
PROPERTIES
  LoopEnds
