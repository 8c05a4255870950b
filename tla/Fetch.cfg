\* The fetch returns and nothing is left to do.
CHECK_DEADLOCK FALSE
CONSTANTS
  Stall = 8
  Period = 2
  Lag = 1
  Timeout = 22
  BlobSize = 2
  MaxTime = 24
SPECIFICATION FairSpec
INVARIANTS
  CancelReported
  StallAfterSilence
  SilenceBounded
PROPERTIES
  FetchEnds
