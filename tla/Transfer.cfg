\* The call returns and nothing is left to do.
CHECK_DEADLOCK FALSE
CONSTANTS
  Streams = {s1, s2}
  Bytes = 3
  MsgSize = 2
  Window = 2
  Limit = 1
  Deadlines = TRUE
  ShortWrites = TRUE
SPECIFICATION FairSpec
INVARIANTS
  CompletedDelivered
  SentCoversReceived
  ResultAgrees
PROPERTIES
  CallReturns
  AllDelivered
