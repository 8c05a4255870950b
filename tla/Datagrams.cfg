\* Nothing need happen once the script makes no more calls.
CHECK_DEADLOCK FALSE
CONSTANTS
  MaxCount = 2
  MaxCalls = 3
  Deadlines = TRUE
SPECIFICATION FairSpec
INVARIANTS
  OneCreditEach
  LateCreditAfterLoss
  LossNotUnderstated
PROPERTIES
  ImplementsEchoAccount
  CallEnds
