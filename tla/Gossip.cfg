\* Nothing need happen once the script calls for no more rounds.
CHECK_DEADLOCK FALSE
CONSTANTS
  Members = {m1}
  MaxCount = 2
  MaxRounds = 2
  Cap = 2
SPECIFICATION FairSpec
INVARIANTS
  OneCreditEach
  StaleNeedsLoss
PROPERTIES
  ImplementsEchoAccount
  RoundEnds
