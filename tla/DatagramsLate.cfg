\* Nothing need happen once the script makes no more calls.
CHECK_DEADLOCK FALSE
CONSTANTS
  MaxCount = 2
  MaxCalls = 2
  Deadlines = TRUE
SPECIFICATION Spec
INVARIANTS
  CreditedToOwnSend
