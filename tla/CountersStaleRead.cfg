\* Nothing need happen once the scripts take no more snapshots.
CHECK_DEADLOCK FALSE
CONSTANTS
  Callers = {t1, t2}
  Shared = TRUE
  W = 8
  MaxTraffic = 3
  MaxBinds = 1
  MaxDeltas = 20
SYMMETRY Symmetry
SPECIFICATION Spec
INVARIANTS
  EmittedWithinTraffic
