\* Nothing need happen once the scripts take no more snapshots.
CHECK_DEADLOCK FALSE
CONSTANTS
  Callers = {t1, t2}
  Shared = FALSE
  W = 8
  MaxTraffic = 3
  MaxBinds = 2
  MaxDeltas = 16
SYMMETRY Symmetry
SPECIFICATION Spec
INVARIANTS
  DeltasTelescope
  SequentialSnapshotsExact
  SamplesAccounted
