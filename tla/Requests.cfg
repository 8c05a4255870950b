\* Nothing need happen once the script makes no more requests.
CHECK_DEADLOCK FALSE
CONSTANTS
  VU = vu
  Writers = {vu, w}
  Cells = {"request", "transfer"}
  Nobody = Nobody
  Payload = 2
  ReadLimit = 2
  CopyBuf = 1
  MaxRequests = 2
  MaxOthers = 1
  MaxConns = 2
SPECIFICATION FairSpec
INVARIANTS
  SamplesInOrder
  TornLinesBounded
  LineMeansRoundTrip
  EndAnnounced
PROPERTIES
  DeadIsNoticed
  RequestEnds
