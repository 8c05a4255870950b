CONSTANTS
  c1 = c1
  c2 = c2
  t1 = t1
  t2 = t2
  t3 = t3
  None = None
  Clients <- TwoClients
  Config <- Disagreeing
  Callers <- ThreeCallers
  ClientOf <- TwoOnFirst
  Script <- Divided
  Endpoints = {e1, e2}
  Conns = {k1}
  Topics = {s1}
SPECIFICATION FairSpec
INVARIANTS
  SharedStaysOpen
  OptionsHonoured
PROPERTIES
  ImplementsSharedCell
  CallsReturn
  ClosedPumpEnds
