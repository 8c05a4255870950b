CONSTANTS
  c1 = c1
  c2 = c2
  t1 = t1
  t2 = t2
  t3 = t3
  None = None
  Clients <- OneClient
  Config <- OneClientConfig
  Callers <- ThreeCallers
  ClientOf <- AllOnOne
  Script <- Everything
  Endpoints = {e1, e2}
  Conns = {k1, k2}
  Topics = {s1}
SYMMETRY CallerSymmetry
SPECIFICATION Spec
INVARIANTS
  NoNilHandle
  DialsOnOpenEndpoint
  HandlesAgree
  ExclusiveTeardown
  NoOrphans
