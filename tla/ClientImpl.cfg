CONSTANTS
  c1 = c1
  c2 = c2
  t1 = t1
  t2 = t2
  t3 = t3
  None = None
  Clients <- TwoClients
  Config <- MixedImpl
  Callers <- TwoCallers
  ClientOf <- FirstTwo
  Script <- Transfers
  Endpoints = {e1}
  Conns = {k1}
  Topics = {s1}
SPECIFICATION Spec
INVARIANTS
  EndpointOfOwnImpl
