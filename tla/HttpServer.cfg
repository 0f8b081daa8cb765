CONSTANTS
  c1 = c1
  c2 = c2
  None = None
  Clients <- TwoClients
  Inputs = 1
SPECIFICATION FairSpec
INVARIANTS ReadyCurrent HealthConsistent ConnectionsClosed
PROPERTIES StopReturns ClientsServed
