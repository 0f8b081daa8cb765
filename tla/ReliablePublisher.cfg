CONSTANTS
  w1 = w1
  w2 = w2
  main = main
  m1 = m1
  m2 = m2
  k1 = k1
  k2 = k2
  k3 = k3
  None = None
  Main = main
  Workers <- MCWorkers
  Threads <- MCThreads
  Messages = {m1, m2}
  Mids = {k1, k2, k3}
  MaxFaults = 1
SPECIFICATION ScheduledSpec
INVARIANTS PublishedMeansDelivered NoLoss DepthAccurate
PROPERTIES AckNotDiscarded StoreAndForwardSpec CallsReturn CacheDrains
