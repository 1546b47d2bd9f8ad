SPECIFICATION FairSpec
CONSTANTS
  MaxCard = 1
  MaxTask = 3
  Tickers <- OneTicker
  Clients <- OneClient
  AgyCards <- FirstCard
  Limit <- Killed
  t1 = t1
  t2 = t2
  c1 = c1
INVARIANTS
  BoundToOwnCard
PROPERTIES
  LifecycleSpec
  QueuedTaskGetsResult
  ClaimReleased
  BacklogServed
