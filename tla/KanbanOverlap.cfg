SPECIFICATION Spec
CONSTANTS
  MaxCard = 1
  MaxTask = 2
  Tickers <- OneTicker
  Clients <- OneClient
  AgyCards <- FirstCard
  Limit <- Interference
  t1 = t1
  t2 = t2
  c1 = c1
INVARIANTS
  AtMostOneInFlight
