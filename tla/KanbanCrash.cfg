SPECIFICATION Spec
CONSTANTS
  MaxCard = 1
  MaxTask = 2
  Tickers <- TwoTickers
  Clients <- NoClients
  AgyCards <- FirstCard
  Limit <- Upset
  t1 = t1
  t2 = t2
  c1 = c1
SYMMETRY TickerSymmetry
CONSTRAINT UpsetTwice
INVARIANTS
  NoLostWork
  ConcurrencyOne
  VerifyHasEvidence
