SPECIFICATION FairSpec
CONSTANTS
  Requests = {r1, r2}
  Worker = worker
  h1 = h1
  h2 = h2
  w1 = w1
  a1 = a1
  a2 = a2
  b1 = b1
  b2 = b2
  Wallets = {w1}
  HoldIds = {h1, h2}
  Auctions = {a1, a2}
  Bids = {b1, b2}
  Calls <- MixedCalls
  InitialActive = 3
  MaxConnections = 1
  MaxCrashes = 1
PROPERTIES
  ExpiredHoldsSettle
  CallsEnd
