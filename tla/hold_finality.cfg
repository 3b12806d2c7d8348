SPECIFICATION Spec
CONSTANTS
  Requests = {r1, r2, r3}
  Worker = worker
  h1 = h1
  h2 = h2
  w1 = w1
  a1 = a1
  a2 = a2
  b1 = b1
  b2 = b2
  Wallets = {w1}
  HoldIds = {h1, h2}
  Auctions = {a1, a2}
  Bids = {b1, b2}
  Calls <- RaceCalls
  InitialActive = 3
  MaxConnections = 2
  MaxCrashes = 1
SYMMETRY Symmetry
PROPERTIES
  HoldFinality
