SPECIFICATION Spec
CONSTANTS
  r1 = r1
  r2 = r2
  r3 = r3
  u1 = u1
  u2 = u2
  u3 = u3
  Requests = {r1, r2, r3}
  Owners = {u1, u2, u3}
  Wallets = {u1, u2}
  Calls <- SomeCalls
  InitialActive = 2
  InitialHeld = 1
  Half = 8
  ColumnMax = 3
  MaxAborts = 1
INVARIANTS
  TypeOK
  BalancesAreAnswers
  HeldCoversBids
PROPERTIES
  MovesAreExact
CHECK_DEADLOCK FALSE
