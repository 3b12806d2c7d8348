SPECIFICATION Spec
CONSTANTS
  Requests = {r1, r2, r3}
  w1 = w1
  k1 = k1
  Wallets = {w1}
  Keys = {k1}
  NoKey = NoKey
  a1 = a1
  a2 = a2
  Accounts = {a1, a2}
  NoAccount = NoAccount
  ServerKeySet = TRUE
  IrisKeysSet = TRUE
  Calls <- WithdrawalCalls
  InitialActive = 3
  MaxCrashes = 1
SYMMETRY Symmetry
INVARIANTS
  TypeOK
  WithdrawalRepliesStand
  StoredAreDebited
  DebitsHavePayouts
CHECK_DEADLOCK FALSE
