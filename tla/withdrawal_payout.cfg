SPECIFICATION Spec
CONSTANTS
  Requests = {r1, r2}
  w1 = w1
  k1 = k1
  Wallets = {w1}
  Keys = {k1}
  NoKey = NoKey
  a1 = a1
  a2 = a2
  Accounts = {a1, a2}
  NoAccount = NoAccount
  ServerKeySet = TRUE
  IrisKeysSet = TRUE
  Calls <- WithdrawalCalls
  InitialActive = 1
  MaxCrashes = 0
SYMMETRY Symmetry
INVARIANTS
  PayoutHasWithdrawal
CHECK_DEADLOCK FALSE
