SPECIFICATION Spec
CONSTANTS
  Requests = {r1, r2, r3}
  w1 = w1
  k1 = k1
  o1 = o1
  Wallets = {w1}
  Keys = {k1}
  NoKey = NoKey
  OpenPayments = {o1}
  OpenAmount = 2
  Calls <- PaymentCalls
  InitialActive = 1
  MaxCrashes = 1
  ServerKeySet = TRUE
  IrisKeysSet = TRUE
  Accounts = {}
SYMMETRY Symmetry
INVARIANTS
  TypeOK
  IntentRepliesStand
  BalanceExplained
  ReceiptPerPayment
  FinalRepliesStand
  PageLosesOnlyPaid
PROPERTIES
  PaymentFinality
  ImplementsContract
CHECK_DEADLOCK FALSE
