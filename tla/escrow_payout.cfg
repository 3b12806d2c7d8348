SPECIFICATION Spec
CONSTANTS
  Requests = {r1, r2, r3, r4}
  s1 = s1
  s2 = s2
  sale = sale
  order = order
  Sellers = {s1, s2}
  Correlations = {sale}
  Orders = {order}
  None = None
  Calls <- OrderCalls
  MaxCrashes = 0
SYMMETRY Symmetry
INVARIANTS
  SuccessfulPayoutsSettled
CHECK_DEADLOCK FALSE
