CONSTANTS
  Shoppers = {u1}
  Courses = {}
  Bundle = bundle
  PurchaseIds = {p1, p2}
  Amounts = {5}
  Requests = {r1}
  None = none
  Workers = {w1}
  MessageIds = {m1}
  PaymentIds = {x1, x2}
  BatchSize = 1
  MaxReceiveCount = 2
SPECIFICATION Spec
SYMMETRY SafetySymmetry
INVARIANTS
  BillingTypeOK
  PaidIsCharged
  EventsAreTrue
  OnePaidPerProduct
PROPERTY ImplementsEntitlement
