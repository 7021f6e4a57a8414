CONSTANTS
  Shoppers = {u1}
  Courses = {}
  Bundle = bundle
  PurchaseIds = {p1}
  Amounts = {5}
  Requests = {r1}
  None = none
  Workers = {w1}
  MessageIds = {m1, m2}
  PaymentIds = {x1, x2}
  BatchSize = 2
  MaxReceiveCount = 2
SPECIFICATION Spec
SYMMETRY SafetySymmetry
INVARIANTS
  RefundRevokes
