CONSTANTS
  Shoppers = {u1}
  Courses = {c1}
  Bundle = bundle
  PurchaseIds = {p1, p2}
  Amounts = {5}
  Requests = {r1, r2}
  None = none
  Workers = {w1}
  MessageIds = {m1}
  PaymentIds = {x1}
  BatchSize = 1
  MaxReceiveCount = 1
SPECIFICATION Spec
SYMMETRY SafetySymmetry
PROPERTY RowsMoveForward
