CONSTANTS
  Shoppers = {u1}
  Courses = {}
  Bundle = bundle
  PurchaseIds = {p1}
  Amounts = {5, 9}
  Requests = {r1}
  None = none
  Workers = {w1, w2}
  MessageIds = {m1, m2}
  PaymentIds = {x1}
  BatchSize = 2
  MaxReceiveCount = 2
SPECIFICATION FairSpec
INVARIANTS
  AcknowledgedIsKept
  DoneIsRecorded
  SessionMatchesRow
PROPERTY ChargeIsAccountedFor
