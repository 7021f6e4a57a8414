--------------------------- MODULE BillingProofs ---------------------------
(* Proofs about module Billing, for every value of its constants. *)
EXTENDS Billing, TLAPS

-----------------------------------------------------------------------------
(* Operators on the purchases table *)

\* A row that exists has the type of a row.
LEMMA ExistingRow ==
  ASSUME TableTypeOK, NEW p \in PurchaseIds, RowExists(p)
  PROVE  purchases[p] \in Row
BY DEF TableTypeOK, RowExists, NeverIssued, Deleted

\* A row that does not exist is one of the two placeholders.
LEMMA MissingRow ==
  ASSUME TableTypeOK, NEW p \in PurchaseIds, ~RowExists(p)
  PROVE  purchases[p] \in {NeverIssued, Deleted}
BY DEF TableTypeOK, RowExists, Row

\* DELETE keeps the table well typed.
LEMMA WithoutRowsType ==
  ASSUME TableTypeOK, NEW S
  PROVE  WithoutRows(S) \in [PurchaseIds -> Row \cup {NeverIssued, Deleted}]
BY DEF TableTypeOK, WithoutRows

\* A status update of an existing row keeps the table well typed.
LEMMA WithStatusType ==
  ASSUME TableTypeOK, NEW p \in PurchaseIds, RowExists(p),
         NEW status \in {"pending", "paid", "failed", "revoked"}
  PROVE  WithStatus(p, status) \in
           [PurchaseIds -> Row \cup {NeverIssued, Deleted}]
<1>1. purchases[p] \in Row
  BY ExistingRow
<1>2. [purchases[p] EXCEPT !.status = status, !.stale = FALSE] \in Row
  BY <1>1 DEF Row
<1>3. WithStatus(p, status)
        = [purchases EXCEPT ![p] = [purchases[p] EXCEPT !.status = status,
                                                        !.stale = FALSE]]
  BY DEF WithStatus, TableTypeOK
<1>. QED
  BY <1>2, <1>3 DEF TableTypeOK

-----------------------------------------------------------------------------
(* Type correctness *)

\* The slot of an answered request is well typed again.
LEMMA IdleType == Idle \in {q \in Request : Informed(q)}
BY TableAssumption DEF Idle, Request, Phases, Informed

LEMMA ReplyType ==
  ASSUME CheckoutTypeOK, NEW r \in Requests, Reply(r)
  PROVE  req' \in [Requests -> {q \in Request : Informed(q)}]
BY IdleType DEF CheckoutTypeOK, Reply

LEMMA InitType == Init => BillingTypeOK
BY IdleType, TableAssumption, FulfillmentAssumption
DEF Init, TableInit, CheckoutInit, FulfillmentInit, BillingTypeOK, TableTypeOK,
    CheckoutTypeOK, FulfillmentTypeOK

\* Every step of a checkout request keeps the checkout component and the table
\* well typed.
LEMMA RequestType ==
  ASSUME TableTypeOK, CheckoutTypeOK, NEW r \in Requests,
         EdgeStep(r) \/ PrecheckStep(r)
  PROVE  TableTypeOK' /\ CheckoutTypeOK'
<1>. DEFINE q == req[r]
<1>0. q \in Request /\ Informed(q)
  BY DEF CheckoutTypeOK
<1>1. ASSUME NEW u \in Shoppers, NEW prod \in Products, StartCheckout(r, u, prod)
      PROVE  TableTypeOK' /\ CheckoutTypeOK'
  <2>1. [Idle EXCEPT !.pc = "ownership", !.who = u, !.product = prod]
          \in {s \in Request : Informed(s)}
    BY IdleType DEF Idle, Request, Informed, Phases
  <2>. QED
    BY <1>1, <2>1 DEF StartCheckout, TableTypeOK, CheckoutTypeOK
<1>2. CASE CreateCheckout(r)
  BY <1>0, <1>2, ReplyType DEF CreateCheckout, TableTypeOK, CheckoutTypeOK, Informed
<1>3. CASE CreateFails(r)
  <2>1. [q EXCEPT !.pc = "rollback"] \in {s \in Request : Informed(s)}
    BY <1>0, <1>3 DEF CreateFails, Request, Informed, Phases
  <2>. QED
    BY <1>3, <2>1 DEF CreateFails, Goto, TableTypeOK, CheckoutTypeOK
<1>4. CASE Rollback(r)
  BY <1>4, ReplyType, WithoutRowsType DEF Rollback, TableTypeOK, CheckoutTypeOK
<1>5. CASE AbandonRequest(r)
  BY <1>5, ReplyType DEF AbandonRequest, TableTypeOK, CheckoutTypeOK
<1>6. CASE CheckOwnership(r)
  <2>1. CASE Reply(r)
    BY <1>6, <2>1, ReplyType DEF CheckOwnership, TableTypeOK, CheckoutTypeOK
  <2>2. CASE Goto(r, "price")
    <3>1. [q EXCEPT !.pc = "price"] \in {s \in Request : Informed(s)}
      BY <1>0, <1>6 DEF CheckOwnership, Request, Informed, Phases
    <3>. QED
      BY <1>6, <2>2, <3>1 DEF CheckOwnership, Goto, TableTypeOK, CheckoutTypeOK
  <2>. QED
    BY <1>6, <2>1, <2>2 DEF CheckOwnership
<1>7. CASE ReadPrice(r)
  <2>1. CASE Reply(r)
    BY <1>7, <2>1, ReplyType DEF ReadPrice, TableTypeOK, CheckoutTypeOK
  <2>2. CASE price[q.product] # 0
    <3>1. price[q.product] \in Amounts
      BY <1>0, <1>7, <2>2 DEF ReadPrice, Informed, CheckoutTypeOK
    <3>2. [q EXCEPT !.pc = "reserve", !.amount = price[q.product]]
            \in {s \in Request : Informed(s)}
      BY <1>0, <1>7, <3>1 DEF ReadPrice, Request, Informed, Phases
    <3>3. req' = [req EXCEPT ![r] = [q EXCEPT !.pc = "reserve",
                                              !.amount = price[q.product]]]
      BY <1>7, <2>2 DEF ReadPrice, CheckoutTypeOK
    <3>. QED
      BY <1>7, <3>2, <3>3 DEF ReadPrice, TableTypeOK, CheckoutTypeOK
  <2>. QED
    BY <1>7, <2>1, <2>2 DEF ReadPrice
<1>8. CASE CheckPending(r)
  <2>1. CASE Reply(r) /\ UNCHANGED deleting
    BY <1>8, <2>1, ReplyType, WithoutRowsType
    DEF CheckPending, TableTypeOK, CheckoutTypeOK
  <2>2. CASE Goto(r, "insert") /\ UNCHANGED purchases
    <3>1. [q EXCEPT !.pc = "insert"] \in {s \in Request : Informed(s)}
      BY <1>0, <1>8 DEF CheckPending, Request, Informed, Phases
    <3>2. req' \in [Requests -> {s \in Request : Informed(s)}]
      BY <2>2, <3>1 DEF Goto, CheckoutTypeOK
    <3>3. StalePendingOf(q.who, q.product) \in SUBSET PurchaseIds
      BY DEF StalePendingOf, PendingOf, RowsOf
    <3>4. deleting' \in [Requests -> SUBSET PurchaseIds]
      BY <1>8, <3>3 DEF CheckPending, TableTypeOK
    <3>. QED
      BY <1>8, <2>2, <3>2, <3>4 DEF CheckPending, TableTypeOK, CheckoutTypeOK
  <2>. QED
    BY <1>8, <2>1, <2>2 DEF CheckPending
<1>9. ASSUME NEW p \in PurchaseIds, InsertPending(r, p)
      PROVE  TableTypeOK' /\ CheckoutTypeOK'
  <2>1. PendingRow(q.who, q.product, q.amount) \in Row
    BY <1>0, <1>9 DEF InsertPending, Informed, PendingRow, Row
  <2>2. purchases' \in [PurchaseIds -> Row \cup {NeverIssued, Deleted}]
    BY <1>9, <2>1, WithoutRowsType DEF InsertPending
  <2>3. [q EXCEPT !.pc = "create", !.pid = p] \in {s \in Request : Informed(s)}
    BY <1>0, <1>9 DEF InsertPending, Request, Informed, Phases
  <2>4. req' = [req EXCEPT ![r] = [q EXCEPT !.pc = "create", !.pid = p]]
    BY <1>9 DEF InsertPending, CheckoutTypeOK
  <2>. QED
    BY <1>9, <2>2, <2>3, <2>4 DEF InsertPending, TableTypeOK, CheckoutTypeOK
<1>. QED
  BY <1>1, <1>2, <1>3, <1>4, <1>5, <1>6, <1>7, <1>8, <1>9
  DEF EdgeStep, PrecheckStep

\* So do the teacher and the clock.
LEMMA CheckoutType ==
  ASSUME TableTypeOK, CheckoutTypeOK, CheckoutNext
  PROVE  TableTypeOK' /\ CheckoutTypeOK'
<1>1. ASSUME NEW prod \in Products, NEW a \in Amounts, SetPrice(prod, a)
      PROVE  TableTypeOK' /\ CheckoutTypeOK'
  BY <1>1 DEF SetPrice, TableTypeOK, CheckoutTypeOK
<1>2. ASSUME NEW p \in PurchaseIds, TtlElapses(p)
      PROVE  TableTypeOK' /\ CheckoutTypeOK'
  <2>1. purchases[p] \in Row
    BY <1>2, ExistingRow DEF TtlElapses, RowExists
  <2>2. [purchases[p] EXCEPT !.stale = TRUE] \in Row
    BY <2>1 DEF Row
  <2>. QED
    BY <1>2, <2>2 DEF TtlElapses, TableTypeOK, CheckoutTypeOK
<1>. QED
  BY <1>1, <1>2, RequestType DEF CheckoutNext

\* A message a worker holds is a message.
LEMMA HeldMessage ==
  ASSUME FulfillmentTypeOK, NEW w \in Workers, NEW m \in HeldBy(w)
  PROVE  m \in MessageIds /\ queue[m] \in Message
BY DEF HeldBy, FulfillmentTypeOK

\* Moving messages about, and writing down an outcome, keeps the queue well
\* typed.
LEMMA MoveType ==
  ASSUME FulfillmentTypeOK, NEW m \in MessageIds, queue[m] \in Message,
         NEW place \in {"queue", "dlq"} \cup Workers
  PROVE  [queue[m] EXCEPT !.at = place] \in Message
BY DEF Message

LEMMA OutcomeType ==
  ASSUME FulfillmentTypeOK, NEW w \in Workers, NEW m \in HeldBy(w),
         NEW o \in Outcomes, Outcome(m, o)
  PROVE  queue' \in [MessageIds -> Message \cup {NoMessage}]
<1>1. [queue[m] EXCEPT !.outcome = o] \in Message
  BY HeldMessage DEF Message
<1>. QED
  BY <1>1, HeldMessage DEF Outcome, FulfillmentTypeOK

\* A transaction on a record keeps the table and the queue well typed.
LEMMA ProcessType ==
  ASSUME TableTypeOK, FulfillmentTypeOK, NEW w \in Workers, NEW m \in MessageIds,
         ProcessRecord(w, m)
  PROVE  TableTypeOK' /\ FulfillmentTypeOK'
<1>. DEFINE event == queue[m].event
<1>0. m \in HeldBy(w) /\ queue[m] \in Message
  BY HeldMessage
  DEF ProcessRecord, Processing, SkipDuplicate, SettlePaid, SettleFailed, Revoke,
      RecordWithoutEffect, Reject, DatabaseFails
<1>1. event \in DomainEvent /\ event.eid \in EventIds /\ event.purchase \in PurchaseIds
  BY <1>0 DEF Message, DomainEvent
<1>2. "done" \in Outcomes /\ "failed" \in Outcomes
  BY DEF Outcomes
<1>3. ASSUME NEW table \in [PurchaseIds -> Row \cup {NeverIssued, Deleted}],
             Commit(m, table)
      PROVE  TableTypeOK' /\ FulfillmentTypeOK'
  BY <1>0, <1>1, <1>2, <1>3, OutcomeType
  DEF Commit, TableTypeOK, FulfillmentTypeOK
<1>4. ASSUME Abort(m)
      PROVE  TableTypeOK' /\ FulfillmentTypeOK'
  BY <1>0, <1>2, <1>4, OutcomeType DEF Abort, TableTypeOK, FulfillmentTypeOK
<1>5. CASE SkipDuplicate(w, m)
  BY <1>0, <1>2, <1>5, OutcomeType
  DEF SkipDuplicate, TableTypeOK, FulfillmentTypeOK
<1>6. CASE SettlePaid(w, m)
  BY <1>1, <1>3, <1>6, WithStatusType DEF SettlePaid, RowExists
<1>7. CASE SettleFailed(w, m)
  BY <1>1, <1>3, <1>7, WithStatusType DEF SettleFailed, RowExists
<1>8. CASE Revoke(w, m)
  BY <1>1, <1>3, <1>8, WithStatusType DEF Revoke, RowExists
<1>9. CASE RecordWithoutEffect(w, m)
  BY <1>3, <1>9 DEF RecordWithoutEffect, TableTypeOK
<1>10. CASE Reject(w, m) \/ DatabaseFails(w, m)
  BY <1>4, <1>10 DEF Reject, DatabaseFails
<1>. QED
  BY <1>5, <1>6, <1>7, <1>8, <1>9, <1>10 DEF ProcessRecord

\* Every step of the queue and of the worker keeps them well typed.
LEMMA FulfillmentType ==
  ASSUME TableTypeOK, FulfillmentTypeOK, FulfillmentNext
  PROVE  TableTypeOK' /\ FulfillmentTypeOK'
<1>1. ASSUME NEW w \in Workers, NEW batch \in SUBSET MessageIds,
             ReceiveBatch(w, batch)
      PROVE  TableTypeOK' /\ FulfillmentTypeOK'
  <2>1. ASSUME NEW m \in batch
        PROVE  [queue[m] EXCEPT !.at = w, !.receives = queue[m].receives + 1,
                                !.outcome = "none"] \in Message
    <3>1. queue[m] \in Message
      BY <1>1 DEF ReceiveBatch, InQueue, FulfillmentTypeOK
    <3>2. queue[m].receives + 1 \in 0..MaxReceiveCount
      <4>1. queue[m].receives \in 0..MaxReceiveCount
        BY <3>1 DEF Message
      <4>2. queue[m].receives < MaxReceiveCount
        BY <1>1 DEF ReceiveBatch
      <4>. QED
        BY <4>1, <4>2, FulfillmentAssumption
    <3>. QED
      BY <3>1, <3>2 DEF Message, Outcomes
  <2>. QED
    BY <1>1, <2>1 DEF ReceiveBatch, TableTypeOK, FulfillmentTypeOK
<1>2. ASSUME NEW w \in Workers, NEW m \in MessageIds, ProcessRecord(w, m)
      PROVE  TableTypeOK' /\ FulfillmentTypeOK'
  BY <1>2, ProcessType
<1>3. ASSUME NEW w \in Workers, ReturnBatch(w)
      PROVE  TableTypeOK' /\ FulfillmentTypeOK'
  <2>1. \A m \in HeldBy(w) : [queue[m] EXCEPT !.at = "queue"] \in Message
    BY HeldMessage, MoveType
  <2>. QED
    BY <1>3, <2>1 DEF ReturnBatch, TableTypeOK, FulfillmentTypeOK
<1>4. ASSUME NEW w \in Workers, WorkerDies(w)
      PROVE  TableTypeOK' /\ FulfillmentTypeOK'
  <2>1. \A m \in HeldBy(w) : [queue[m] EXCEPT !.at = "queue"] \in Message
    BY HeldMessage, MoveType
  <2>. QED
    BY <1>4, <2>1 DEF WorkerDies, TableTypeOK, FulfillmentTypeOK
<1>5. ASSUME NEW m \in MessageIds, Redrive(m)
      PROVE  TableTypeOK' /\ FulfillmentTypeOK'
  <2>1. queue[m] \in Message
    BY <1>5 DEF Redrive, InQueue, FulfillmentTypeOK
  <2>2. [queue[m] EXCEPT !.at = "dlq"] \in Message
    BY <2>1, MoveType
  <2>. QED
    BY <1>5, <2>2 DEF Redrive, TableTypeOK, FulfillmentTypeOK
<1>. QED
  BY <1>1, <1>2, <1>3, <1>4, <1>5 DEF FulfillmentNext

\* HyperPay's steps keep its payments well typed.
LEMMA GatewayType ==
  ASSUME BillingTypeOK, GatewayStep
  PROVE  BillingTypeOK'
<1>. SUFFICES payments' \in [PaymentIds -> Payment \cup {NoPayment}]
  BY DEF GatewayStep, Pay, Settle, Refund, BillingTypeOK, TableTypeOK, CheckoutTypeOK,
         FulfillmentTypeOK, checkoutVars, fulfillmentVars
<1>1. ASSUME NEW p \in PurchaseIds, NEW x \in PaymentIds, NEW result \in Results,
             Pay(p, x, result)
      PROVE  payments' \in [PaymentIds -> Payment \cup {NoPayment}]
  <2>1. sessions[p] \in Amounts
    BY <1>1 DEF Pay, BillingTypeOK, CheckoutTypeOK
  <2>2. [type |-> "DB", purchase |-> p, amount |-> sessions[p], result |-> result]
          \in Payment
    BY <2>1 DEF Payment
  <2>. QED
    BY <1>1, <2>2 DEF Pay, BillingTypeOK
<1>2. ASSUME NEW x \in PaymentIds, NEW result \in Results, Settle(x, result)
      PROVE  payments' \in [PaymentIds -> Payment \cup {NoPayment}]
  <2>1. [payments[x] EXCEPT !.result = result] \in Payment
    BY <1>2 DEF Settle, Payment, BillingTypeOK
  <2>. QED
    BY <1>2, <2>1 DEF Settle, BillingTypeOK
<1>3. ASSUME NEW x \in PaymentIds, NEW y \in PaymentIds, NEW result \in Results,
             Refund(x, y, result)
      PROVE  payments' \in [PaymentIds -> Payment \cup {NoPayment}]
  <2>1. payments[x] \in Payment
    BY <1>3 DEF Refund, BillingTypeOK
  <2>2. [payments[x] EXCEPT !.type = "RF", !.result = result] \in Payment
    BY <2>1 DEF Payment
  <2>. QED
    BY <1>3, <2>2 DEF Refund, BillingTypeOK
<1>. QED
  BY <1>1, <1>2, <1>3 DEF GatewayStep

\* The event of a payment that is reported is a domain event.
LEMMA EventType ==
  ASSUME BillingTypeOK, NEW x \in PaymentIds, payments[x] # NoPayment
  PROVE  EventOf(x) \in DomainEvent
BY DEF BillingTypeOK, EventOf, DomainEvent, EventTypes, EventIds, Notification, Payment

LEMMA EnqueuedType ==
  ASSUME FulfillmentTypeOK, NEW m \in MessageIds, NEW event \in DomainEvent
  PROVE  Enqueued(m, event) \in [MessageIds -> Message \cup {NoMessage}]
<1>1. [at |-> "queue", event |-> event, receives |-> 0, outcome |-> "none"] \in Message
  BY FulfillmentAssumption DEF Message, Outcomes
<1>. QED
  BY <1>1 DEF Enqueued, FulfillmentTypeOK

\* The webhook handler keeps everything well typed.
LEMMA WebhookType ==
  ASSUME BillingTypeOK, NEW x \in PaymentIds, Webhook(x)
  PROVE  BillingTypeOK'
<1>1. payments[x] \in Payment
  BY DEF Webhook, BillingTypeOK
<1>2. Notification(x) \in EventIds
  BY <1>1 DEF Notification, EventIds, Payment
<1>3. queue' \in [MessageIds -> Message \cup {NoMessage}]
  BY EventType, EnqueuedType
  DEF Webhook, IgnoreWebhook, EnqueueWebhook, EnqueueUnconfirmed, BillingTypeOK,
      FulfillmentTypeOK
<1>4. acknowledged' \in SUBSET EventIds
  BY <1>2
  DEF Webhook, IgnoreWebhook, EnqueueWebhook, EnqueueUnconfirmed, Acknowledge,
      BillingTypeOK
<1>. QED
  BY <1>3, <1>4
  DEF Webhook, BillingTypeOK, TableTypeOK, CheckoutTypeOK, FulfillmentTypeOK,
      checkoutVars

LEMMA NextType == BillingTypeOK /\ [Next]_vars => BillingTypeOK'
<1>. SUFFICES ASSUME BillingTypeOK, [Next]_vars
              PROVE  BillingTypeOK'
  OBVIOUS
<1>1. CASE CheckoutNext /\ UNCHANGED <<fulfillmentVars, payments, acknowledged>>
  BY <1>1, CheckoutType DEF BillingTypeOK, FulfillmentTypeOK, fulfillmentVars
<1>2. CASE FulfillmentNext /\ UNCHANGED <<checkoutVars, payments, acknowledged>>
  BY <1>2, FulfillmentType DEF BillingTypeOK, CheckoutTypeOK, checkoutVars
<1>3. CASE GatewayStep
  BY <1>3, GatewayType
<1>4. ASSUME NEW x \in PaymentIds, Webhook(x)
      PROVE  BillingTypeOK'
  BY <1>4, WebhookType
<1>5. CASE UNCHANGED vars
  BY <1>5
  DEF vars, BillingTypeOK, TableTypeOK, CheckoutTypeOK, FulfillmentTypeOK
<1>. QED
  BY <1>1, <1>2, <1>3, <1>4, <1>5 DEF Next

\* The type invariant of the whole purchase path: rows, requests, messages and
\* payments always carry the data their status or phase needs.
THEOREM TypeCorrect == Spec => []BillingTypeOK
BY InitType, NextType, PTL DEF Spec

-----------------------------------------------------------------------------
(* How a row of the table may change *)

\* A checkout request, the teacher and the clock only insert pending rows, age
\* them and delete them.
LEMMA CheckoutRows ==
  ASSUME BillingTypeOK, LocksHold, CheckoutNext, NEW p \in PurchaseIds
  PROVE  \/ purchases'[p] = purchases[p]
         \/ purchases[p].status = "none" /\ purchases'[p].status = "pending"
         \/ purchases[p].status = "pending" /\ purchases'[p] = Deleted
         \/ /\ purchases[p].status = "pending"
            /\ purchases'[p].status = "pending"
            /\ purchases'[p].amount = purchases[p].amount
<1>. USE DEF BillingTypeOK, TableTypeOK
<1>1. ASSUME NEW r \in Requests, EdgeStep(r)
      PROVE  \/ purchases'[p] = purchases[p]
             \/ purchases[p].status = "pending" /\ purchases'[p] = Deleted
  BY <1>1 DEF EdgeStep, StartCheckout, CreateCheckout, CreateFails, Rollback,
              AbandonRequest, WithoutRows, PendingOf, RowsOf
<1>2. ASSUME NEW r \in Requests, PrecheckStep(r)
      PROVE  \/ purchases'[p] = purchases[p]
             \/ purchases[p].status = "none" /\ purchases'[p].status = "pending"
             \/ purchases[p].status = "pending" /\ purchases'[p] = Deleted
  <2>1. CASE CheckOwnership(r) \/ ReadPrice(r)
    BY <2>1 DEF CheckOwnership, ReadPrice
  <2>2. CASE CheckPending(r)
    BY <2>2 DEF CheckPending, WithoutRows, StalePendingOf, PendingOf, RowsOf
  <2>3. ASSUME NEW n \in PurchaseIds, InsertPending(r, n)
        PROVE  \/ purchases'[p] = purchases[p]
               \/ purchases[p].status = "none" /\ purchases'[p].status = "pending"
               \/ purchases[p].status = "pending" /\ purchases'[p] = Deleted
    <3>1. CASE p = n
      BY <2>3, <3>1 DEF InsertPending, WithoutRows, PendingRow, NeverIssued
    <3>2. CASE p # n /\ p \in deleting[r]
      BY <2>3, <3>2 DEF InsertPending, WithoutRows, LocksHold
    <3>3. CASE p # n /\ p \notin deleting[r]
      BY <2>3, <3>3 DEF InsertPending, WithoutRows
    <3>. QED
      BY <3>1, <3>2, <3>3
  <2>. QED
    BY <1>2, <2>1, <2>2, <2>3 DEF PrecheckStep
<1>3. ASSUME NEW prod \in Products, NEW a \in Amounts, SetPrice(prod, a)
      PROVE  purchases'[p] = purchases[p]
  BY <1>3 DEF SetPrice
<1>4. ASSUME NEW n \in PurchaseIds, TtlElapses(n)
      PROVE  \/ purchases'[p] = purchases[p]
             \/ /\ purchases[p].status = "pending"
                /\ purchases'[p].status = "pending"
                /\ purchases'[p].amount = purchases[p].amount
  <2>1. purchases[n] \in Row /\ purchases[n].status = "pending"
    BY <1>4, ExistingRow DEF TtlElapses, RowExists
  <2>2. CASE p = n
    <3>1. purchases'[n] = [purchases[n] EXCEPT !.stale = TRUE]
      BY <1>4 DEF TtlElapses
    <3>. QED
      BY <2>1, <2>2, <3>1 DEF Row
  <2>3. CASE p # n
    BY <1>4, <2>3 DEF TtlElapses
  <2>. QED
    BY <2>2, <2>3
<1>. QED
  BY <1>1, <1>2, <1>3, <1>4 DEF CheckoutNext

\* The transaction of event e changes the row of purchase p: it is not locked,
\* the event is new, and the change is one of the three updates.
Updates(p, e) ==
  /\ p = e.purchase
  /\ p \notin LockedRows
  /\ \/ /\ e.type = "purchase.paid"
        /\ purchases[p].status = "pending"
        /\ AmountMatches(e)
        /\ UniquePaidAllows(p)
        /\ purchases' = WithStatus(p, "paid")
     \/ /\ e.type = "purchase.failed"
        /\ purchases[p].status = "pending"
        /\ purchases' = WithStatus(p, "failed")
     \/ /\ e.type = "purchase.revoked"
        /\ purchases[p].status = "paid"
        /\ purchases' = WithStatus(p, "revoked")

\* The worker changes no row, or the one row of the event it processes.
LEMMA FulfillmentRows ==
  ASSUME BillingTypeOK, FulfillmentNext
  PROVE  \/ purchases' = purchases
         \/ \E m \in MessageIds :
              queue[m] \in Message /\ Updates(queue[m].event.purchase, queue[m].event)
<1>1. ASSUME NEW w \in Workers, NEW m \in MessageIds, ProcessRecord(w, m)
      PROVE  \/ purchases' = purchases
             \/ queue[m] \in Message /\ Updates(queue[m].event.purchase, queue[m].event)
  <2>1. queue[m] \in Message
    BY <1>1, HeldMessage
    DEF BillingTypeOK, ProcessRecord, Processing, SkipDuplicate, SettlePaid,
        SettleFailed, Revoke, RecordWithoutEffect, Reject, DatabaseFails
  <2>2. CASE SettlePaid(w, m)
    BY <2>1, <2>2 DEF SettlePaid, Commit, Updates
  <2>3. CASE SettleFailed(w, m)
    BY <2>1, <2>3 DEF SettleFailed, Commit, Updates
  <2>4. CASE Revoke(w, m)
    BY <2>1, <2>4 DEF Revoke, Commit, Updates
  <2>5. CASE SkipDuplicate(w, m) \/ RecordWithoutEffect(w, m) \/ Reject(w, m)
               \/ DatabaseFails(w, m)
    BY <2>5 DEF SkipDuplicate, RecordWithoutEffect, Commit, Reject, DatabaseFails, Abort
  <2>. QED
    BY <1>1, <2>2, <2>3, <2>4, <2>5 DEF ProcessRecord
<1>. QED
  BY <1>1
  DEF FulfillmentNext, ReceiveBatch, ReturnBatch, WorkerDies, Redrive

\* A step of any other part leaves the table alone.
LEMMA TableStep ==
  ASSUME [Next]_vars
  PROVE  \/ CheckoutNext /\ UNCHANGED <<fulfillmentVars, payments, acknowledged>>
         \/ FulfillmentNext /\ UNCHANGED <<checkoutVars, payments, acknowledged>>
         \/ UNCHANGED <<purchases, deleting>>
BY DEF Next, vars, GatewayStep, Webhook

\* The row an update leaves behind.
LEMMA UpdatedRow ==
  ASSUME BillingTypeOK, NEW e \in DomainEvent, Updates(e.purchase, e),
         NEW q \in PurchaseIds
  PROVE  /\ q # e.purchase => purchases'[q] = purchases[q]
         /\ purchases[e.purchase] \in Row
         /\ purchases'[e.purchase] \in Row
         /\ purchases'[e.purchase].owner = purchases[e.purchase].owner
         /\ purchases'[e.purchase].product = purchases[e.purchase].product
         /\ purchases'[e.purchase].amount = purchases[e.purchase].amount
         /\ purchases'[e.purchase].status =
              CASE e.type = "purchase.paid" -> "paid"
                [] e.type = "purchase.failed" -> "failed"
                [] OTHER -> "revoked"
<1>. DEFINE p == e.purchase
<1>1. p \in PurchaseIds
  BY DEF DomainEvent
<1>2. purchases[p] \in Row
  BY <1>1, ExistingRow DEF Updates, RowExists, BillingTypeOK
<1>3. PICK status \in {"paid", "failed", "revoked"} :
        /\ purchases' = WithStatus(p, status)
        /\ status = CASE e.type = "purchase.paid" -> "paid"
                      [] e.type = "purchase.failed" -> "failed"
                      [] OTHER -> "revoked"
  BY DEF Updates
<1>4. purchases' = [purchases EXCEPT ![p] = [purchases[p] EXCEPT !.status = status,
                                                                 !.stale = FALSE]]
  BY <1>3 DEF WithStatus, BillingTypeOK, TableTypeOK
<1>5. /\ \A n \in PurchaseIds : n # p => purchases'[n] = purchases[n]
      /\ purchases'[p] = [purchases[p] EXCEPT !.status = status, !.stale = FALSE]
  BY <1>1, <1>4 DEF BillingTypeOK, TableTypeOK
<1>. QED
  BY <1>2, <1>3, <1>5 DEF Row

-----------------------------------------------------------------------------
(* Row locks *)

\* A row an open transaction has deleted is locked.
LEMMA DeletingIsLocked ==
  ASSUME NEW r \in Requests, NEW p \in deleting[r]
  PROVE  p \in LockedRows
BY DEF LockedRows

LEMMA InitLocks == Init => LocksHold
BY DEF Init, TableInit, LocksHold

\* A checkout step locks only rows nobody holds, and touches only rows nobody
\* else holds.
LEMMA CheckoutLocks ==
  ASSUME BillingTypeOK, LocksHold, CheckoutNext
  PROVE  LocksHold'
<1>. USE DEF BillingTypeOK, TableTypeOK
<1>1. ASSUME NEW r \in Requests, EdgeStep(r)
      PROVE  LocksHold'
  <2>1. CASE Rollback(r)
    BY <2>1, DeletingIsLocked DEF Rollback, WithoutRows, LocksHold
  <2>2. CASE AbandonRequest(r)
    BY <2>2 DEF AbandonRequest, LocksHold
  <2>. QED
    BY <1>1, <2>1, <2>2
    DEF EdgeStep, StartCheckout, CreateCheckout, CreateFails, LocksHold
<1>2. ASSUME NEW r \in Requests, PrecheckStep(r)
      PROVE  LocksHold'
  <2>1. CASE CheckPending(r)
    <3>. DEFINE stale == StalePendingOf(req[r].who, req[r].product)
    <3>1. stale \cap LockedRows = {}
      BY <2>1 DEF CheckPending
    <3>2. CASE purchases' = WithoutRows(stale) /\ UNCHANGED deleting
      BY <3>1, <3>2, DeletingIsLocked DEF WithoutRows, LocksHold
    <3>3. CASE deleting' = [deleting EXCEPT ![r] = stale] /\ UNCHANGED purchases
      <4>1. \A p \in stale : purchases[p].status = "pending"
        BY DEF StalePendingOf, PendingOf, RowsOf
      <4>. QED
        BY <3>1, <3>3, <4>1, DeletingIsLocked DEF LocksHold
    <3>. QED
      BY <2>1, <3>2, <3>3 DEF CheckPending
  <2>2. ASSUME NEW n \in PurchaseIds, InsertPending(r, n)
        PROVE  LocksHold'
    <3>1. ASSUME NEW s \in Requests \ {r}, NEW p \in deleting[s]
          PROVE  purchases'[p].status = "pending"
      <4>1. p \notin deleting[r] /\ purchases[p].status = "pending"
        BY <3>1 DEF LocksHold
      <4>2. p # n
        BY <2>2, <4>1 DEF InsertPending, NeverIssued
      <4>. QED
        BY <2>2, <4>1, <4>2 DEF InsertPending, WithoutRows
    <3>2. deleting' = [deleting EXCEPT ![r] = {}]
      BY <2>2 DEF InsertPending
    <3>. QED
      BY <3>1, <3>2 DEF LocksHold
  <2>. QED
    BY <1>2, <2>1, <2>2 DEF PrecheckStep, CheckOwnership, ReadPrice, LocksHold
<1>3. ASSUME NEW p \in PurchaseIds, TtlElapses(p)
      PROVE  LocksHold'
  BY <1>3 DEF TtlElapses, LocksHold
<1>. QED
  BY <1>1, <1>2, <1>3 DEF CheckoutNext, SetPrice, LocksHold

\* The worker updates no locked row.
LEMMA FulfillmentLocks ==
  ASSUME BillingTypeOK, LocksHold, FulfillmentNext
  PROVE  LocksHold'
<1>1. deleting' = deleting
  BY DEF FulfillmentNext, ReceiveBatch, ProcessRecord, SkipDuplicate, SettlePaid,
         SettleFailed, Revoke, RecordWithoutEffect, Reject, DatabaseFails, Commit,
         Abort, ReturnBatch, WorkerDies, Redrive
<1>2. ASSUME NEW m \in MessageIds, queue[m] \in Message,
             Updates(queue[m].event.purchase, queue[m].event)
      PROVE  LocksHold'
  <2>. DEFINE e == queue[m].event
  <2>1. e \in DomainEvent /\ e.purchase \notin LockedRows
    BY <1>2 DEF Updates, Message
  <2>2. ASSUME NEW r \in Requests, NEW p \in deleting[r]
        PROVE  purchases'[p] = purchases[p]
    BY <1>2, <2>1, <2>2, UpdatedRow, DeletingIsLocked DEF BillingTypeOK, TableTypeOK
  <2>. QED
    BY <1>1, <2>2 DEF LocksHold
<1>3. CASE purchases' = purchases
  BY <1>1, <1>3 DEF LocksHold
<1>. QED
  BY <1>2, <1>3, FulfillmentRows

LEMMA NextLocks == BillingTypeOK /\ LocksHold /\ [Next]_vars => LocksHold'
BY TableStep, CheckoutLocks, FulfillmentLocks DEF LocksHold

\* Neither a payment nor a rollback slips between the DELETE and the COMMIT of a
\* reservation, and no row is held by two of them.
THEOREM LocksAlwaysHold == Spec => []LocksHold
BY InitLocks, NextLocks, TypeCorrect, PTL DEF Spec

-----------------------------------------------------------------------------
(* Rows only move forward, and one product is paid once *)

\* The five ways a row's status may change, seen from one step.
LEMMA RowMoves ==
  ASSUME BillingTypeOK, LocksHold, [Next]_vars
  PROVE  StatusMoves
<1>. SUFFICES ASSUME NEW p \in PurchaseIds,
                     purchases'[p].status # purchases[p].status
              PROVE  <<purchases[p].status, purchases'[p].status>> \in
                       {<<"none", "pending">>, <<"pending", "paid">>,
                        <<"pending", "failed">>, <<"pending", "deleted">>,
                        <<"paid", "revoked">>}
  BY DEF StatusMoves
<1>1. CASE CheckoutNext
  BY <1>1, CheckoutRows DEF Deleted
<1>2. CASE FulfillmentNext
  <2>1. PICK m \in MessageIds :
          queue[m] \in Message /\ Updates(queue[m].event.purchase, queue[m].event)
    BY <1>2, FulfillmentRows
  <2>. DEFINE e == queue[m].event
  <2>2. e \in DomainEvent
    BY <2>1 DEF Message
  <2>3. p = e.purchase
    BY <2>1, <2>2, UpdatedRow
  <2>. QED
    BY <2>1, <2>2, <2>3, UpdatedRow DEF Updates
<1>. QED
  BY <1>1, <1>2, TableStep

\* A purchase is never settled twice nor resurrected.
THEOREM RowsAlwaysMoveForward == Spec => RowsMoveForward
<1>1. BillingTypeOK /\ LocksHold /\ [Next]_vars => [StatusMoves]_vars
  BY RowMoves
<1>. QED
  BY <1>1, TypeCorrect, LocksAlwaysHold, PTL DEF Spec, RowsMoveForward

LEMMA InitOnePaid == Init => OnePaidPerProduct
BY DEF Init, TableInit, NeverIssued, OnePaidPerProduct

\* Checkouts and the clock make no row paid, and leave the paid ones alone.
LEMMA CheckoutPaid ==
  ASSUME BillingTypeOK, LocksHold, CheckoutNext, NEW p \in PurchaseIds,
         NEW status \in {"paid", "revoked"}
  PROVE  /\ purchases'[p].status = status <=> purchases[p].status = status
         /\ purchases[p].status = status => purchases'[p] = purchases[p]
BY CheckoutRows DEF Deleted

\* Whatever raced before it, a payment settles only where the unique index has
\* room.
LEMMA NextOnePaid ==
  BillingTypeOK /\ LocksHold /\ OnePaidPerProduct /\ [Next]_vars
    => OnePaidPerProduct'
<1>. SUFFICES ASSUME BillingTypeOK, LocksHold, OnePaidPerProduct, [Next]_vars
              PROVE  OnePaidPerProduct'
  OBVIOUS
<1>1. CASE CheckoutNext
  BY <1>1, CheckoutPaid DEF OnePaidPerProduct
<1>2. ASSUME NEW m \in MessageIds, queue[m] \in Message,
             Updates(queue[m].event.purchase, queue[m].event)
      PROVE  OnePaidPerProduct'
  <2>. DEFINE e == queue[m].event
              n == e.purchase
  <2>1. e \in DomainEvent /\ n \in PurchaseIds
    BY <1>2 DEF Message, DomainEvent
  <2>2. \A q \in PurchaseIds :
          /\ q # n => purchases'[q] = purchases[q]
          /\ purchases'[n].owner = purchases[n].owner
          /\ purchases'[n].product = purchases[n].product
    BY <1>2, <2>1, UpdatedRow
  <2>3. CASE e.type = "purchase.paid"
    <3>1. UniquePaidAllows(n)
      BY <1>2, <2>3 DEF Updates
    <3>. QED
      BY <2>1, <2>2, <3>1 DEF OnePaidPerProduct, UniquePaidAllows, RowsOf
  <2>4. CASE e.type # "purchase.paid"
    <3>1. purchases'[n].status # "paid"
      BY <1>2, <2>1, <2>4, UpdatedRow
    <3>. QED
      BY <2>2, <3>1 DEF OnePaidPerProduct
  <2>. QED
    BY <2>3, <2>4
<1>3. CASE UNCHANGED purchases
  BY <1>3 DEF OnePaidPerProduct
<1>. QED
  BY <1>1, <1>2, <1>3, TableStep, FulfillmentRows

\* Two settled payments of one product never both stand.
THEOREM PaidOncePerProduct == Spec => []OnePaidPerProduct
BY InitOnePaid, NextOnePaid, TypeCorrect, LocksAlwaysHold, PTL DEF Spec

-----------------------------------------------------------------------------
(* How a message and a payment may change *)

\* A step that keeps a message's event, deletes the message only when it was
\* reported as processed, and reports it so only with its event id recorded.
Kept(m) ==
  /\ webhookEvents \subseteq webhookEvents'
  /\ queue'[m] # NoMessage =>
       /\ queue[m] # NoMessage
       /\ queue'[m].event = queue[m].event
       /\ queue'[m].outcome = "done" =>
            queue[m].outcome = "done" \/ queue[m].event.eid \in webhookEvents'
  /\ queue[m] # NoMessage /\ queue'[m] = NoMessage => queue[m].outcome = "done"

\* Every step of the worker and of the event source mapping is such a step.
LEMMA FulfillmentQueue ==
  ASSUME BillingTypeOK, FulfillmentNext, NEW m \in MessageIds
  PROVE  Kept(m)
<1>. USE DEF BillingTypeOK, FulfillmentTypeOK, Kept
<1>0. queue[m] \in Message \/ queue[m] = NoMessage
  OBVIOUS
<1>1. ASSUME NEW w \in Workers, NEW batch \in SUBSET MessageIds,
             ReceiveBatch(w, batch)
      PROVE  Kept(m)
  <2>1. CASE m \in batch
    <3>1. queue[m] \in Message
      BY <1>0, <1>1, <2>1 DEF ReceiveBatch, InQueue
    <3>2. queue'[m] = [queue[m] EXCEPT !.at = w,
                                       !.receives = queue[m].receives + 1,
                                       !.outcome = "none"]
      BY <1>1, <2>1 DEF ReceiveBatch
    <3>3. queue'[m].event = queue[m].event /\ queue'[m].outcome = "none"
      BY <3>1, <3>2 DEF Message
    <3>4. queue[m] # NoMessage /\ queue'[m] # NoMessage
      BY <1>1, <2>1, <3>1, <3>2 DEF ReceiveBatch, InQueue, Message, NoMessage
    <3>. QED
      BY <1>1, <3>3, <3>4 DEF ReceiveBatch
  <2>2. CASE m \notin batch
    BY <1>1, <2>2 DEF ReceiveBatch
  <2>. QED
    BY <2>1, <2>2
<1>2. ASSUME NEW w \in Workers, NEW n \in MessageIds, ProcessRecord(w, n)
      PROVE  Kept(m)
  <2>1. Processing(w, n) /\ queue[n] \in Message
    BY <1>2, HeldMessage
    DEF ProcessRecord, Processing, SkipDuplicate, SettlePaid, SettleFailed, Revoke,
        RecordWithoutEffect, Reject, DatabaseFails
  <2>2. PICK o \in {"done", "failed"} :
          /\ Outcome(n, o)
          /\ webhookEvents \subseteq webhookEvents'
          /\ o = "done" => queue[n].event.eid \in webhookEvents'
    BY <1>2
    DEF ProcessRecord, SkipDuplicate, IsNew, SettlePaid, SettleFailed, Revoke,
        RecordWithoutEffect, Reject, DatabaseFails, Commit, Abort
  <2>3. CASE m = n
    <3>1. queue'[m] = [queue[m] EXCEPT !.outcome = o]
      BY <2>2, <2>3 DEF Outcome
    <3>2. queue'[m].event = queue[m].event /\ queue'[m].outcome = o
      BY <2>1, <2>3, <3>1 DEF Message
    <3>3. queue[m] # NoMessage /\ queue'[m] # NoMessage
      BY <2>1, <2>3, <3>1 DEF Processing, HeldBy, Message, NoMessage
    <3>. QED
      BY <2>2, <2>3, <3>2, <3>3
  <2>4. CASE m # n
    BY <2>2, <2>4 DEF Outcome
  <2>. QED
    BY <2>3, <2>4
<1>3. ASSUME queue[m] \in Message, queue[m] # NoMessage,
             NEW place, queue'[m] = [queue[m] EXCEPT !.at = place],
             webhookEvents' = webhookEvents
      PROVE  Kept(m)
  <2>1. queue'[m].event = queue[m].event /\ queue'[m].outcome = queue[m].outcome
    BY <1>3 DEF Message
  <2>2. queue'[m] # NoMessage
    BY <1>3 DEF Message, NoMessage
  <2>. QED
    BY <1>3, <2>1, <2>2
<1>4. ASSUME NEW w \in Workers, ReturnBatch(w)
      PROVE  Kept(m)
  <2>1. CASE m \in HeldBy(w) /\ queue[m].outcome = "failed"
    BY <1>0, <1>3, <1>4, <2>1 DEF ReturnBatch, HeldBy
  <2>2. CASE m \in HeldBy(w) /\ queue[m].outcome # "failed"
    <3>1. queue[m] \in Message /\ queue[m].outcome # "none"
      BY <1>0, <1>4, <2>2 DEF ReturnBatch, HeldBy
    <3>2. queue[m].outcome = "done"
      BY <2>2, <3>1 DEF Message, Outcomes
    <3>. QED
      BY <1>4, <2>2, <3>2 DEF ReturnBatch
  <2>3. CASE m \notin HeldBy(w)
    BY <1>4, <2>3 DEF ReturnBatch
  <2>. QED
    BY <2>1, <2>2, <2>3
<1>5. ASSUME NEW w \in Workers, WorkerDies(w)
      PROVE  Kept(m)
  <2>1. CASE m \in HeldBy(w)
    BY <1>0, <1>3, <1>5, <2>1 DEF WorkerDies, HeldBy
  <2>2. CASE m \notin HeldBy(w)
    BY <1>5, <2>2 DEF WorkerDies
  <2>. QED
    BY <2>1, <2>2
<1>6. ASSUME NEW n \in MessageIds, Redrive(n)
      PROVE  Kept(m)
  <2>1. CASE m = n
    BY <1>0, <1>3, <1>6, <2>1 DEF Redrive, InQueue
  <2>2. CASE m # n
    BY <1>6, <2>2 DEF Redrive
  <2>. QED
    BY <2>1, <2>2
<1>. QED
  BY <1>1, <1>2, <1>4, <1>5, <1>6 DEF FulfillmentNext

\* HyperPay never forgets a payment, nor changes anything but the result of one
\* that is pending.
LEMMA GatewayPayments ==
  ASSUME BillingTypeOK, GatewayStep, NEW x \in PaymentIds, payments[x] # NoPayment
  PROVE  /\ payments[x] \in Payment
         /\ payments'[x] \in Payment
         /\ payments'[x].type = payments[x].type
         /\ payments'[x].purchase = payments[x].purchase
         /\ payments'[x].amount = payments[x].amount
         /\ payments[x].result # "pending" => payments'[x] = payments[x]
<1>. USE DEF BillingTypeOK
<1>1. payments[x] \in Payment
  OBVIOUS
<1>2. CASE payments'[x] = payments[x]
  BY <1>1, <1>2
<1>3. ASSUME NEW y \in PaymentIds, NEW result \in Results, Settle(y, result)
      PROVE  \/ payments'[x] = payments[x]
             \/ /\ payments[x].result = "pending"
                /\ payments'[x] = [payments[x] EXCEPT !.result = result]
  BY <1>3 DEF Settle
<1>4. ASSUME NEW result \in Results, payments[x].result = "pending",
             payments'[x] = [payments[x] EXCEPT !.result = result]
      PROVE  /\ payments'[x] \in Payment
             /\ payments'[x].type = payments[x].type
             /\ payments'[x].purchase = payments[x].purchase
             /\ payments'[x].amount = payments[x].amount
  BY <1>1, <1>4 DEF Payment
<1>5. \/ payments'[x] = payments[x]
      \/ \E y \in PaymentIds, result \in Results : Settle(y, result)
  BY DEF GatewayStep, Pay, Refund
<1>. QED
  BY <1>1, <1>2, <1>3, <1>4, <1>5

\* What every step of the system does to a payment: nothing, or a step of HyperPay.
LEMMA NextPayments ==
  ASSUME [Next]_vars
  PROVE  GatewayStep \/ payments' = payments
BY DEF Next, vars, Webhook

\* A charge stays a charge, of the same amount, and a refund a refund.
LEMMA ChargesStand ==
  ASSUME BillingTypeOK, [Next]_vars, NEW x \in PaymentIds, NEW p
  PROVE  /\ Charged(x, p) => Charged(x, p)' /\ payments'[x] = payments[x]
         /\ IsRefund(x, p) => IsRefund(x, p)'
<1>1. CASE GatewayStep /\ payments[x] # NoPayment
  <2>1. payments'[x] # NoPayment
    BY <1>1, GatewayPayments DEF Payment, NoPayment
  <2>. QED
    BY <1>1, <2>1, GatewayPayments DEF Charged, IsDebit, IsRefund
<1>. QED
  BY <1>1, NextPayments DEF Charged, IsDebit, IsRefund

\* A step of the billing edge on a message: none, or a true event in a free slot.
LEMMA WebhookQueue ==
  ASSUME BillingTypeOK, NEW x \in PaymentIds, Webhook(x), NEW m \in MessageIds
  PROVE  \/ queue'[m] = queue[m]
         \/ /\ queue[m] = NoMessage
            /\ ~MeansNothing(x)
            /\ queue'[m] # NoMessage
            /\ queue'[m].event = EventOf(x)
            /\ queue'[m].outcome = "none"
BY DEF Webhook, IgnoreWebhook, EnqueueWebhook, EnqueueUnconfirmed, Enqueued,
       BillingTypeOK, FulfillmentTypeOK, NoMessage

\* What every step of the system does to the queue: nothing, or a step of the
\* worker, or a webhook.
LEMMA NextQueue ==
  ASSUME [Next]_vars
  PROVE  \/ FulfillmentNext /\ UNCHANGED <<payments, acknowledged>>
         \/ \E x \in PaymentIds : Webhook(x)
         \/ UNCHANGED <<queue, webhookEvents, acknowledged>>
BY DEF Next, vars, GatewayStep, Pay, Settle, Refund, fulfillmentVars

-----------------------------------------------------------------------------
(* Queued events are true *)

LEMMA InitEvents == Init => EventsAreTrue
BY DEF Init, FulfillmentInit, EventsAreTrue

\* What EventsAreTrue says of one event.
TrueEvent(e) ==
  /\ e.type = "purchase.paid" =>
       Charged(e.eid[1], e.purchase) /\ payments[e.eid[1]].amount = e.amount
  /\ e.type = "purchase.revoked" => IsRefund(e.eid[1], e.purchase)

\* parse_hyperpay_webhook produces only true events.
LEMMA EventOfIsTrue ==
  ASSUME BillingTypeOK, NEW x \in PaymentIds, payments[x] # NoPayment, ~MeansNothing(x)
  PROVE  TrueEvent(EventOf(x))
<1>1. payments[x] \in Payment
  BY DEF BillingTypeOK
<1>. QED
  BY <1>1
  DEF TrueEvent, EventOf, Notification, MeansNothing, Charged, IsDebit, IsRefund,
      Payment

\* And a true event stays true.
LEMMA TrueForever ==
  ASSUME BillingTypeOK, [Next]_vars, NEW e \in DomainEvent, TrueEvent(e)
  PROVE  TrueEvent(e)'
<1>1. e.eid[1] \in PaymentIds
  BY DEF DomainEvent, EventIds
<1>. QED
  BY <1>1, ChargesStand DEF TrueEvent

LEMMA NextEvents == BillingTypeOK /\ EventsAreTrue /\ [Next]_vars => EventsAreTrue'
<1>. SUFFICES ASSUME BillingTypeOK, EventsAreTrue, [Next]_vars,
                     NEW m \in MessageIds, queue'[m] # NoMessage
              PROVE  TrueEvent(queue[m].event)'
  BY DEF EventsAreTrue, TrueEvent
<1>1. ASSUME queue[m] # NoMessage, queue'[m].event = queue[m].event
      PROVE  TrueEvent(queue[m].event)'
  <2>1. PICK e \in DomainEvent : e = queue[m].event
    BY <1>1 DEF BillingTypeOK, FulfillmentTypeOK, Message
  <2>2. TrueEvent(e)
    BY <1>1, <2>1 DEF EventsAreTrue, TrueEvent
  <2>3. TrueEvent(e)'
    BY <2>2, TrueForever
  <2>. QED
    BY <1>1, <2>1, <2>3 DEF TrueEvent
<1>2. CASE FulfillmentNext
  BY <1>1, <1>2, FulfillmentQueue DEF Kept
<1>3. ASSUME NEW x \in PaymentIds, Webhook(x)
      PROVE  TrueEvent(queue[m].event)'
  <2>1. CASE queue'[m] = queue[m]
    BY <1>1, <2>1
  <2>2. CASE ~MeansNothing(x) /\ queue'[m].event = EventOf(x)
    <3>1. payments[x] # NoPayment
      BY <1>3 DEF Webhook
    <3>2. PICK e \in DomainEvent : e = EventOf(x)
      BY <3>1, EventType
    <3>3. TrueEvent(e)
      BY <2>2, <3>1, <3>2, EventOfIsTrue
    <3>4. TrueEvent(e)'
      BY <3>3, TrueForever
    <3>. QED
      BY <2>2, <3>2, <3>4 DEF TrueEvent
  <2>. QED
    BY <1>3, <2>1, <2>2, WebhookQueue
<1>4. CASE UNCHANGED queue
  BY <1>1, <1>4
<1>. QED
  BY <1>2, <1>3, <1>4, NextQueue

\* A queued event tells the truth about HyperPay for as long as it is queued.
THEOREM EventsStayTrue == Spec => []EventsAreTrue
BY InitEvents, NextEvents, TypeCorrect, PTL DEF Spec

-----------------------------------------------------------------------------
(* No paid row without its charge *)

LEMMA InitCharged == Init => PaidIsCharged
BY DEF Init, TableInit, NeverIssued, PaidIsCharged

LEMMA NextCharged ==
  BillingTypeOK /\ LocksHold /\ EventsAreTrue /\ PaidIsCharged /\ [Next]_vars
    => PaidIsCharged'
<1>. SUFFICES ASSUME BillingTypeOK, LocksHold, EventsAreTrue, PaidIsCharged,
                     [Next]_vars, NEW p \in PurchaseIds,
                     purchases'[p].status = "paid"
              PROVE  \E x \in PaymentIds :
                       /\ Charged(x, p)'
                       /\ payments'[x].amount = purchases'[p].amount
  BY DEF PaidIsCharged
<1>1. CASE purchases'[p] = purchases[p]
  BY <1>1, ChargesStand DEF PaidIsCharged
<1>2. CASE CheckoutNext
  BY <1>1, <1>2, CheckoutPaid
<1>3. ASSUME NEW m \in MessageIds, queue[m] \in Message,
             Updates(queue[m].event.purchase, queue[m].event)
      PROVE  \E x \in PaymentIds :
               /\ Charged(x, p)'
               /\ payments'[x].amount = purchases'[p].amount
  <2>. DEFINE e == queue[m].event
              x == e.eid[1]
  <2>1. e \in DomainEvent /\ x \in PaymentIds
    BY <1>3 DEF Message, DomainEvent, EventIds
  <2>2. CASE p = e.purchase
    <3>1. e.type = "purchase.paid"
      BY <1>3, <2>1, <2>2, UpdatedRow
    <3>2. /\ AmountMatches(e)
          /\ purchases'[p].amount = purchases[p].amount
      BY <1>3, <2>1, <2>2, <3>1, UpdatedRow DEF Updates
    <3>3. queue[m] # NoMessage
      BY <1>3 DEF Message, NoMessage
    <3>4. Charged(x, p) /\ payments[x].amount = e.amount
      BY <2>2, <3>1, <3>3 DEF EventsAreTrue
    <3>. QED
      BY <2>1, <2>2, <3>2, <3>4, ChargesStand DEF AmountMatches
  <2>3. CASE p # e.purchase
    BY <1>1, <1>3, <2>1, <2>3, UpdatedRow
  <2>. QED
    BY <2>2, <2>3
<1>. QED
  BY <1>1, <1>2, <1>3, TableStep, FulfillmentRows

\* A paid row is backed by a charge of exactly the price reserved in it.
THEOREM PaidRowsAreCharged == Spec => []PaidIsCharged
BY InitCharged, NextCharged, TypeCorrect, LocksAlwaysHold, EventsStayTrue, PTL DEF Spec

-----------------------------------------------------------------------------
(* Nothing acknowledged or processed is forgotten *)

LEMMA InitDone == Init => DoneIsRecorded
BY DEF Init, FulfillmentInit, DoneIsRecorded

LEMMA NextDone == BillingTypeOK /\ DoneIsRecorded /\ [Next]_vars => DoneIsRecorded'
<1>. SUFFICES ASSUME BillingTypeOK, DoneIsRecorded, [Next]_vars,
                     NEW m \in MessageIds, queue'[m] # NoMessage,
                     queue'[m].outcome = "done"
              PROVE  queue'[m].event.eid \in webhookEvents'
  BY DEF DoneIsRecorded
<1>1. CASE FulfillmentNext
  BY <1>1, FulfillmentQueue DEF Kept, DoneIsRecorded
<1>2. ASSUME NEW x \in PaymentIds, Webhook(x)
      PROVE  queue'[m].event.eid \in webhookEvents'
  <2>1. webhookEvents' = webhookEvents
    BY <1>2 DEF Webhook
  <2>. QED
    BY <1>2, <2>1, WebhookQueue DEF DoneIsRecorded
<1>3. CASE UNCHANGED <<queue, webhookEvents>>
  BY <1>3 DEF DoneIsRecorded
<1>. QED
  BY <1>1, <1>2, <1>3, NextQueue

\* A record reported as processed is in payment_webhook_events.
THEOREM DoneAlwaysRecorded == Spec => []DoneIsRecorded
BY InitDone, NextDone, TypeCorrect, PTL DEF Spec

LEMMA InitAcknowledged == Init => AcknowledgedIsKept
BY DEF Init, AcknowledgedIsKept

LEMMA NextAcknowledged ==
  BillingTypeOK /\ DoneIsRecorded /\ AcknowledgedIsKept /\ [Next]_vars
    => AcknowledgedIsKept'
<1>. SUFFICES ASSUME BillingTypeOK, DoneIsRecorded, AcknowledgedIsKept, [Next]_vars,
                     NEW x \in PaymentIds, NEW result \in Results,
                     <<x, result>> \in acknowledged'
              PROVE  \/ <<x, result>> \in webhookEvents'
                     \/ \E m \in MessageIds :
                          queue'[m] # NoMessage /\ queue'[m].event.eid = <<x, result>>
                     \/ payments'[x].type = "DB" /\ result = "pending"
  BY DEF AcknowledgedIsKept
<1>. DEFINE n == <<x, result>>
            Safe == \/ n \in webhookEvents'
                    \/ \E m \in MessageIds :
                         queue'[m] # NoMessage /\ queue'[m].event.eid = n
                    \/ payments'[x].type = "DB" /\ result = "pending"
<1>. HIDE DEF n
<1>1. ASSUME FulfillmentNext, UNCHANGED <<payments, acknowledged>>
      PROVE  Safe
  <2>1. ASSUME NEW m \in MessageIds, queue[m] # NoMessage, queue[m].event.eid = n
        PROVE  Safe
    <3>1. CASE queue'[m] = NoMessage
      BY <1>1, <2>1, <3>1, FulfillmentQueue DEF Kept, DoneIsRecorded
    <3>2. CASE queue'[m] # NoMessage
      BY <1>1, <2>1, <3>2, FulfillmentQueue DEF Kept
    <3>. QED
      BY <3>1, <3>2
  <2>2. CASE n \in webhookEvents
    <3>1. \A m \in MessageIds : webhookEvents \subseteq webhookEvents'
      BY <1>1, FulfillmentQueue DEF Kept
    <3>2. MessageIds = {} => webhookEvents' = webhookEvents
      BY <1>1
      DEF FulfillmentNext, ReceiveBatch, ReturnBatch, WorkerDies, HeldBy
    <3>. QED
      BY <2>2, <3>1, <3>2
  <2>. QED
    BY <1>1, <2>1, <2>2 DEF AcknowledgedIsKept, n
<1>2. ASSUME NEW y \in PaymentIds, Webhook(y)
      PROVE  Safe
  <2>1. /\ UNCHANGED <<webhookEvents, payments>>
        /\ payments[y] # NoPayment /\ payments[y] \in Payment
    BY <1>2 DEF Webhook, BillingTypeOK
  <2>2. CASE n \in acknowledged
    <3>1. \A m \in MessageIds :
            queue[m] # NoMessage => queue'[m] = queue[m]
      BY <1>2, WebhookQueue
    <3>. QED
      BY <2>1, <2>2, <3>1 DEF AcknowledgedIsKept, n
  <2>3. CASE n \notin acknowledged
    <3>1. n = Notification(y) /\ x = y
      BY <1>2, <2>3
      DEF Webhook, IgnoreWebhook, EnqueueWebhook, EnqueueUnconfirmed, Acknowledge,
          Notification, n
    <3>2. CASE MeansNothing(y)
      BY <2>1, <3>1, <3>2 DEF MeansNothing, Notification, n
    <3>3. CASE ~MeansNothing(y)
      <4>1. PICK m \in MessageIds :
              queue[m] = NoMessage /\ queue' = Enqueued(m, EventOf(y))
        BY <1>2, <3>3
        DEF Webhook, IgnoreWebhook, EnqueueWebhook, EnqueueUnconfirmed
      <4>2. queue'[m].event.eid = Notification(y) /\ queue'[m] # NoMessage
        BY <4>1 DEF Enqueued, EventOf, BillingTypeOK, FulfillmentTypeOK, NoMessage
      <4>. QED
        BY <3>1, <4>2
    <3>. QED
      BY <3>2, <3>3
  <2>. QED
    BY <2>2, <2>3
<1>3. ASSUME UNCHANGED <<queue, webhookEvents, acknowledged>>
      PROVE  Safe
  <2>1. CASE payments[x].type = "DB" /\ result = "pending"
    <3>1. payments'[x].type = payments[x].type
      BY <2>1, NextPayments, GatewayPayments DEF NoPayment
    <3>. QED
      BY <2>1, <3>1
  <2>2. CASE ~(payments[x].type = "DB" /\ result = "pending")
    BY <1>3, <2>2 DEF AcknowledgedIsKept, n
  <2>. QED
    BY <2>1, <2>2
<1>. QED
  BY <1>1, <1>2, <1>3, NextQueue DEF n

\* A notification answered with 200 is never lost.
THEOREM AcknowledgedNeverLost == Spec => []AcknowledgedIsKept
BY InitAcknowledged, NextAcknowledged, TypeCorrect, DoneAlwaysRecorded, PTL DEF Spec

-----------------------------------------------------------------------------
(* The price cannot move under a checkout *)

\* SessionMatchesRow is not inductive: the amount a session gets was carried by
\* its request since the INSERT, and an id once issued is never issued again.
ReservationKept ==
  /\ \A p \in PurchaseIds : sessions[p] # 0 => purchases[p] # NeverIssued
  /\ \A r \in Requests :
       req[r].pc = "create" =>
         /\ purchases[req[r].pid] # NeverIssued
         /\ RowExists(req[r].pid) => req[r].amount = purchases[req[r].pid].amount

SessionInv == SessionMatchesRow /\ ReservationKept

LEMMA InitSession == Init => SessionInv
BY DEF Init, CheckoutInit, Idle, SessionInv, SessionMatchesRow, ReservationKept

\* A row once inserted keeps its amount for as long as it exists.
LEMMA AmountsStand ==
  ASSUME BillingTypeOK, LocksHold, [Next]_vars, NEW p \in PurchaseIds,
         purchases[p] # NeverIssued
  PROVE  /\ purchases'[p] # NeverIssued
         /\ RowExists(p)' => RowExists(p) /\ purchases'[p].amount = purchases[p].amount
<1>1. StatusMoves
  BY RowMoves
<1>2. purchases[p].status # "none"
  BY MissingRow DEF BillingTypeOK, Deleted, RowExists
<1>3. purchases'[p].status # "none" /\ purchases'[p] # NeverIssued
  BY <1>1, <1>2 DEF StatusMoves, NeverIssued
<1>4. CASE CheckoutNext
  BY <1>2, <1>3, <1>4, CheckoutRows DEF RowExists, Deleted
<1>5. ASSUME NEW m \in MessageIds, queue[m] \in Message,
             Updates(queue[m].event.purchase, queue[m].event)
      PROVE  RowExists(p)' => RowExists(p) /\ purchases'[p].amount = purchases[p].amount
  <2>1. queue[m].event \in DomainEvent
    BY <1>5 DEF Message
  <2>2. CASE p = queue[m].event.purchase
    BY <1>5, <2>1, <2>2, UpdatedRow DEF Updates, RowExists
  <2>3. CASE p # queue[m].event.purchase
    BY <1>5, <2>1, <2>3, UpdatedRow DEF RowExists
  <2>. QED
    BY <2>2, <2>3
<1>6. CASE UNCHANGED purchases
  BY <1>6 DEF RowExists
<1>. QED
  BY <1>3, <1>4, <1>5, <1>6, TableStep, FulfillmentRows

\* A request in phase create either was there before, or has just inserted.
LEMMA RequestStep ==
  ASSUME BillingTypeOK, CheckoutNext, NEW r \in Requests, req'[r].pc = "create"
  PROVE  \/ req'[r] = req[r] /\ req[r].pid \in PurchaseIds
         \/ /\ req'[r].pid \in PurchaseIds
            /\ InsertPending(r, req'[r].pid)
            /\ req'[r].amount = req[r].amount
<1>. USE DEF BillingTypeOK, CheckoutTypeOK
<1>0. req[r] \in Request /\ Informed(req[r])
  OBVIOUS
<1>1. CASE req'[r] = req[r]
  BY <1>0, <1>1 DEF Informed
<1>2. CASE req'[r] # req[r]
  <2>1. PICK s \in Requests : EdgeStep(s) \/ PrecheckStep(s)
    BY <1>2 DEF CheckoutNext, SetPrice, TtlElapses
  <2>2. s = r
    BY <1>2, <2>1
    DEF EdgeStep, PrecheckStep, StartCheckout, CreateCheckout, CreateFails, Rollback,
        AbandonRequest, CheckOwnership, ReadPrice, CheckPending, InsertPending, Goto,
        Reply
  <2>3. \E p \in PurchaseIds : InsertPending(r, p)
    <3>1. ~EdgeStep(r)
      <4>1. \A u \in Shoppers, prod \in Products : ~StartCheckout(r, u, prod)
        <5>1. \A u \in Shoppers, prod \in Products :
                [Idle EXCEPT !.pc = "ownership", !.who = u, !.product = prod].pc
                  = "ownership"
          BY DEF Idle
        <5>. QED
          BY <5>1 DEF StartCheckout
      <4>2. ~CreateFails(r)
        BY <1>0, <1>2 DEF CreateFails, Goto, Request
      <4>3. ~CreateCheckout(r) /\ ~Rollback(r) /\ ~AbandonRequest(r)
        BY DEF CreateCheckout, Rollback, AbandonRequest, Reply, Idle
      <4>. QED
        BY <4>1, <4>2, <4>3 DEF EdgeStep
    <3>2. ~CheckOwnership(r) /\ ~ReadPrice(r) /\ ~CheckPending(r)
      BY <1>0 DEF CheckOwnership, ReadPrice, CheckPending, Goto, Reply, Idle, Request
    <3>. QED
      BY <2>1, <2>2, <3>1, <3>2 DEF PrecheckStep
  <2>4. PICK p \in PurchaseIds : InsertPending(r, p)
    BY <2>3
  <2>5. req'[r] = [req[r] EXCEPT !.pc = "create", !.pid = p]
    BY <2>4 DEF InsertPending
  <2>6. req'[r].pid = p /\ req'[r].amount = req[r].amount
    BY <1>0, <2>5 DEF Request
  <2>. QED
    BY <2>4, <2>6
<1>. QED
  BY <1>1, <1>2

\* What InsertPending leaves in the table.
LEMMA InsertedRow ==
  ASSUME BillingTypeOK, NEW r \in Requests, NEW p \in PurchaseIds, InsertPending(r, p)
  PROVE  purchases'[p] = PendingRow(req[r].who, req[r].product, req[r].amount)
BY DEF InsertPending, BillingTypeOK, TableTypeOK, WithoutRows

LEMMA NextSession == BillingTypeOK /\ LocksHold /\ SessionInv /\ [Next]_vars => SessionInv'
<1>. SUFFICES ASSUME BillingTypeOK, LocksHold, SessionInv, [Next]_vars
              PROVE  SessionInv'
  OBVIOUS
<1>. USE DEF SessionInv
<1>1. ASSUME NEW p \in PurchaseIds, sessions'[p] = sessions[p], sessions[p] # 0
      PROVE  /\ purchases'[p] # NeverIssued
             /\ RowExists(p)' => sessions[p] = purchases'[p].amount
  BY <1>1, AmountsStand DEF SessionMatchesRow, ReservationKept
<1>2. ASSUME NEW r \in Requests, req[r].pc = "create", req[r].pid \in PurchaseIds
      PROVE  /\ purchases'[req[r].pid] # NeverIssued
             /\ purchases'[req[r].pid].status \notin {"none", "deleted"} =>
                  req[r].amount = purchases'[req[r].pid].amount
  BY <1>2, AmountsStand DEF ReservationKept, RowExists
<1>3. CASE CheckoutNext
  <2>1. ASSUME NEW r \in Requests, req'[r].pc = "create"
        PROVE  /\ purchases'[req'[r].pid] # NeverIssued
               /\ purchases'[req'[r].pid].status \notin {"none", "deleted"} =>
                    req'[r].amount = purchases'[req'[r].pid].amount
    <3>1. CASE req'[r] = req[r] /\ req[r].pid \in PurchaseIds
      BY <1>2, <2>1, <3>1
    <3>2. CASE /\ req'[r].pid \in PurchaseIds
               /\ InsertPending(r, req'[r].pid)
               /\ req'[r].amount = req[r].amount
      <4>1. PICK p \in PurchaseIds : p = req'[r].pid
        BY <3>2
      <4>2. purchases'[p] = PendingRow(req[r].who, req[r].product, req[r].amount)
        BY <3>2, <4>1, InsertedRow
      <4>. QED
        BY <3>2, <4>1, <4>2 DEF PendingRow, NeverIssued
    <3>. QED
      BY <1>3, <2>1, <3>1, <3>2, RequestStep
  <2>2. ASSUME NEW p \in PurchaseIds, sessions'[p] # 0
        PROVE  /\ purchases'[p] # NeverIssued
               /\ purchases'[p].status \notin {"none", "deleted"} =>
                    sessions'[p] = purchases'[p].amount
    <3>1. CASE sessions'[p] = sessions[p]
      BY <1>1, <2>2, <3>1 DEF RowExists
    <3>2. CASE sessions'[p] # sessions[p]
      <4>1. PICK r \in Requests : CreateCheckout(r)
        BY <1>3, <3>2
        DEF CheckoutNext, EdgeStep, PrecheckStep, StartCheckout, CreateFails, Rollback,
            AbandonRequest, CheckOwnership, ReadPrice, CheckPending, InsertPending,
            SetPrice, TtlElapses
      <4>2. req[r].pc = "create" /\ req[r].pid = p /\ sessions'[p] = req[r].amount
        BY <3>2, <4>1 DEF CreateCheckout, BillingTypeOK, CheckoutTypeOK
      <4>. QED
        BY <1>2, <4>2
    <3>. QED
      BY <3>1, <3>2
  <2>. QED
    BY <2>1, <2>2 DEF SessionMatchesRow, ReservationKept, RowExists
<1>4. CASE UNCHANGED checkoutVars
  <2>1. \A r \in Requests : req[r].pc = "create" => req[r].pid \in PurchaseIds
    BY DEF BillingTypeOK, CheckoutTypeOK, Informed
  <2>. QED
    BY <1>1, <1>2, <1>4, <2>1
    DEF SessionMatchesRow, ReservationKept, RowExists, checkoutVars
<1>5. CheckoutNext \/ UNCHANGED checkoutVars
  BY DEF Next, vars, GatewayStep, Webhook, checkoutVars
<1>. QED
  BY <1>3, <1>4, <1>5

\* What HyperPay will charge for a purchase is the amount in its row, whatever
\* the teacher sets meanwhile.
THEOREM PriceStands == Spec => []SessionMatchesRow
<1>1. Spec => []SessionInv
  BY InitSession, NextSession, TypeCorrect, LocksAlwaysHold, PTL DEF Spec
<1>2. SessionInv => SessionMatchesRow
  BY DEF SessionInv
<1>. QED
  BY <1>1, <1>2, PTL

=============================================================================
